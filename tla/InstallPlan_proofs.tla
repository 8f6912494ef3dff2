-------------------------- MODULE InstallPlan_proofs --------------------------
(***************************************************************************)
(* What the planners' building blocks give for every layout: lists made    *)
(* partition by partition, orders of the partitions, and the commands that *)
(* planners use, with the partitions they are for; then the shape of whole *)
(* plans, and the partitions that paths belong to.                         *)
(***************************************************************************)
EXTENDS InstallPlan, SequenceTheorems, FiniteSetTheorems, WellFoundedInduction, TLAPS

(* Induction.  A set of numbers has a least one; a set of lists with the   *)
(* empty one and all that are one longer than a list in it has all lists.  *)
Smaller == {pair \in Nat \X Nat : pair[1] < pair[2]}

LEMMA SmallerWellFounded == IsWellFoundedOn(Smaller, Nat)
BY NatLessThanWellFounded DEF OpToRel, Smaller

LEMMA Least ==
    ASSUME NEW S \in SUBSET Nat, S # {}
    PROVE  \E m \in S : \A n \in S : m <= n
<1>1. PICK m \in S : \A n \in S : ~(<<n, m>> \in Smaller)
    BY SmallerWellFounded, WFMin
<1>2. \A n \in S : ~(n < m)
    BY <1>1 DEF Smaller
<1> QED
    BY <1>1, <1>2

LEMMA LastTakenOff ==
    ASSUME NEW S, NEW s \in Seq(S), s # <<>>
    PROVE  \E p \in Seq(S), x \in S : s = Append(p, x) /\ Len(p) < Len(s)
<1>1. PICK n \in Nat : n = Len(s) - 1 /\ Len(s) = n + 1
    OBVIOUS
<1>2. PICK p : p = [j \in 1 .. n |-> s[j]]
    OBVIOUS
<1>3. p \in Seq(S) /\ Len(p) = n
    BY <1>1, <1>2
<1>4. PICK x \in S : x = s[n + 1]
    BY <1>1
<1>5. Append(p, x) \in Seq(S) /\ Len(Append(p, x)) = n + 1
    BY <1>3
<1>6. ASSUME NEW j \in 1 .. n + 1 PROVE Append(p, x)[j] = s[j]
    BY <1>2, <1>3, <1>4
<1>7. Append(p, x) = s
    BY <1>1, <1>5, <1>6, SeqEqual
<1> QED
    BY <1>1, <1>3, <1>7

LEMMA ListInduction ==
    ASSUME NEW S, NEW T \in SUBSET Seq(S), <<>> \in T,
           \A s \in T, x \in S : Append(s, x) \in T
    PROVE  T = Seq(S)
<1> SUFFICES ASSUME NEW bad \in Seq(S) \ T PROVE FALSE
    OBVIOUS
<1> DEFINE Missing == {Len(s) : s \in Seq(S) \ T}
<1>1. Missing # {} /\ Missing \in SUBSET Nat
    <2>1. Len(bad) \in Missing
        OBVIOUS
    <2>2. \A s \in Seq(S) : Len(s) \in Nat
        OBVIOUS
    <2> QED
        BY <2>1, <2>2
<1>2. PICK n \in Missing : \A m \in Missing : n <= m
    <2> HIDE DEF Missing
    <2> QED
        BY <1>1, Least
<1>3. PICK s \in Seq(S) \ T : Len(s) = n
    BY <1>2
<1>4. PICK p \in Seq(S), x \in S : s = Append(p, x) /\ Len(p) < Len(s)
    BY <1>3, LastTakenOff
<1>5. p \in T
    <2> SUFFICES ASSUME p \notin T PROVE FALSE
        OBVIOUS
    <2>1. Len(p) \in Missing /\ Len(p) \in Nat
        OBVIOUS
    <2> HIDE DEF Missing
    <2> QED
        BY <1>1, <1>2, <1>3, <1>4, <2>1
<1> QED
    BY <1>3, <1>4, <1>5

-----------------------------------------------------------------------------
(* FlattenSeq is a recursive function, chosen: there is one, and its       *)
(* values are settled by the lists before.                                 *)
Joined(a, b) == a \o b
Joins(f, s, n) == f = [j \in 1 .. n |-> IF j = 1 THEN s[j] ELSE Joined(f[j - 1], s[j])]

Continues(f, s, j) == f[j] = IF j = 1 THEN s[j] ELSE Joined(f[j - 1], s[j])
Alike(f, g, l) == \A j \in 1 .. l : f[j] = g[j]

LEMMA JoinedTypes ==
    ASSUME NEW S, NEW a \in Seq(S), NEW b \in Seq(S)
    PROVE  Joined(a, b) \in Seq(S)
BY DEF Joined

LEMMA JoinsAt ==
    ASSUME NEW f, NEW s, NEW n, Joins(f, s, n)
    PROVE  \A j \in 1 .. n : Continues(f, s, j)
<1> DEFINE V(j) == IF j = 1 THEN s[j] ELSE Joined(f[j - 1], s[j])
<1>1. f = [j \in 1 .. n |-> V(j)]
    BY DEF Joins
<1> HIDE DEF V
<1>2. \A j \in 1 .. n : f[j] = V(j)
    BY <1>1
<1> QED
    BY <1>2 DEF V, Continues

LEMMA JoinsExist ==
    ASSUME NEW S, NEW s \in Seq(Seq(S)), NEW n \in 1 .. Len(s)
    PROVE  \E f \in [1 .. n -> Seq(S)] : Joins(f, s, n)
<1> DEFINE Bad == {m \in 1 .. Len(s) : ~\E f \in [1 .. m -> Seq(S)] : Joins(f, s, m)}
<1>1. SUFFICES ASSUME Bad # {} PROVE FALSE
    OBVIOUS
<1>2. Bad \in SUBSET Nat
    OBVIOUS
<1>3. PICK m \in Bad : \A l \in Bad : m <= l
    <2> HIDE DEF Bad
    <2> QED
        BY <1>1, <1>2, Least
<1>4. m # 1
    <2> SUFFICES ASSUME m = 1 PROVE FALSE
        OBVIOUS
    <2> DEFINE g == [j \in 1 .. 1 |-> s[1]]
    <2>1. g \in [1 .. 1 -> Seq(S)] /\ Joins(g, s, 1)
        BY DEF Joins
    <2> QED
        BY <1>3, <2>1
<1>5. m - 1 \in 1 .. Len(s) /\ m - 1 \notin Bad /\ m \in 1 .. Len(s)
    <2>1. Len(s) \in Nat /\ m \in 1 .. Len(s)
        BY <1>3
    <2>2. m - 1 \notin Bad
        <3> HIDE DEF Bad
        <3> QED
            BY <1>2, <1>3, <2>1
    <2> QED
        BY <1>4, <2>1, <2>2
<1>6. PICK f \in [1 .. m - 1 -> Seq(S)] : Joins(f, s, m - 1)
    BY <1>5
<1> DEFINE g == [j \in 1 .. m |-> IF j = m THEN Joined(f[m - 1], s[m]) ELSE f[j]]
<1>7. Joined(f[m - 1], s[m]) \in Seq(S)
    <2>1. s[m] \in Seq(S) /\ f[m - 1] \in Seq(S)
        BY <1>4, <1>5, <1>6
    <2> QED
        BY <2>1, JoinedTypes
<1>8. g \in [1 .. m -> Seq(S)]
    BY <1>5, <1>6, <1>7
<1>9. \A j \in 1 .. m - 1 : Continues(f, s, j)
    BY <1>6, JoinsAt
<1>10. \A j \in 1 .. m : g[j] = IF j = 1 THEN s[j] ELSE Joined(g[j - 1], s[j])
    <2> TAKE j \in 1 .. m
    <2>1. CASE j = m
        BY <1>4, <1>5, <2>1
    <2>2. CASE j # m
        <3>1. j \in 1 .. m - 1 /\ (j # 1 => j - 1 \in 1 .. m /\ j - 1 # m)
            BY <1>5, <2>2
        <3>2. g[j] = f[j] /\ (j # 1 => g[j - 1] = f[j - 1])
            BY <2>2, <3>1
        <3> QED
            BY <1>9, <3>1, <3>2 DEF Continues
    <2> QED
        BY <2>1, <2>2
<1>11. Joins(g, s, m)
    <2>1. g = [j \in 1 .. m |-> g[j]]
        OBVIOUS
    <2> HIDE DEF g
    <2> QED
        BY <1>10, <2>1 DEF Joins
<1> QED
    BY <1>3, <1>8, <1>11

LEMMA JoinsAgree ==
    ASSUME NEW s, NEW t, NEW f, NEW g, NEW n \in Nat, NEW m \in Nat,
           Joins(f, s, n), Joins(g, t, m), NEW l \in Nat, l <= n, l <= m,
           Alike(s, t, l)
    PROVE  Alike(f, g, l)
<1> DEFINE Bad == {j \in 1 .. l : f[j] # g[j]}
<1>1. SUFFICES ASSUME Bad # {} PROVE FALSE
    BY DEF Alike
<1>2. Bad \in SUBSET Nat
    OBVIOUS
<1>3. PICK j \in Bad : \A i \in Bad : j <= i
    <2> HIDE DEF Bad
    <2> QED
        BY <1>1, <1>2, Least
<1>4. j \in 1 .. l /\ j \in 1 .. n /\ j \in 1 .. m /\ f[j] # g[j] /\ s[j] = t[j]
    BY <1>3 DEF Alike
<1>5. /\ f[j] = IF j = 1 THEN s[j] ELSE Joined(f[j - 1], s[j])
      /\ g[j] = IF j = 1 THEN t[j] ELSE Joined(g[j - 1], t[j])
    <2>1. Continues(f, s, j) /\ Continues(g, t, j)
        BY <1>4, JoinsAt
    <2> QED
        BY <2>1 DEF Continues
<1>6. j # 1 => f[j - 1] = g[j - 1]
    BY <1>3, <1>4
<1> QED
    BY <1>4, <1>5, <1>6

LEMMA FlattenJoins ==
    ASSUME NEW S, NEW s \in Seq(Seq(S)), s # <<>>
    PROVE  \E f \in [1 .. Len(s) -> Seq(S)] :
               Joins(f, s, Len(s)) /\ FlattenSeq(s) = f[Len(s)]
<1>1. Len(s) \in 1 .. Len(s) /\ Len(s) \in Nat
    OBVIOUS
<1>2. PICK f \in [1 .. Len(s) -> Seq(S)] : Joins(f, s, Len(s))
    BY <1>1, JoinsExist
<1>3. PICK it : it = CHOOSE f_1 : Joins(f_1, s, Len(s))
    OBVIOUS
<1>4. Joins(it, s, Len(s))
    BY <1>2, <1>3
<1>5. FlattenSeq(s) = it[Len(s)]
    BY <1>1, <1>3 DEF FlattenSeq, Joins, Joined
<1>6. it[Len(s)] = f[Len(s)]
    <2>1. PICK n \in Nat : n = Len(s) /\ n \in 1 .. n /\ n <= n
        BY <1>1
    <2>2. Alike(s, s, n) /\ Joins(it, s, n) /\ Joins(f, s, n)
        BY <1>2, <1>4, <2>1 DEF Alike
    <2>3. Alike(it, f, n)
        BY <2>1, <2>2, JoinsAgree
    <2> QED
        BY <2>1, <2>3 DEF Alike
<1> QED
    BY <1>2, <1>5, <1>6

\* What the planners loops do: the operations of one more item go behind.
LEMMA FlattenAppend ==
    ASSUME NEW S, NEW s \in Seq(Seq(S)), NEW x \in Seq(S)
    PROVE  /\ FlattenSeq(s) \in Seq(S)
           /\ FlattenSeq(Append(s, x)) = FlattenSeq(s) \o x
<1>1. PICK t : t = Append(s, x)
    OBVIOUS
<1>2. PICK n \in Nat : n = Len(s)
    OBVIOUS
<1>3. t \in Seq(Seq(S)) /\ t # <<>> /\ Len(t) = n + 1 /\ t[n + 1] = x
    BY <1>1, <1>2, SMTT(30)
<1>4. PICK g \in [1 .. n + 1 -> Seq(S)] : Joins(g, t, n + 1) /\ FlattenSeq(t) = g[n + 1]
    BY <1>3, FlattenJoins
<1>5. CASE s = <<>>
    <2>1. FlattenSeq(s) = <<>>
        BY <1>5 DEF FlattenSeq
    <2>2. n = 0
        BY <1>2, <1>5
    <2>3. g[1] = x
        <3>1. 1 \in 1 .. n + 1
            BY <2>2
        <3>2. Continues(g, t, 1)
            BY <1>4, <3>1, JoinsAt
        <3> QED
            BY <1>3, <2>2, <3>2 DEF Continues
    <2> QED
        BY <1>1, <1>4, <2>1, <2>2, <2>3
<1>6. CASE s # <<>>
    <2>1. PICK f \in [1 .. n -> Seq(S)] : Joins(f, s, n) /\ FlattenSeq(s) = f[n]
        BY <1>2, <1>6, FlattenJoins
    <2>2. Alike(s, t, n)
        BY <1>1, <1>2 DEF Alike
    <2>3. n \in 1 .. n /\ n + 1 \in Nat /\ n <= n + 1 /\ n + 1 \in 1 .. n + 1 /\ n + 1 # 1
        BY <1>2, <1>6
    <2>4. f[n] = g[n]
        <3>1. Joins(f, s, n) /\ Joins(g, t, n + 1) /\ n <= n
            BY <1>4, <2>1
        <3>2. Alike(f, g, n)
            BY <2>2, <2>3, <3>1, JoinsAgree
        <3> QED
            BY <2>3, <3>2 DEF Alike
    <2>5. Continues(g, t, n + 1)
        BY <1>4, <2>3, JoinsAt
    <2>6. g[n + 1] = Joined(f[n], x)
        <3>1. n + 1 - 1 = n
            OBVIOUS
        <3> QED
            BY <1>3, <2>3, <2>4, <2>5, <3>1 DEF Continues
    <2> QED
        BY <1>1, <1>4, <2>1, <2>3, <2>6 DEF Joined
<1> QED
    BY <1>5, <1>6

LEMMA FlattenEmpty == FlattenSeq(<<>>) = <<>>
BY DEF FlattenSeq

\* A list of one, and a list by its elements and their places.
LEMMA FlattenOne ==
    ASSUME NEW x
    PROVE  FlattenSeq(<<x>>) = x
<1>1. PICK f : f = [j \in 1 .. 1 |-> x]
    OBVIOUS
<1>2. Joins(f, <<x>>, 1)
    BY <1>1 DEF Joins
<1>3. PICK it : it = CHOOSE f_1 : Joins(f_1, <<x>>, 1)
    OBVIOUS
<1>4. Joins(it, <<x>>, 1)
    BY <1>2, <1>3
<1>5. Continues(it, <<x>>, 1)
    BY <1>4, JoinsAt
<1>6. FlattenSeq(<<x>>) = it[1]
    BY <1>3 DEF FlattenSeq, Joins, Joined
<1> QED
    BY <1>5, <1>6 DEF Continues

InSome(s, x) == \E j \in DOMAIN s : \E m \in DOMAIN s[j] : s[j][m] = x
InList(t, x) == \E m \in DOMAIN t : t[m] = x

LEMMA InAppended ==
    ASSUME NEW S, NEW s \in Seq(S), NEW y \in S, NEW x
    PROVE  InList(Append(s, y), x) <=> InList(s, x) \/ x = y
<1>1. PICK n \in Nat : n = Len(s)
    OBVIOUS
<1>2. /\ DOMAIN s = 1 .. n /\ DOMAIN Append(s, y) = 1 .. n + 1
      /\ Append(s, y)[n + 1] = y
    BY <1>1
<1>3. \A j \in 1 .. n : Append(s, y)[j] = s[j]
    BY <1>1
<1>4. \A j : j \in 1 .. n + 1 <=> j \in 1 .. n \/ j = n + 1
    OBVIOUS
<1> QED
    BY <1>2, <1>3, <1>4 DEF InList

\* A joined list by the places of its parts.
IsJoined(u, s, t, n, k) ==
    /\ DOMAIN u = 1 .. n + k
    /\ \A i \in 1 .. n : i \in 1 .. n + k /\ u[i] = s[i]
    /\ \A i \in 1 .. k : n + i \in 1 .. n + k /\ u[n + i] = t[i]
    /\ \A i \in 1 .. n + k : i \in 1 .. n \/ \E j \in 1 .. k : i = n + j

LEMMA JoinedAt ==
    ASSUME NEW S, NEW s \in Seq(S), NEW t \in Seq(S), NEW n \in Nat, NEW k \in Nat,
           n = Len(s), k = Len(t)
    PROVE  /\ s \o t \in Seq(S) /\ Len(s \o t) = n + k
           /\ IsJoined(s \o t, s, t, n, k)
<1>1. PICK u : u = s \o t
    OBVIOUS
<1>2. u \in Seq(S) /\ Len(u) = n + k
    BY <1>1, ConcatProperties
<1>3. \A i \in 1 .. n + k : u[i] = IF i <= n THEN s[i] ELSE t[i - n]
    BY <1>1, ConcatProperties
<1>4. ASSUME NEW i \in 1 .. n PROVE i \in 1 .. n + k /\ u[i] = s[i]
    <2>1. i \in 1 .. n + k /\ i <= n
        OBVIOUS
    <2> QED
        BY <1>3, <2>1
<1>5. ASSUME NEW i \in 1 .. k PROVE n + i \in 1 .. n + k /\ u[n + i] = t[i]
    <2>1. n + i \in 1 .. n + k /\ ~(n + i <= n) /\ n + i - n = i
        OBVIOUS
    <2> QED
        BY <1>3, <2>1
<1>6. ASSUME NEW i \in 1 .. n + k PROVE i \in 1 .. n \/ \E j \in 1 .. k : i = n + j
    <2>1. CASE ~(i <= n)
        <3>1. i - n \in 1 .. k /\ i = n + (i - n)
            BY <2>1
        <3> QED
            BY <3>1
    <2> QED
        BY <2>1
<1>7. DOMAIN u = 1 .. n + k
    BY <1>2
<1>8. IsJoined(u, s, t, n, k)
    BY <1>4, <1>5, <1>6, <1>7 DEF IsJoined
<1> QED
    BY <1>1, <1>2, <1>8

LEMMA InJoined ==
    ASSUME NEW S, NEW s \in Seq(S), NEW t \in Seq(S), NEW x
    PROVE  InList(s \o t, x) <=> InList(s, x) \/ InList(t, x)
<1>1. PICK n \in Nat, k \in Nat : n = Len(s) /\ k = Len(t)
    OBVIOUS
<1>2. DOMAIN s = 1 .. n /\ DOMAIN t = 1 .. k
    BY <1>1
<1>3. PICK u : u = s \o t
    OBVIOUS
<1>4. IsJoined(u, s, t, n, k)
    BY <1>1, <1>3, JoinedAt
<1>5. ASSUME InList(u, x) PROVE InList(s, x) \/ InList(t, x)
    <2>1. PICK i \in 1 .. n + k : u[i] = x
        BY <1>4, <1>5 DEF InList, IsJoined
    <2>2. CASE i \in 1 .. n
        BY <1>2, <1>4, <2>1, <2>2 DEF InList, IsJoined
    <2>3. ASSUME NEW j \in 1 .. k, i = n + j PROVE InList(t, x)
        BY <1>2, <1>4, <2>1, <2>3 DEF InList, IsJoined
    <2> QED
        BY <1>4, <2>2, <2>3 DEF IsJoined
<1>6. ASSUME InList(s, x) \/ InList(t, x) PROVE InList(u, x)
    BY <1>2, <1>4, <1>6 DEF InList, IsJoined
<1> QED
    BY <1>3, <1>5, <1>6

LEMMA InSomeAppended ==
    ASSUME NEW S, NEW s \in Seq(Seq(S)), NEW y \in Seq(S), NEW x
    PROVE  InSome(Append(s, y), x) <=> InSome(s, x) \/ InList(y, x)
<1>1. PICK n \in Nat : n = Len(s)
    OBVIOUS
<1>2. /\ DOMAIN s = 1 .. n /\ DOMAIN Append(s, y) = 1 .. n + 1
      /\ \A j \in 1 .. n : Append(s, y)[j] = s[j]
      /\ Append(s, y)[n + 1] = y
    BY <1>1
<1>3. 1 .. n + 1 = (1 .. n) \cup {n + 1}
    OBVIOUS
<1> HIDE DEF InList
<1> QED
    BY <1>2, <1>3 DEF InSome, InList

\* What is in the joined list is in one of the lists, and all of that is.
LEMMA FlattenElements ==
    ASSUME NEW S, NEW s \in Seq(Seq(S)), NEW x
    PROVE  InList(FlattenSeq(s), x) <=> InSome(s, x)
<1> DEFINE T == {t \in Seq(Seq(S)) : InList(FlattenSeq(t), x) <=> InSome(t, x)}
<1>1. <<>> \in T
    BY FlattenEmpty DEF InList, InSome
<1>2. ASSUME NEW t \in T, NEW y \in Seq(S) PROVE Append(t, y) \in T
    <2>1. t \in Seq(Seq(S)) /\ Append(t, y) \in Seq(Seq(S)) /\ FlattenSeq(t) \in Seq(S)
        BY FlattenAppend
    <2>2. FlattenSeq(Append(t, y)) = FlattenSeq(t) \o y
        BY FlattenAppend
    <2>3. InList(FlattenSeq(t) \o y, x) <=> InList(FlattenSeq(t), x) \/ InList(y, x)
        BY <2>1, InJoined
    <2>4. InSome(Append(t, y), x) <=> InSome(t, x) \/ InList(y, x)
        BY <2>1, InSomeAppended
    <2> QED
        BY <2>1, <2>2, <2>3, <2>4
<1>3. T = Seq(Seq(S))
    <2>1. T \in SUBSET Seq(Seq(S))
        OBVIOUS
    <2> HIDE DEF T
    <2> QED
        BY <1>1, <1>2, <2>1, ListInduction
<1> QED
    BY <1>3

\* Doing the same to each element before joining or after.
IsMap(h, S, R) == h \in [S -> R]
Mapped(h, t) == [m \in DOMAIN t |-> h[t[m]]]
MappedAll(h, s) == [j \in DOMAIN s |-> Mapped(h, s[j])]

LEMMA MappedTypes ==
    ASSUME NEW S, NEW R, NEW h, IsMap(h, S, R), NEW t \in Seq(S)
    PROVE  Mapped(h, t) \in Seq(R) /\ Len(Mapped(h, t)) = Len(t)
BY DEF Mapped, IsMap

LEMMA MappedJoined ==
    ASSUME NEW S, NEW R, NEW h, IsMap(h, S, R), NEW s \in Seq(S), NEW t \in Seq(S)
    PROVE  Mapped(h, s \o t) = Mapped(h, s) \o Mapped(h, t)
<1>1. PICK n \in Nat, k \in Nat : n = Len(s) /\ k = Len(t)
    OBVIOUS
<1> DEFINE p == Mapped(h, s)
           q == Mapped(h, t)
           u == s \o t
           v == Mapped(h, u)
<1>2. p \in Seq(R) /\ Len(p) = n /\ \A i \in 1 .. n : p[i] = h[s[i]]
    <2>1. p \in Seq(R) /\ Len(p) = n
        BY <1>1, MappedTypes
    <2>2. \A i \in 1 .. n : p[i] = h[s[i]]
        BY <1>1 DEF Mapped
    <2> QED
        BY <2>1, <2>2
<1>3. q \in Seq(R) /\ Len(q) = k /\ \A i \in 1 .. k : q[i] = h[t[i]]
    <2>1. q \in Seq(R) /\ Len(q) = k
        BY <1>1, MappedTypes
    <2>2. \A i \in 1 .. k : q[i] = h[t[i]]
        BY <1>1 DEF Mapped
    <2> QED
        BY <2>1, <2>2
<1>4. u \in Seq(S) /\ Len(u) = n + k
    BY <1>1
<1>5. IsJoined(u, s, t, n, k)
    BY <1>1, JoinedAt
<1>6. v \in Seq(R) /\ Len(v) = n + k /\ \A i \in 1 .. n + k : v[i] = h[u[i]]
    <2> HIDE DEF u
    <2>1. v \in Seq(R) /\ Len(v) = n + k
        BY <1>4, MappedTypes
    <2>2. \A i \in 1 .. n + k : v[i] = h[u[i]]
        BY <1>4 DEF Mapped
    <2> QED
        BY <2>1, <2>2
<1> HIDE DEF p, q, u, v
<1>7. p \in Seq(R) /\ q \in Seq(R) /\ Len(p) = n /\ Len(q) = k
    BY <1>2, <1>3
<1>8. p \o q \in Seq(R) /\ Len(p \o q) = n + k /\ IsJoined(p \o q, p, q, n, k)
    BY <1>7, JoinedAt
<1>9. ASSUME NEW i \in 1 .. n + k PROVE v[i] = (p \o q)[i]
    <2>1. v[i] = h[u[i]]
        BY <1>6
    <2>2. CASE i \in 1 .. n
        <3>1. u[i] = s[i] /\ (p \o q)[i] = p[i]
            BY <1>5, <1>8, <2>2 DEF IsJoined
        <3> QED
            BY <1>2, <2>1, <2>2, <3>1
    <2>3. ASSUME NEW j \in 1 .. k, i = n + j PROVE v[i] = (p \o q)[i]
        <3>1. u[i] = t[j] /\ (p \o q)[i] = q[j]
            BY <1>5, <1>8, <2>3 DEF IsJoined
        <3> QED
            BY <1>3, <2>1, <3>1
    <2> QED
        BY <1>5, <2>2, <2>3 DEF IsJoined
<1>10. v = p \o q
    <2>1. v \in Seq(R) /\ Len(v) = n + k
        BY <1>6
    <2>2. p \o q \in Seq(R) /\ Len(p \o q) = n + k
        BY <1>8
    <2> QED
        BY <1>9, <2>1, <2>2, SeqEqual
<1> QED
    BY <1>10 DEF p, q, u, v

LEMMA MappedAllAppended ==
    ASSUME NEW S, NEW R, NEW h, IsMap(h, S, R), NEW s \in Seq(Seq(S)), NEW x \in Seq(S)
    PROVE  /\ MappedAll(h, s) \in Seq(Seq(R))
           /\ MappedAll(h, Append(s, x)) = Append(MappedAll(h, s), Mapped(h, x))
<1>1. PICK n \in Nat : n = Len(s)
    OBVIOUS
<1>2. \A j \in 1 .. n : Mapped(h, s[j]) \in Seq(R)
    BY <1>1, MappedTypes
<1>3. Mapped(h, x) \in Seq(R)
    BY MappedTypes
<1> DEFINE p == MappedAll(h, s)
           t == Append(s, x)
           q == MappedAll(h, t)
           y == Mapped(h, x)
<1>4. DOMAIN p = 1 .. n /\ \A j \in 1 .. n : p[j] = Mapped(h, s[j])
    BY <1>1 DEF MappedAll
<1>5. p \in Seq(Seq(R)) /\ Len(p) = n
    <2>1. p = [j \in 1 .. n |-> Mapped(h, s[j])]
        BY <1>1 DEF MappedAll
    <2> HIDE DEF p
    <2> QED
        BY <1>2, <2>1
<1>6. DOMAIN t = 1 .. n + 1 /\ t[n + 1] = x /\ \A j \in 1 .. n : t[j] = s[j]
    BY <1>1
<1>7. DOMAIN q = 1 .. n + 1 /\ \A j \in 1 .. n + 1 : q[j] = Mapped(h, t[j])
    BY <1>6 DEF MappedAll
<1>8. q = [j \in 1 .. n + 1 |-> q[j]]
    BY <1>7 DEF MappedAll
<1> HIDE DEF p, t, q, y
<1>9. y \in Seq(R)
    BY <1>3 DEF y
<1>10. Append(p, y) \in Seq(Seq(R)) /\ Len(Append(p, y)) = n + 1
    BY <1>5, <1>9
<1>11. q[n + 1] = y /\ \A j \in 1 .. n : q[j] = p[j]
    BY <1>4, <1>6, <1>7 DEF y
<1>12. ASSUME NEW j \in 1 .. n + 1 PROVE q[j] \in Seq(R)
    <2>1. CASE j = n + 1
        BY <1>9, <1>11, <2>1
    <2>2. CASE j # n + 1
        <3>1. j \in 1 .. n
            BY <2>2
        <3> QED
            BY <1>2, <1>4, <1>11, <3>1
    <2> QED
        BY <2>1, <2>2
<1>13. q \in Seq(Seq(R)) /\ Len(q) = n + 1
    <2>1. q \in [1 .. n + 1 -> Seq(R)]
        BY <1>8, <1>12
    <2> QED
        BY <2>1
<1>14. \A j \in 1 .. n + 1 : q[j] = Append(p, y)[j]
    BY <1>5, <1>9, <1>11
<1>15. q = Append(p, y)
    BY <1>10, <1>13, <1>14, SeqEqual
<1> QED
    BY <1>5, <1>15 DEF p, t, q, y

LEMMA FlattenMapped ==
    ASSUME NEW S, NEW R, NEW h, IsMap(h, S, R), NEW s \in Seq(Seq(S))
    PROVE  FlattenSeq(MappedAll(h, s)) = Mapped(h, FlattenSeq(s))
<1> DEFINE T == {t \in Seq(Seq(S)) : FlattenSeq(MappedAll(h, t)) = Mapped(h, FlattenSeq(t))}
<1>1. <<>> \in T
    <2>1. MappedAll(h, <<>>) = <<>> /\ Mapped(h, <<>>) = <<>>
        BY DEF MappedAll, Mapped
    <2> QED
        BY <2>1, FlattenEmpty
<1>2. ASSUME NEW t \in T, NEW x \in Seq(S) PROVE Append(t, x) \in T
    <2>1. t \in Seq(Seq(S)) /\ Append(t, x) \in Seq(Seq(S))
        OBVIOUS
    <2>2. FlattenSeq(t) \in Seq(S) /\ FlattenSeq(Append(t, x)) = FlattenSeq(t) \o x
        BY <2>1, FlattenAppend
    <2>3. /\ MappedAll(h, t) \in Seq(Seq(R)) /\ Mapped(h, x) \in Seq(R)
          /\ MappedAll(h, Append(t, x)) = Append(MappedAll(h, t), Mapped(h, x))
        BY <2>1, MappedAllAppended, MappedTypes
    <2>4. FlattenSeq(Append(MappedAll(h, t), Mapped(h, x)))
              = FlattenSeq(MappedAll(h, t)) \o Mapped(h, x)
        BY <2>3, FlattenAppend
    <2>5. Mapped(h, FlattenSeq(t) \o x) = Mapped(h, FlattenSeq(t)) \o Mapped(h, x)
        <3>1. PICK u \in Seq(S) : u = FlattenSeq(t)
            BY <2>2
        <3>2. Mapped(h, u \o x) = Mapped(h, u) \o Mapped(h, x)
            BY MappedJoined
        <3> QED
            BY <3>1, <3>2
    <2> QED
        BY <2>1, <2>2, <2>3, <2>4, <2>5
<1>3. T = Seq(Seq(S))
    <2>1. T \in SUBSET Seq(Seq(S))
        OBVIOUS
    <2> HIDE DEF T
    <2> QED
        BY <1>1, <1>2, <2>1, ListInduction
<1> QED
    BY <1>3
-----------------------------------------------------------------------------
(* Orders of the partitions.  Sorting finds a list as soon as every set of *)
(* them has one that comes first; it has them all once; it is the only one.*)
Sorts(s, S, R) ==
    /\ s \in [1 .. Cardinality(S) -> S]
    /\ \A m, n \in 1 .. Cardinality(S) : m < n => <<s[m], s[n]>> \in R
HasFirsts(S, R) ==
    \A T \in SUBSET S : T # {} => \E x \in T : \A y \in T : y # x => <<x, y>> \in R
\* The list s of c has every member of S, once.
Lists(s, S, c) ==
    /\ c \in Nat /\ s \in [1 .. c -> S]
    /\ \A m, n \in 1 .. c : s[m] = s[n] => m = n
    /\ \A x \in S : \E m \in 1 .. c : s[m] = x
OneWay(S, R) == \A x, y \in S : <<x, y>> \in R => <<y, x>> \notin R

LEMMA SortExists ==
    ASSUME NEW S, IsFiniteSet(S), NEW R, HasFirsts(S, R)
    PROVE  \E s : Sorts(s, S, R)
<1> DEFINE Unsortable == {T \in SUBSET S : ~\E s : Sorts(s, T, R)}
           Sizes == {Cardinality(T) : T \in Unsortable}
<1> SUFFICES ASSUME S \in Unsortable PROVE FALSE
    OBVIOUS
<1>1. \A T \in SUBSET S : IsFiniteSet(T) /\ Cardinality(T) \in Nat
    BY FS_Subset, FS_CardinalityType
<1>2. Sizes # {} /\ Sizes \in SUBSET Nat
    <2>1. Cardinality(S) \in Sizes
        OBVIOUS
    <2> QED
        BY <1>1, <2>1
<1>3. PICK c \in Sizes : \A d \in Sizes : c <= d
    <2> HIDE DEF Sizes
    <2> QED
        BY <1>2, Least
<1>4. PICK T \in SUBSET S : Cardinality(T) = c /\ ~\E s : Sorts(s, T, R)
    BY <1>3
<1>5. T # {}
    <2> SUFFICES ASSUME T = {} PROVE \E s : Sorts(s, T, R)
        BY <1>4
    <2>1. Cardinality(T) = 0
        BY FS_EmptySet
    <2>2. Sorts([m \in 1 .. 0 |-> m], T, R)
        BY <2>1 DEF Sorts
    <2> QED
        BY <2>2
<1>6. PICK x \in T : \A y \in T : y # x => <<x, y>> \in R
    BY <1>5 DEF HasFirsts
<1> DEFINE U == T \ {x}
<1>7. U \in SUBSET S /\ IsFiniteSet(T) /\ c \in Nat /\ Cardinality(U) = c - 1
    BY <1>1, <1>4, FS_RemoveElement
<1>8. c - 1 \notin Sizes
    <2> HIDE DEF Sizes
    <2> QED
        BY <1>2, <1>3, <1>7
<1>9. U \notin Unsortable
    BY <1>7, <1>8
<1>10. PICK u : Sorts(u, U, R)
    BY <1>7, <1>9
<1> HIDE DEF Unsortable, Sizes
<1> DEFINE s == [m \in 1 .. c |-> IF m = 1 THEN x ELSE u[m - 1]]
<1>11. c - 1 \in Nat
    BY <1>1, <1>7
<1>12. ASSUME NEW m \in 1 .. c, m # 1 PROVE m - 1 \in 1 .. c - 1 /\ u[m - 1] \in U /\ s[m] = u[m - 1]
    <2>1. m - 1 \in 1 .. c - 1
        BY <1>7, <1>12
    <2> QED
        BY <1>7, <1>10, <1>12, <2>1 DEF Sorts
<1>13. s \in [1 .. c -> T]
    BY <1>12
<1>14. ASSUME NEW m \in 1 .. c, NEW n \in 1 .. c, m < n PROVE <<s[m], s[n]>> \in R
    <2>1. n # 1 /\ s[n] = u[n - 1] /\ n - 1 \in 1 .. c - 1 /\ u[n - 1] \in U
        BY <1>12, <1>14
    <2>2. CASE m = 1
        BY <1>6, <1>14, <2>1, <2>2
    <2>3. CASE m # 1
        <3>1. s[m] = u[m - 1] /\ m - 1 \in 1 .. c - 1 /\ m - 1 < n - 1
            BY <1>12, <1>14, <2>3
        <3> QED
            BY <1>7, <1>10, <2>1, <3>1 DEF Sorts
    <2> QED
        BY <2>2, <2>3
<1>15. Sorts(s, T, R)
    <2> HIDE DEF s
    <2> QED
        BY <1>4, <1>13, <1>14 DEF Sorts
<1> QED
    BY <1>4, <1>15

LEMMA SortIsOnto ==
    ASSUME NEW S, IsFiniteSet(S), NEW R, OneWay(S, R), NEW s, Sorts(s, S, R)
    PROVE  Lists(s, S, Cardinality(S))
<1>1. Cardinality(S) \in Nat
    BY FS_CardinalityType
<1>2. ASSUME NEW m \in 1 .. Cardinality(S), NEW n \in 1 .. Cardinality(S), m < n
      PROVE  s[m] # s[n]
    BY <1>2 DEF Sorts, OneWay
<1>3. ASSUME NEW m \in 1 .. Cardinality(S), NEW n \in 1 .. Cardinality(S), s[m] = s[n]
      PROVE  m = n
    <2>1. m \in Int /\ n \in Int
        OBVIOUS
    <2>2. m < n \/ n < m \/ m = n
        BY <2>1
    <2> QED
        BY <1>2, <1>3, <2>2
<1>4. s \in Injection(1 .. Cardinality(S), S)
    BY <1>3 DEF Sorts, Injection, IsInjective
<1>5. Cardinality(1 .. Cardinality(S)) = Cardinality(S)
    BY <1>1, FS_Interval
<1>6. s \in Surjection(1 .. Cardinality(S), S)
    BY <1>4, <1>5, FS_Injection
<1> QED
    BY <1>1, <1>3, <1>6 DEF Surjection, Lists

LEMMA SortIsOnly ==
    ASSUME NEW S, IsFiniteSet(S), NEW R, OneWay(S, R),
           NEW s, Sorts(s, S, R), NEW t, Sorts(t, S, R)
    PROVE  s = t
<1>1. PICK c : c = Cardinality(S)
    OBVIOUS
<1>2. Lists(s, S, c) /\ Lists(t, S, c)
    BY <1>1, SortIsOnto
<1>3. c \in Nat /\ s \in [1 .. c -> S] /\ t \in [1 .. c -> S]
    BY <1>2 DEF Lists
<1> DEFINE Bad == {m \in 1 .. c : s[m] # t[m]}
<1>4. CASE Bad = {}
    <2>1. \A m \in 1 .. c : s[m] = t[m]
        BY <1>4
    <2> QED
        BY <1>3, <2>1
<1>5. CASE Bad # {}
    <2>1. PICK m \in Bad : \A n \in Bad : m <= n
        <3>1. Bad \in SUBSET Nat
            BY <1>3
        <3> HIDE DEF Bad
        <3> QED
            BY <1>5, <3>1, Least
    <2>2. m \in 1 .. c /\ s[m] # t[m] /\ s[m] \in S /\ t[m] \in S
        BY <1>3, <2>1
    <2>3. \A n \in 1 .. c : n < m => s[n] = t[n]
        BY <1>3, <2>1, <2>2
    <2>4. PICK a \in 1 .. c : t[a] = s[m]
        BY <1>2, <2>2 DEF Lists
    <2>5. PICK b \in 1 .. c : s[b] = t[m]
        BY <1>2, <2>2 DEF Lists
    <2>6. ~(a < m) /\ a # m /\ a \in Int /\ m \in Int
        BY <1>2, <1>3, <2>2, <2>3, <2>4 DEF Lists
    <2>7. ~(b < m) /\ b # m /\ b \in Int
        BY <1>2, <1>3, <2>2, <2>3, <2>5 DEF Lists
    <2>8. m < a /\ m < b
        BY <2>6, <2>7
    <2>9. <<t[m], t[a]>> \in R /\ <<s[m], s[b]>> \in R
        BY <1>1, <2>2, <2>8 DEF Sorts
    <2> QED
        BY <2>2, <2>4, <2>5, <2>9 DEF OneWay
<1> QED
    BY <1>4, <1>5

\* By a number and then by index: the planners' stable sorts.
ByKey(S, key) == {pair \in S \X S :
    \/ key[pair[1]] < key[pair[2]]
    \/ key[pair[1]] = key[pair[2]] /\ pair[1] < pair[2]}

LEMMA ByKeySorts ==
    ASSUME NEW S \in SUBSET Nat, NEW key, \A i \in S : key[i] \in Int,
           NEW low \in Int, \A i \in S : low <= key[i]
    PROVE  HasFirsts(S, ByKey(S, key)) /\ OneWay(S, ByKey(S, key))
<1>1. ASSUME NEW T \in SUBSET S, T # {}
      PROVE  \E x \in T : \A y \in T : y # x => <<x, y>> \in ByKey(S, key)
    <2> DEFINE Keys == {key[i] - low : i \in T}
    <2>1. Keys \in SUBSET Nat /\ Keys # {}
        <3>1. ASSUME NEW i \in T PROVE key[i] - low \in Nat
            <4>1. key[i] \in Int /\ low <= key[i]
                OBVIOUS
            <4> QED
                BY <4>1
        <3> QED
            BY <1>1, <3>1
    <2>2. PICK k \in Keys : \A l \in Keys : k <= l
        <3> HIDE DEF Keys
        <3> QED
            BY <2>1, Least
    <2> DEFINE Lowest == {i \in T : key[i] - low = k}
    <2>3. Lowest \in SUBSET Nat /\ Lowest # {}
        BY <2>2
    <2>4. PICK x \in Lowest : \A i \in Lowest : x <= i
        <3> HIDE DEF Lowest
        <3> QED
            BY <2>3, Least
    <2>5. x \in T /\ key[x] - low = k
        BY <2>4
    <2>6. ASSUME NEW y \in T, y # x PROVE <<x, y>> \in ByKey(S, key)
        <3>1. key[y] \in Int /\ key[x] \in Int /\ x \in Nat /\ y \in Nat
            BY <2>5
        <3>2. k <= key[y] - low
            BY <2>2
        <3>3. key[y] - low = k => x <= y
            BY <2>4
        <3>4. key[x] <= key[y]
            BY <2>5, <3>1, <3>2
        <3>5. key[x] = key[y] => x < y
            BY <2>5, <2>6, <3>1, <3>3
        <3> QED
            BY <2>5, <3>1, <3>4, <3>5 DEF ByKey
    <2> QED
        BY <2>5, <2>6
<1>2. ASSUME NEW x \in S, NEW y \in S, <<x, y>> \in ByKey(S, key)
      PROVE  <<y, x>> \notin ByKey(S, key)
    <2>1. key[y] \in Int /\ key[x] \in Int /\ x \in Nat /\ y \in Nat
        OBVIOUS
    <2> QED
        BY <1>2, <2>1 DEF ByKey
<1> QED
    BY <1>1, <1>2 DEF HasFirsts, OneWay

\* Numbers of finitely many items have a greatest bound.
LEMMA Bounded ==
    ASSUME NEW n \in Nat, NEW key, \A i \in 1 .. n : key[i] \in Nat
    PROVE  \E b \in Nat : \A i \in 1 .. n : key[i] <= b
<1> DEFINE Holds(b, m) == \A i \in 1 .. m : key[i] <= b
           Bad == {m \in 0 .. n : ~\E b \in Nat : Holds(b, m)}
<1>1. SUFFICES ASSUME Bad # {} PROVE FALSE
    <2>1. n \in 0 .. n
        OBVIOUS
    <2>2. CASE n \notin Bad
        <3>1. \E b \in Nat : Holds(b, n)
            <4> HIDE DEF Holds
            <4> QED
                BY <2>1, <2>2
        <3> QED
            BY <3>1
    <2>3. CASE Bad = {}
        BY <2>1, <2>2, <2>3
    <2> QED
        BY <2>3
<1>2. PICK m \in Bad : \A l \in Bad : m <= l
    <2>1. Bad \in SUBSET Nat
        OBVIOUS
    <2> HIDE DEF Bad
    <2> QED
        BY <1>1, <2>1, Least
<1>3. m # 0
    <2>1. Holds(0, 0)
        OBVIOUS
    <2> HIDE DEF Holds
    <2> QED
        BY <1>2, <2>1
<1>4. m - 1 \in 0 .. n /\ m \in 1 .. n
    <2> HIDE DEF Holds
    <2> QED
        BY <1>2, <1>3
<1>5. PICK b \in Nat : Holds(b, m - 1)
    <2> HIDE DEF Holds
    <2>1. m - 1 \notin Bad
        <3> HIDE DEF Bad
        <3> QED
            BY <1>2, <1>4
    <2> QED
        BY <1>4, <2>1
<1>6. PICK k \in Nat : k = key[m]
    BY <1>4
<1>7. PICK d \in Nat : b <= d /\ k <= d
    <2>1. b + k \in Nat /\ b <= b + k /\ k <= b + k
        OBVIOUS
    <2> QED
        BY <2>1
<1>8. Holds(d, m)
    <2>1. ASSUME NEW i \in 1 .. m PROVE key[i] <= d
        <3>1. CASE i = m
            BY <1>6, <1>7, <3>1
        <3>2. CASE i # m
            <4>1. i \in 1 .. m - 1
                BY <1>4, <3>2
            <4>2. key[i] <= b /\ key[i] \in Nat
                BY <1>4, <1>5, <4>1
            <4> QED
                BY <1>7, <4>2
        <3> QED
            BY <3>1, <3>2
    <2> QED
        BY <2>1
<1> HIDE DEF Holds
<1> QED
    BY <1>2, <1>8

\* The two orders of the planners are such sorts.
OfParts(ps, l) == DOMAIN ps = 1 .. l /\ \A i \in 1 .. l : Slashes(ps[i]) \in Nat
Depths(ps) == [i \in DOMAIN ps |-> MountDepth(ps[i])]
FileSystems(ps) == {i \in DOMAIN ps : ps[i].fs # "swap"}
Heights(ps) == [i \in FileSystems(ps) |-> -Slashes(ps[i])]

LEMMA SmallSets ==
    ASSUME NEW l \in Nat, NEW S \in SUBSET (1 .. l)
    PROVE  IsFiniteSet(S) /\ S \in SUBSET Nat /\ Cardinality(S) \in Nat
<1>1. IsFiniteSet(1 .. l)
    BY FS_Interval
<1>2. IsFiniteSet(S)
    BY <1>1, FS_Subset
<1> QED
    BY <1>2, FS_CardinalityType

LEMMA MountOrderSorts ==
    ASSUME NEW l \in Nat, NEW ps, OfParts(ps, l)
    PROVE  /\ OneWay(1 .. l, ByKey(1 .. l, Depths(ps)))
           /\ Sorts(MountOrder(ps), 1 .. l, ByKey(1 .. l, Depths(ps)))
<1> DEFINE S == 1 .. l
           R == ByKey(S, Depths(ps))
           Good(o) == \A m, n \in DOMAIN o : m < n =>
                          \/ MountDepth(ps[o[m]]) < MountDepth(ps[o[n]])
                          \/ MountDepth(ps[o[m]]) = MountDepth(ps[o[n]]) /\ o[m] < o[n]
<1>1. \A i \in S : Depths(ps)[i] \in Int /\ 0 <= Depths(ps)[i] /\ Depths(ps)[i] = MountDepth(ps[i])
    BY DEF OfParts, Depths, MountDepth
<1>2. IsFiniteSet(S) /\ S \in SUBSET Nat
    BY SmallSets
<1>3. OneWay(S, R) /\ \E t : Sorts(t, S, R)
    <2>1. HasFirsts(S, R) /\ OneWay(S, R)
        <3>1. /\ \A i \in S : Depths(ps)[i] \in Int
              /\ 0 \in Int /\ \A i \in S : 0 <= Depths(ps)[i]
            BY <1>1
        <3> QED
            BY <1>2, <3>1, ByKeySorts
    <2> QED
        BY <1>2, <2>1, SortExists
<1>4. ASSUME NEW t \in [1 .. Cardinality(S) -> S]
      PROVE  Good(t) <=> Sorts(t, S, R)
    <2>1. \A i, j \in S : <<i, j>> \in R <=> \/ MountDepth(ps[i]) < MountDepth(ps[j])
                                             \/ MountDepth(ps[i]) = MountDepth(ps[j]) /\ i < j
        BY <1>1 DEF ByKey
    <2>2. \A m \in 1 .. Cardinality(S) : t[m] \in S
        OBVIOUS
    <2>3. DOMAIN t = 1 .. Cardinality(S)
        OBVIOUS
    <2> HIDE DEF R, S
    <2> QED
        BY <2>1, <2>2, <2>3 DEF Sorts
<1>5. DOMAIN ps = S
    BY DEF OfParts
<1>6. MountOrder(ps) = CHOOSE t \in [1 .. Cardinality(S) -> S] : Good(t)
    BY <1>5 DEF MountOrder, Ordered
<1>7. PICK o : Sorts(o, S, R)
    BY <1>3
<1>8. o \in [1 .. Cardinality(S) -> S]
    BY <1>7 DEF Sorts
<1> HIDE DEF S, R, Good
<1>9. MountOrder(ps) \in [1 .. Cardinality(S) -> S] /\ Good(MountOrder(ps))
    BY <1>4, <1>6, <1>7, <1>8
<1> QED
    BY <1>3, <1>4, <1>9 DEF S, R

LEMMA CleanupOrderSorts ==
    ASSUME NEW l \in Nat, NEW ps, OfParts(ps, l)
    PROVE  /\ HasFirsts(FileSystems(ps), ByKey(FileSystems(ps), Heights(ps)))
           /\ OneWay(FileSystems(ps), ByKey(FileSystems(ps), Heights(ps)))
           /\ Sorts(CleanupOrder(ps), FileSystems(ps), ByKey(FileSystems(ps), Heights(ps)))
<1> DEFINE S == FileSystems(ps)
           R == ByKey(S, Heights(ps))
           Good(o) == \A m, n \in DOMAIN o : m < n =>
                          \/ Slashes(ps[o[m]]) > Slashes(ps[o[n]])
                          \/ Slashes(ps[o[m]]) = Slashes(ps[o[n]]) /\ o[m] < o[n]
<1>1. \A i \in S : i \in 1 .. l /\ Slashes(ps[i]) \in Nat /\ Heights(ps)[i] = -Slashes(ps[i])
    BY DEF OfParts, Heights, FileSystems
<1>2. IsFiniteSet(S) /\ S \in SUBSET Nat
    BY SmallSets DEF OfParts, FileSystems
<1>3. PICK b \in Nat : \A i \in 1 .. l : Slashes(ps[i]) <= b
    <2> DEFINE key == [i \in 1 .. l |-> Slashes(ps[i])]
    <2>1. \A i \in 1 .. l : key[i] \in Nat /\ key[i] = Slashes(ps[i])
        BY DEF OfParts
    <2> HIDE DEF key
    <2>2. \E b \in Nat : \A i \in 1 .. l : key[i] <= b
        BY <2>1, Bounded
    <2> QED
        BY <2>1, <2>2
<1>4. HasFirsts(S, R) /\ OneWay(S, R)
    <2>1. ASSUME NEW i \in S PROVE Heights(ps)[i] \in Int /\ -b <= Heights(ps)[i]
        <3>1. Slashes(ps[i]) \in Nat /\ Slashes(ps[i]) <= b /\ Heights(ps)[i] = -Slashes(ps[i])
            BY <1>1, <1>3
        <3> QED
            BY <3>1
    <2>2. -b \in Int
        OBVIOUS
    <2> HIDE DEF S
    <2> QED
        BY <1>2, <2>1, <2>2, ByKeySorts DEF R
<1>5. PICK o : Sorts(o, S, R)
    BY <1>2, <1>4, SortExists
<1>6. ASSUME NEW t \in [1 .. Cardinality(S) -> S]
      PROVE  Good(t) <=> Sorts(t, S, R)
    <2>1. ASSUME NEW i \in S, NEW j \in S
          PROVE <<i, j>> \in R <=> \/ Slashes(ps[i]) > Slashes(ps[j])
                                   \/ Slashes(ps[i]) = Slashes(ps[j]) /\ i < j
        <3>1. PICK x \in Nat, y \in Nat : x = Slashes(ps[i]) /\ y = Slashes(ps[j])
                  /\ Heights(ps)[i] = -x /\ Heights(ps)[j] = -y
            BY <1>1
        <3>2. (-x < -y <=> x > y) /\ (-x = -y <=> x = y)
            OBVIOUS
        <3> HIDE DEF S
        <3>3. <<i, j>> \in R <=> \/ Heights(ps)[i] < Heights(ps)[j]
                                 \/ Heights(ps)[i] = Heights(ps)[j] /\ i < j
            BY DEF R, ByKey
        <3> QED
            BY <3>1, <3>2, <3>3
    <2>2. \A m \in 1 .. Cardinality(S) : t[m] \in S
        OBVIOUS
    <2>3. DOMAIN t = 1 .. Cardinality(S)
        OBVIOUS
    <2> HIDE DEF R, S
    <2> QED
        BY <2>1, <2>2, <2>3 DEF Sorts
<1>7. CleanupOrder(ps) = CHOOSE t \in [1 .. Cardinality(S) -> S] : Good(t)
    BY DEF CleanupOrder, Ordered, FileSystems
<1>8. o \in [1 .. Cardinality(S) -> S]
    BY <1>5 DEF Sorts
<1> HIDE DEF S, R, Good
<1>9. CleanupOrder(ps) \in [1 .. Cardinality(S) -> S] /\ Good(CleanupOrder(ps))
    BY <1>5, <1>6, <1>7, <1>8
<1> QED
    BY <1>4, <1>6, <1>9 DEF S, R
-----------------------------------------------------------------------------
\* Short lists.
LEMMA ListOfOne ==
    ASSUME NEW S, NEW x \in S
    PROVE  <<x>> \in Seq(S) /\ Len(<<x>>) = 1 /\ <<x>>[1] = x /\ <<x>> # <<>>
<1>1. <<x>> \in Seq(S) /\ Len(<<x>>) = 1 /\ <<x>>[1] = x
    OBVIOUS
<1>2. Len(<<>>) = 0
    OBVIOUS
<1> QED
    BY <1>1, <1>2

LEMMA ListOfTwo ==
    ASSUME NEW S, NEW x \in S, NEW y \in S
    PROVE  /\ <<x, y>> \in Seq(S) /\ Len(<<x, y>>) = 2 /\ <<x, y>> # <<>>
           /\ <<x, y>>[1] = x /\ <<x, y>>[2] = y
           /\ <<x>> \o <<y>> = <<x, y>> /\ Head(<<x, y>>) = x
<1>1. /\ <<x, y>> \in Seq(S) /\ Len(<<x, y>>) = 2
      /\ <<x, y>>[1] = x /\ <<x, y>>[2] = y /\ Head(<<x, y>>) = x
    OBVIOUS
<1>2. Len(<<>>) = 0
    OBVIOUS
<1>3. <<x>> \o <<y>> = <<x, y>>
    <2>1. PICK a, b : a = <<x>> /\ b = <<y>>
        OBVIOUS
    <2>2. a \in Seq(S) /\ b \in Seq(S) /\ Len(a) = 1 /\ Len(b) = 1 /\ a[1] = x /\ b[1] = y
        BY <2>1, ListOfOne
    <2>3. a \o b \in Seq(S) /\ Len(a \o b) = 2 /\ IsJoined(a \o b, a, b, 1, 1)
        <3>1. PICK n \in Nat : n = 1 /\ n + n = 2
            OBVIOUS
        <3>2. a \o b \in Seq(S) /\ Len(a \o b) = n + n /\ IsJoined(a \o b, a, b, n, n)
            <4>1. a \in Seq(S) /\ b \in Seq(S) /\ n \in Nat /\ n = Len(a) /\ n = Len(b)
                BY <2>2, <3>1
            <4> QED
                BY ONLY <4>1, JoinedAt
        <3> QED
            BY <3>1, <3>2
    <2>4. (a \o b)[1] = x /\ (a \o b)[2] = y
        <3>1. 1 \in 1 .. 1 /\ 1 + 1 = 2
            OBVIOUS
        <3> QED
            BY <2>2, <2>3, <3>1 DEF IsJoined
    <2>5. \A m \in 1 .. 2 : m = 1 \/ m = 2
        OBVIOUS
    <2>6. PICK c : c = <<x, y>> /\ c \in Seq(S) /\ Len(c) = 2 /\ c[1] = x /\ c[2] = y
        BY <1>1
    <2>7. a \o b = c
        <3>1. \A m \in 1 .. 2 : (a \o b)[m] = c[m]
            BY <2>4, <2>5, <2>6
        <3> QED
            BY <2>3, <2>6, <3>1, SeqEqual
    <2> QED
        BY <2>1, <2>6, <2>7
<1> QED
    BY <1>1, <1>2, <1>3

LEMMA PairJoined ==
    ASSUME NEW x, NEW y
    PROVE  <<x>> \o <<y>> = <<x, y>>
<1>1. PICK S : x \in S /\ y \in S
    <2>1. x \in {x, y} /\ y \in {x, y}
        OBVIOUS
    <2> QED
        BY <2>1
<1> QED
    BY <1>1, ListOfTwo

\* Whatever is a list of something.
IsList(s) == \E S : s \in Seq(S)

LEMMA ListIs ==
    ASSUME NEW s, IsList(s)
    PROVE  \E n \in Nat : n = Len(s) /\ s = [m \in 1 .. n |-> s[m]]
BY DEF IsList

LEMMA ListsJoined ==
    ASSUME NEW s, NEW t, IsList(s), IsList(t)
    PROVE  IsList(s \o t)
<1>1. PICK A, B : s \in Seq(A) /\ t \in Seq(B)
    BY DEF IsList
<1> DEFINE S == A \cup B
<1>2. s \in Seq(S) /\ t \in Seq(S)
    BY <1>1
<1> HIDE DEF S
<1>3. s \o t \in Seq(S)
    BY <1>2, ConcatProperties
<1> QED
    BY <1>3 DEF IsList

LEMMA ShortLists ==
    /\ IsList(<<>>)
    /\ \A a : IsList(<<a>>)
    /\ \A a, b : IsList(<<a, b>>)
<1>1. <<>> \in Seq({})
    OBVIOUS
<1>2. ASSUME NEW a PROVE IsList(<<a>>)
    <2>1. <<a>> \in Seq({a})
        OBVIOUS
    <2> QED
        BY <2>1 DEF IsList
<1>3. ASSUME NEW a, NEW b PROVE IsList(<<a, b>>)
    <2>1. <<a, b>> \in Seq({a, b})
        OBVIOUS
    <2> QED
        BY <2>1 DEF IsList
<1> QED
    BY <1>1, <1>2, <1>3 DEF IsList

\* Lists written out, joined.
Spelled(s, n) == s = [m \in 1 .. n |-> s[m]]
Spells(u, s, t, n, l) ==
    /\ Spelled(s, n) /\ Spelled(t, l) /\ Spelled(u, n + l)
    /\ \A m \in 1 .. n : u[m] = s[m]
    /\ \A m \in 1 .. l : u[n + m] = t[m]

LEMMA SpelledIs ==
    ASSUME NEW n \in Nat, NEW s, Spelled(s, n)
    PROVE  IsList(s) /\ Len(s) = n /\ \E S : s \in Seq(S)
<1> DEFINE S == {s[m] : m \in 1 .. n}
<1>1. \A m \in 1 .. n : s[m] \in S
    OBVIOUS
<1> HIDE DEF S
<1>2. s \in [1 .. n -> S]
    BY <1>1 DEF Spelled
<1>3. s \in Seq(S) /\ Len(s) = n
    BY ONLY <1>2, n \in Nat
<1> QED
    BY <1>3 DEF IsList

LEMMA JoinIs ==
    ASSUME NEW n \in Nat, NEW l \in Nat, NEW s, NEW t, NEW u, Spells(u, s, t, n, l)
    PROVE  s \o t = u
<1>1. PICK A, B : s \in Seq(A) /\ t \in Seq(B)
    BY SpelledIs DEF Spells
<1>2. PICK S : S = A \cup B
    OBVIOUS
<1>3. s \in Seq(S) /\ t \in Seq(S) /\ Len(s) = n /\ Len(t) = l
    BY <1>1, <1>2, SpelledIs DEF Spells
<1>4. PICK v : v = s \o t
    OBVIOUS
<1>5. v \in Seq(S) /\ Len(v) = n + l /\ IsJoined(v, s, t, n, l)
    BY <1>3, <1>4, JoinedAt
<1>6. ASSUME NEW m \in 1 .. n + l PROVE v[m] = u[m]
    <2>1. CASE m \in 1 .. n
        BY ONLY <1>5, <2>1, Spells(u, s, t, n, l) DEF IsJoined, Spells
    <2>2. CASE \E j \in 1 .. l : m = n + j
        BY ONLY <1>5, <2>2, Spells(u, s, t, n, l), SMTT(30) DEF IsJoined, Spells
    <2> QED
        BY ONLY <1>5, <2>1, <2>2, m \in 1 .. n + l DEF IsJoined
<1>7. v = [m \in 1 .. n + l |-> v[m]]
    BY ONLY <1>5, n \in Nat, l \in Nat
<1> QED
    BY <1>4, <1>6, <1>7 DEF Spells, Spelled

LEMMA TwoOne ==
    ASSUME NEW a, NEW b, NEW c
    PROVE  <<a, b>> \o <<c>> = <<a, b, c>>
<1>1. PICK n \in Nat, l \in Nat : n = 2 /\ l = 1
    OBVIOUS
<1>2. PICK s : s = <<a, b>>
    OBVIOUS
<1>3. PICK t : t = <<c>>
    OBVIOUS
<1>4. PICK u : u = <<a, b, c>>
    OBVIOUS
<1>5. Spells(u, s, t, n, l)
    BY <1>1, <1>2, <1>3, <1>4 DEF Spells, Spelled
<1>6. s \o t = u
    BY ONLY <1>5, n \in Nat, l \in Nat, JoinIs
<1> QED
    BY <1>2, <1>3, <1>4, <1>6

LEMMA ThreeOne ==
    ASSUME NEW a, NEW b, NEW c, NEW d
    PROVE  <<a, b, c>> \o <<d>> = <<a, b, c, d>>
<1>1. PICK n \in Nat, l \in Nat : n = 3 /\ l = 1
    OBVIOUS
<1>2. PICK s : s = <<a, b, c>>
    OBVIOUS
<1>3. PICK t : t = <<d>>
    OBVIOUS
<1>4. PICK u : u = <<a, b, c, d>>
    OBVIOUS
<1>5. Spells(u, s, t, n, l)
    BY <1>1, <1>2, <1>3, <1>4 DEF Spells, Spelled
<1>6. s \o t = u
    BY ONLY <1>5, n \in Nat, l \in Nat, JoinIs
<1> QED
    BY <1>2, <1>3, <1>4, <1>6

LEMMA FourTwo ==
    ASSUME NEW a, NEW b, NEW c, NEW d, NEW e, NEW f
    PROVE  <<a, b, c, d>> \o <<e, f>> = <<a, b, c, d, e, f>>
<1>1. PICK n \in Nat, l \in Nat : n = 4 /\ l = 2
    OBVIOUS
<1>2. PICK s : s = <<a, b, c, d>>
    OBVIOUS
<1>3. PICK t : t = <<e, f>>
    OBVIOUS
<1>4. PICK u : u = <<a, b, c, d, e, f>>
    OBVIOUS
<1>5. Spells(u, s, t, n, l)
    BY <1>1, <1>2, <1>3, <1>4 DEF Spells, Spelled
<1>6. s \o t = u
    BY ONLY <1>5, n \in Nat, l \in Nat, JoinIs
<1> QED
    BY <1>2, <1>3, <1>4, <1>6

-----------------------------------------------------------------------------
(* What the planners plan: commands with what they put, and the partitions *)
(* that they are for.                                                      *)
Kind(op) == <<op.do, op.what>>
PerPartition == {"mkpart", "set", "mkfs", "luksFormat", "luksOpen", "mount", "unmount", "swapon"}
IsPath(at) == \E S : at \in Seq(S)
Fits(op, l) == (op.do \in PerPartition => op.on \in 1 .. l) /\ IsPath(op.at)
Uses(ops, l, kinds) == \E S : ops \in Seq(S) /\ \A op \in S : Kind(op) \in kinds /\ Fits(op, l)

LEMMA UsesJoined ==
    ASSUME NEW l, NEW kinds, NEW s, NEW t, Uses(s, l, kinds), Uses(t, l, kinds)
    PROVE  Uses(s \o t, l, kinds)
<1>1. PICK A : s \in Seq(A) /\ \A op \in A : Kind(op) \in kinds /\ Fits(op, l)
    BY DEF Uses
<1>2. PICK B : t \in Seq(B) /\ \A op \in B : Kind(op) \in kinds /\ Fits(op, l)
    BY DEF Uses
<1>3. PICK S : S = A \cup B
    OBVIOUS
<1>4. s \in Seq(S) /\ t \in Seq(S)
    BY <1>1, <1>2, <1>3
<1>5. s \o t \in Seq(S)
    BY <1>4, ConcatProperties
<1>6. \A op \in S : Kind(op) \in kinds /\ Fits(op, l)
    BY <1>1, <1>2, <1>3
<1> QED
    BY <1>5, <1>6 DEF Uses

LEMMA UsesMore ==
    ASSUME NEW l, NEW kinds, NEW more, kinds \subseteq more, NEW s, Uses(s, l, kinds)
    PROVE  Uses(s, l, more)
BY DEF Uses

LEMMA UsesNone ==
    ASSUME NEW l, NEW kinds
    PROVE  Uses(<<>>, l, kinds)
<1>1. PICK S : S = {}
    OBVIOUS
<1>2. <<>> \in Seq(S) /\ \A x \in S : Kind(x) \in kinds /\ Fits(x, l)
    BY <1>1
<1> QED
    BY <1>2 DEF Uses

LEMMA UsesSpelled ==
    ASSUME NEW n \in Nat, NEW s, Spelled(s, n), NEW l, NEW kinds,
           \A m \in 1 .. n : Kind(s[m]) \in kinds /\ Fits(s[m], l)
    PROVE  Uses(s, l, kinds)
<1> DEFINE S == {s[m] : m \in 1 .. n}
<1>1. \A m \in 1 .. n : s[m] \in S
    OBVIOUS
<1>2. \A op \in S : Kind(op) \in kinds /\ Fits(op, l)
    OBVIOUS
<1> HIDE DEF S
<1>3. s \in [1 .. n -> S]
    BY <1>1 DEF Spelled
<1>4. s \in Seq(S)
    BY ONLY <1>3, n \in Nat
<1> QED
    BY <1>2, <1>4 DEF Uses

LEMMA UsesOne ==
    ASSUME NEW op, NEW l, NEW kinds, Kind(op) \in kinds, Fits(op, l)
    PROVE  Uses(<<op>>, l, kinds)
<1>1. PICK S : S = {op}
    OBVIOUS
<1>2. <<op>> \in Seq(S) /\ \A x \in S : Kind(x) \in kinds /\ Fits(x, l)
    BY <1>1
<1> QED
    BY <1>2 DEF Uses

LEMMA UsesTwo ==
    ASSUME NEW a, NEW b, NEW l, NEW kinds, Kind(a) \in kinds, Fits(a, l),
           Kind(b) \in kinds, Fits(b, l)
    PROVE  Uses(<<a, b>>, l, kinds)
<1>1. PICK S : S = {a, b}
    OBVIOUS
<1>2. <<a, b>> \in Seq(S) /\ \A x \in S : Kind(x) \in kinds /\ Fits(x, l)
    BY <1>1
<1> QED
    BY <1>2 DEF Uses

LEMMA UsesFlattened ==
    ASSUME NEW n \in Nat, NEW s, Spelled(s, n), NEW l, NEW kinds,
           \A j \in 1 .. n : Uses(s[j], l, kinds)
    PROVE  Uses(FlattenSeq(s), l, kinds)
<1> DEFINE Elements(j) == {s[j][m] : m \in DOMAIN s[j]}
           S == UNION {Elements(j) : j \in 1 .. n}
<1>1. ASSUME NEW j \in 1 .. n
      PROVE  s[j] \in Seq(S) /\ \A op \in Elements(j) : Kind(op) \in kinds /\ Fits(op, l)
    <2>1. PICK A : s[j] \in Seq(A) /\ \A op \in A : Kind(op) \in kinds /\ Fits(op, l)
        BY DEF Uses
    <2>2. PICK k \in Nat : k = Len(s[j]) /\ DOMAIN s[j] = 1 .. k /\ s[j] = [m \in 1 .. k |-> s[j][m]]
        BY <2>1, SMTT(30)
    <2>3. \A m \in 1 .. k : s[j][m] \in A /\ s[j][m] \in Elements(j)
        BY <2>1, <2>2, SMTT(30)
    <2>4. \A op \in Elements(j) : op \in A
        BY <2>2, <2>3
    <2>5. Elements(j) \subseteq S
        OBVIOUS
    <2> HIDE DEF S, Elements
    <2>6. s[j] \in [1 .. k -> S]
        BY <2>2, <2>3, <2>5
    <2>7. s[j] \in Seq(S)
        BY ONLY <2>6, k \in Nat
    <2> QED
        BY <2>1, <2>4, <2>7
<1>2. \A op \in S : Kind(op) \in kinds /\ Fits(op, l)
    BY <1>1
<1> HIDE DEF S, Elements
<1>3. s \in Seq(Seq(S))
    <2>1. s \in [1 .. n -> Seq(S)]
        BY <1>1 DEF Spelled
    <2> QED
        BY ONLY <2>1, n \in Nat
<1>4. FlattenSeq(s) \in Seq(S)
    <2>1. <<>> \in Seq(S)
        OBVIOUS
    <2> QED
        BY <1>3, <2>1, FlattenAppend
<1> QED
    BY <1>2, <1>4 DEF Uses

LEMMA UsesAt ==
    ASSUME NEW ops, NEW l, NEW kinds, Uses(ops, l, kinds), NEW op, InList(ops, op)
    PROVE  Kind(op) \in kinds /\ Fits(op, l)
<1>1. PICK S : ops \in Seq(S) /\ \A x \in S : Kind(x) \in kinds /\ Fits(x, l)
    BY DEF Uses
<1>2. op \in S
    BY <1>1 DEF InList
<1> QED
    BY <1>1, <1>2
-----------------------------------------------------------------------------
\* The layouts: a file system, a path and a number of flags each.
OfLayout(ps, l) ==
    /\ Len(ps) = l /\ OfParts(ps, l)
    /\ \A j \in 1 .. l : ps[j].flags \in Nat /\ IsPath(ps[j].mp)

OnDisk == {<<"mklabel", "">>, <<"mkpart", "">>, <<"set", "">>}
Encrypting == {<<"luksFormat", "">>, <<"luksOpen", "">>}
Formatting == {<<"mkfs", "">>}
Mounting == {<<"put", "mountpoint">>, <<"mount", "">>, <<"swapon", "">>}
Payloads ==
    {"dirs", "base", "ark", "packages", "loader", "dir", "grub.cfg", "loader.conf", "entry",
     "rescue entry", "kernel", "account", "keys", "wheel", "hostname", "hosts", "resolv.conf",
     "static.network", "locale.conf", "localtime", "machine-id", "nftables.conf",
     "policy.conf", "sysctl", "service", "first-boot"}
Writing == {"put", "copy"} \X Payloads
WritingFstab == Writing \cup {<<"put", "fstab">>}
Cleaning == {<<"nothing", "">>, <<"unmount", "">>, <<"release", "">>}

LEMMA PathsListed ==
    /\ IsPath(<<>>) /\ IsPath(Esp) /\ IsPath(<<"boot">>) /\ IsPath(<<"bin">>)
    /\ IsPath(<<"etc">>) /\ IsPath(<<"home">>) /\ IsPath(<<"boot", "grub">>)
    /\ IsPath(<<"etc", "ima">>) /\ IsPath(Esp \o <<"loader">>)
    /\ IsPath(Esp \o <<"loader", "entries">>) /\ IsPath(Esp \o <<"EFI", "BOOT">>)
    /\ IsPath(Esp \o <<"boot">>)
<1>1. \A at : IsPath(at) <=> IsList(at)
    BY DEF IsPath, IsList
<1>2. IsList(Esp)
    BY ShortLists DEF Esp
<1>3. \A s, t : IsList(s) /\ IsList(t) => IsList(s \o t)
    BY ListsJoined
<1>4. /\ IsList(<<"loader">>) /\ IsList(<<"boot">>) /\ IsList(<<"loader", "entries">>)
      /\ IsList(<<"EFI", "BOOT">>) /\ IsList(<<>>) /\ IsList(<<"bin">>) /\ IsList(<<"etc">>)
      /\ IsList(<<"home">>) /\ IsList(<<"boot", "grub">>) /\ IsList(<<"etc", "ima">>)
    BY ShortLists
<1>5. /\ IsList(Esp \o <<"loader">>) /\ IsList(Esp \o <<"loader", "entries">>)
      /\ IsList(Esp \o <<"EFI", "BOOT">>) /\ IsList(Esp \o <<"boot">>)
    BY <1>2, <1>3, <1>4
<1> QED
    BY <1>1, <1>2, <1>4, <1>5

LEMMA OnFits ==
    ASSUME NEW command, NEW n, NEW l, command \in PerPartition => n \in 1 .. l
    PROVE  /\ Kind(On(command, n)) = <<command, "">> /\ Fits(On(command, n), l)
           /\ Kind(NonFatal(On(command, n))) = <<command, "">> /\ Fits(NonFatal(On(command, n)), l)
<1>1. PICK x, y : x = On(command, n) /\ y = NonFatal(x)
    OBVIOUS
<1>2. /\ x.at = <<>> /\ x.do = command /\ x.on = n /\ x.what = ""
      /\ y.at = <<>> /\ y.do = command /\ y.on = n /\ y.what = ""
    BY <1>1 DEF On, NonFatal
<1> QED
    BY <1>1, <1>2, PathsListed DEF Fits, Kind

LEMMA PartitionUses ==
    ASSUME NEW c, NEW l \in Nat, OfLayout(c.parts, l)
    PROVE  Uses(PartitionPlan(c), l, OnDisk)
<1> DEFINE s == [j \in 1 .. l |-> <<On("mkpart", j)>> \o [f \in 1 .. c.parts[j].flags |-> On("set", j)]]
<1>1. DOMAIN c.parts = 1 .. l
    BY DEF OfLayout, OfParts
<1>2. PartitionPlan(c) = <<On("mklabel", 0)>> \o FlattenSeq(s)
    BY <1>1 DEF PartitionPlan, ForEach, InOrder
<1>3. Uses(<<On("mklabel", 0)>>, l, OnDisk)
    <2>1. Kind(On("mklabel", 0)) \in OnDisk /\ Fits(On("mklabel", 0), l)
        BY OnFits DEF OnDisk, PerPartition
    <2> QED
        BY <2>1, UsesOne
<1>4. ASSUME NEW j \in 1 .. l PROVE Uses(s[j], l, OnDisk)
    <2>1. Kind(On("mkpart", j)) \in OnDisk /\ Fits(On("mkpart", j), l)
        BY OnFits DEF OnDisk
    <2>2. Uses(<<On("mkpart", j)>>, l, OnDisk)
        BY <2>1, UsesOne
    <2>3. PICK n \in Nat : n = c.parts[j].flags
        BY DEF OfLayout
    <2> DEFINE t == [f \in 1 .. n |-> On("set", j)]
    <2>4. Spelled(t, n) /\ \A f \in 1 .. n : Kind(t[f]) \in OnDisk /\ Fits(t[f], l)
        <3>1. Kind(On("set", j)) \in OnDisk /\ Fits(On("set", j), l)
            BY OnFits DEF OnDisk
        <3> QED
            BY <3>1 DEF Spelled
    <2> HIDE DEF t
    <2>5. Uses(t, l, OnDisk)
        BY <2>4, UsesSpelled
    <2>6. s[j] = <<On("mkpart", j)>> \o t
        BY <2>3 DEF t
    <2> HIDE DEF s
    <2> QED
        BY <2>2, <2>5, <2>6, UsesJoined
<1>5. Spelled(s, l)
    BY DEF Spelled
<1> HIDE DEF s
<1>6. Uses(FlattenSeq(s), l, OnDisk)
    BY <1>4, <1>5, UsesFlattened
<1> QED
    BY <1>2, <1>3, <1>6, UsesJoined

LEMMA RootIsPart ==
    ASSUME NEW ps, NEW l \in Nat, OfLayout(ps, l), l # 0
    PROVE  RootOf(ps) \in 1 .. l
<1> DEFINE roots == {j \in DOMAIN ps : ps[j].mp = <<>>}
<1>1. Len(ps) = l /\ DOMAIN ps = 1 .. l
    BY DEF OfLayout, OfParts
<1>2. CASE roots = {}
    BY <1>1, <1>2 DEF RootOf
<1>3. CASE roots # {}
    <2>1. roots \in SUBSET Nat
        BY <1>1
    <2>2. \E j \in roots : \A n \in roots : j <= n
        BY <1>3, <2>1, Least
    <2>3. RootOf(ps) = CHOOSE j \in roots : \A n \in roots : j <= n
        BY <1>3 DEF RootOf
    <2>4. RootOf(ps) \in roots
        BY <2>2, <2>3
    <2> QED
        BY <1>1, <2>4
<1> QED
    BY <1>2, <1>3

LEMMA EncryptionUses ==
    ASSUME NEW c, NEW l \in Nat, OfLayout(c.parts, l)
    PROVE  Uses(EncryptionPlan(c), l, Encrypting)
<1>1. CASE c.encrypt /\ c.parts # <<>>
    <2>1. l # 0
        BY <1>1 DEF OfLayout, OfParts
    <2>2. PICK r \in 1 .. l : r = RootOf(c.parts)
        BY <2>1, RootIsPart
    <2>3. EncryptionPlan(c) = <<On("luksFormat", r), On("luksOpen", r)>>
        BY <1>1, <2>2 DEF EncryptionPlan
    <2>4. /\ Kind(On("luksFormat", r)) \in Encrypting /\ Fits(On("luksFormat", r), l)
          /\ Kind(On("luksOpen", r)) \in Encrypting /\ Fits(On("luksOpen", r), l)
        BY OnFits DEF Encrypting
    <2> QED
        BY <2>3, <2>4, UsesTwo
<1>2. CASE ~(c.encrypt /\ c.parts # <<>>)
    BY <1>2, UsesNone DEF EncryptionPlan
<1> QED
    BY <1>1, <1>2

LEMMA FormatUses ==
    ASSUME NEW c, NEW l \in Nat, OfLayout(c.parts, l)
    PROVE  Uses(FormatPlan(c), l, Formatting)
<1> DEFINE s == [j \in 1 .. l |-> <<On("mkfs", j)>>]
<1>1. DOMAIN c.parts = 1 .. l
    BY DEF OfLayout, OfParts
<1>2. FormatPlan(c) = FlattenSeq(s)
    BY <1>1 DEF FormatPlan, ForEach, InOrder
<1>3. ASSUME NEW j \in 1 .. l PROVE Uses(s[j], l, Formatting)
    <2>1. Kind(On("mkfs", j)) \in Formatting /\ Fits(On("mkfs", j), l)
        BY OnFits DEF Formatting
    <2> QED
        BY <2>1, UsesOne
<1>4. Spelled(s, l)
    BY DEF Spelled
<1> HIDE DEF s
<1> QED
    BY <1>2, <1>3, <1>4, UsesFlattened

LEMMA MountUses ==
    ASSUME NEW c, NEW l \in Nat, OfLayout(c.parts, l)
    PROVE  Uses(MountPlan(c), l, Mounting)
<1>1. PICK o : o = MountOrder(c.parts)
    OBVIOUS
<1>2. PICK n \in Nat : o \in [1 .. n -> 1 .. l]
    <2>1. Sorts(o, 1 .. l, ByKey(1 .. l, Depths(c.parts)))
        BY <1>1, MountOrderSorts DEF OfLayout
    <2>2. Cardinality(1 .. l) \in Nat
        BY SmallSets
    <2> QED
        BY <2>1, <2>2 DEF Sorts
<1> DEFINE ops(j) == IF c.parts[j].fs = "swap" THEN <<NonFatal(On("swapon", j))>>
                     ELSE <<Put("mountpoint", c.parts[j].mp), On("mount", j)>>
           s == [m \in 1 .. n |-> ops(o[m])]
<1>3. MountPlan(c) = FlattenSeq(s)
    BY <1>1, <1>2 DEF MountPlan, ForEach
<1>4. ASSUME NEW m \in 1 .. n PROVE Uses(s[m], l, Mounting)
    <2>1. PICK j \in 1 .. l : j = o[m]
        BY <1>2
    <2>2. /\ Kind(NonFatal(On("swapon", j))) \in Mounting /\ Fits(NonFatal(On("swapon", j)), l)
          /\ Kind(On("mount", j)) \in Mounting /\ Fits(On("mount", j), l)
        BY OnFits DEF Mounting
    <2>3. PICK put : put = Put("mountpoint", c.parts[j].mp)
        OBVIOUS
    <2>4. Kind(put) \in Mounting /\ Fits(put, l)
        BY <2>3 DEF Put, Kind, Fits, Mounting, PerPartition, OfLayout
    <2>5. s[m] = IF c.parts[j].fs = "swap" THEN <<NonFatal(On("swapon", j))>> ELSE <<put, On("mount", j)>>
        BY <2>1, <2>3
    <2> HIDE DEF s
    <2>6. Uses(<<NonFatal(On("swapon", j))>>, l, Mounting)
        BY <2>2, UsesOne
    <2>7. Uses(<<put, On("mount", j)>>, l, Mounting)
        BY <2>2, <2>4, UsesTwo
    <2> QED
        BY <2>5, <2>6, <2>7
<1>5. Spelled(s, n)
    BY DEF Spelled
<1> HIDE DEF s
<1> QED
    BY <1>3, <1>4, <1>5, UsesFlattened

LEMMA WordsListed ==
    /\ "dirs" \in Payloads /\ "base" \in Payloads /\ "ark" \in Payloads /\ "packages" \in Payloads
    /\ "loader" \in Payloads /\ "dir" \in Payloads /\ "grub.cfg" \in Payloads
    /\ "loader.conf" \in Payloads /\ "entry" \in Payloads /\ "rescue entry" \in Payloads
    /\ "kernel" \in Payloads /\ "account" \in Payloads /\ "keys" \in Payloads /\ "wheel" \in Payloads
    /\ "hostname" \in Payloads /\ "hosts" \in Payloads /\ "resolv.conf" \in Payloads
    /\ "static.network" \in Payloads /\ "locale.conf" \in Payloads /\ "localtime" \in Payloads
    /\ "machine-id" \in Payloads /\ "nftables.conf" \in Payloads /\ "policy.conf" \in Payloads
    /\ "sysctl" \in Payloads /\ "service" \in Payloads /\ "first-boot" \in Payloads
BY DEF Payloads

LEMMA PutWrites ==
    ASSUME NEW what \in Payloads, NEW at, IsPath(at), NEW l
    PROVE  /\ Kind(Put(what, at)) \in Writing /\ Fits(Put(what, at), l)
           /\ Kind(NonFatal(Put(what, at))) \in Writing /\ Fits(NonFatal(Put(what, at)), l)
           /\ Kind(FromBase(what, at)) \in Writing /\ Fits(FromBase(what, at), l)
           /\ Kind(NonFatal(FromBase(what, at))) \in Writing
           /\ Fits(NonFatal(FromBase(what, at)), l)
BY DEF Put, FromBase, NonFatal, Kind, Fits, PerPartition, Writing

LEMMA BaseUses ==
    ASSUME NEW c, NEW l
    PROVE  Uses(BasePlan(c), l, Writing)
<1>1. PICK n \in Nat : n = 3
    OBVIOUS
<1>2. PICK s : s = BasePlan(c)
    OBVIOUS
<1>3. Spelled(s, n)
    BY <1>1, <1>2 DEF Spelled, BasePlan
<1>4. ASSUME NEW m \in 1 .. n PROVE Kind(s[m]) \in Writing /\ Fits(s[m], l)
    <2>1. \/ s[m] = Put("dirs", <<>>)
          \/ s[m] = Put("base", <<>>)
          \/ s[m] = NonFatal(Put("ark", <<>>))
        BY <1>1, <1>2 DEF BasePlan
    <2> QED
        BY <2>1, WordsListed, PathsListed, PutWrites
<1> QED
    BY <1>2, <1>3, <1>4, UsesSpelled

LEMMA PackagesUses ==
    ASSUME NEW c, NEW l
    PROVE  Uses(PackagesPlan(c), l, Writing)
<1>1. Kind(Put("packages", <<>>)) \in Writing /\ Fits(Put("packages", <<>>), l)
    BY WordsListed, PathsListed, PutWrites
<1> QED
    BY <1>1, UsesNone, UsesOne DEF PackagesPlan

LEMMA BootloaderUses ==
    ASSUME NEW c, NEW l
    PROVE  Uses(BootloaderPlan(c), l, Writing)
<1>1. Uses(GrubPlan(c), l, Writing)
    <2>1. PICK n \in Nat : n = 3
        OBVIOUS
    <2>2. PICK at : at = (IF c.uefi THEN Esp ELSE <<"boot">>) /\ IsPath(at)
        BY PathsListed
    <2>3. PICK s : s = GrubPlan(c)
        OBVIOUS
    <2>4. Spelled(s, n)
        BY <2>1, <2>3 DEF Spelled, GrubPlan
    <2>5. ASSUME NEW m \in 1 .. n PROVE Kind(s[m]) \in Writing /\ Fits(s[m], l)
        <3>1. \/ s[m] = Put("loader", at)
              \/ s[m] = Put("dir", <<"boot", "grub">>)
              \/ s[m] = Put("grub.cfg", <<"boot", "grub">>)
            BY <2>1, <2>2, <2>3 DEF GrubPlan
        <3> QED
            BY <2>2, <3>1, WordsListed, PathsListed, PutWrites
    <2> QED
        BY <2>3, <2>4, <2>5, UsesSpelled
<1>2. Uses(SystemdPlan, l, Writing)
    <2>1. PICK loader, entries : /\ loader = Esp \o <<"loader">> /\ IsPath(loader)
                                 /\ entries = Esp \o <<"loader", "entries">> /\ IsPath(entries)
        BY PathsListed
    <2>2. PICK n \in Nat : n = 4
        OBVIOUS
    <2>3. PICK four : four = <<Put("loader", Esp), Put("dir", loader), Put("loader.conf", loader),
                               Put("dir", entries)>>
        OBVIOUS
    <2>4. PICK two : two = <<Put("entry", entries), Put("rescue entry", entries)>>
        OBVIOUS
    <2>5. SystemdPlan = four \o two
        <3>1. PICK a, b, d, e, f, g :
                  /\ a = Put("loader", Esp) /\ b = Put("dir", loader) /\ d = Put("loader.conf", loader)
                  /\ e = Put("dir", entries) /\ f = Put("entry", entries)
                  /\ g = Put("rescue entry", entries)
            OBVIOUS
        <3>2. SystemdPlan = <<a, b, d, e, f, g>>
            BY ONLY <2>1, <3>1 DEF SystemdPlan
        <3>3. four = <<a, b, d, e>> /\ two = <<f, g>>
            BY ONLY <2>3, <2>4, <3>1
        <3>4. <<a, b, d, e>> \o <<f, g>> = <<a, b, d, e, f, g>>
            BY ONLY FourTwo
        <3> QED
            BY ONLY <3>2, <3>3, <3>4
    <2>6. Spelled(four, n)
        BY <2>2, <2>3 DEF Spelled
    <2>7. ASSUME NEW m \in 1 .. n PROVE Kind(four[m]) \in Writing /\ Fits(four[m], l)
        <3>1. \/ four[m] = Put("loader", Esp)
              \/ four[m] = Put("dir", loader)
              \/ four[m] = Put("loader.conf", loader)
              \/ four[m] = Put("dir", entries)
            BY <2>2, <2>3
        <3> QED
            BY <2>1, <3>1, WordsListed, PathsListed, PutWrites
    <2>8. Uses(four, l, Writing)
        BY <2>6, <2>7, UsesSpelled
    <2>9. Uses(two, l, Writing)
        BY <2>1, <2>4, WordsListed, PutWrites, UsesTwo
    <2> QED
        BY <2>5, <2>8, <2>9, UsesJoined
<1>3. Uses(GnobootPlan, l, Writing)
    <2>1. PICK n \in Nat : n = 4
        OBVIOUS
    <2>2. PICK s : s = GnobootPlan
        OBVIOUS
    <2>3. PICK efi, boot : /\ efi = Esp \o <<"EFI", "BOOT">> /\ IsPath(efi)
                           /\ boot = Esp \o <<"boot">> /\ IsPath(boot)
        BY PathsListed
    <2>4. s = <<Put("dir", efi), Put("dir", boot), FromBase("loader", Esp), FromBase("kernel", Esp)>>
        BY <2>2, <2>3 DEF GnobootPlan
    <2>5. Spelled(s, n)
        BY <2>1, <2>4 DEF Spelled
    <2>6. ASSUME NEW m \in 1 .. n PROVE Kind(s[m]) \in Writing /\ Fits(s[m], l)
        <3>1. \/ s[m] = Put("dir", efi)
              \/ s[m] = Put("dir", boot)
              \/ s[m] = FromBase("loader", Esp)
              \/ s[m] = FromBase("kernel", Esp)
            BY <2>1, <2>4
        <3> QED
            BY <2>3, <3>1, WordsListed, PathsListed, PutWrites
    <2> QED
        BY <2>2, <2>5, <2>6, UsesSpelled
<1> QED
    BY <1>1, <1>2, <1>3 DEF BootloaderPlan

LEMMA UserUses ==
    ASSUME NEW c, NEW l
    PROVE  Uses(UserPlan(c), l, Writing)
<1> DEFINE a == <<FromBase("account", <<"etc">>)>>
           b == If("keys" \in c.user, <<Put("dir", <<"home">>), Put("keys", <<"home">>)>>)
           d == If("sudo" \in c.user, <<NonFatal(FromBase("wheel", <<"etc">>))>>)
<1>1. /\ Kind(FromBase("account", <<"etc">>)) \in Writing
      /\ Kind(Put("dir", <<"home">>)) \in Writing /\ Kind(Put("keys", <<"home">>)) \in Writing
      /\ Kind(NonFatal(FromBase("wheel", <<"etc">>))) \in Writing
    BY WordsListed, PathsListed, PutWrites
<1>2. Uses(a, l, Writing) /\ Uses(b, l, Writing) /\ Uses(d, l, Writing)
    <2>1. Uses(a, l, Writing)
        BY <1>1, WordsListed, PathsListed, PutWrites, UsesOne
    <2>2. Uses(b, l, Writing)
        BY <1>1, WordsListed, PathsListed, PutWrites, UsesTwo, UsesNone DEF If
    <2>3. Uses(d, l, Writing)
        BY <1>1, WordsListed, PathsListed, PutWrites, UsesOne, UsesNone DEF If
    <2> QED
        BY <2>1, <2>2, <2>3
<1>3. UserPlan(c) = a \o b \o d
    BY DEF UserPlan
<1> HIDE DEF a, b, d
<1>4. Uses(a \o b, l, Writing)
    BY <1>2, UsesJoined
<1> QED
    BY <1>2, <1>3, <1>4, UsesJoined

LEMMA NetworkUses ==
    ASSUME NEW c, NEW l
    PROVE  Uses(NetworkPlan(c), l, Writing)
<1> DEFINE a == <<Put("hostname", <<"etc">>), Put("hosts", <<"etc">>)>>
           b == If("dns" \in c.net, <<Put("resolv.conf", <<"etc">>)>>)
           d == If("static" \in c.net, <<Put("dir", <<"etc">>), Put("static.network", <<"etc">>)>>)
<1>1. /\ Kind(Put("hostname", <<"etc">>)) \in Writing /\ Kind(Put("hosts", <<"etc">>)) \in Writing
      /\ Kind(Put("resolv.conf", <<"etc">>)) \in Writing
      /\ Kind(Put("dir", <<"etc">>)) \in Writing /\ Kind(Put("static.network", <<"etc">>)) \in Writing
    BY WordsListed, PathsListed, PutWrites
<1>2. Uses(a, l, Writing) /\ Uses(b, l, Writing) /\ Uses(d, l, Writing)
    <2>1. Uses(a, l, Writing)
        BY <1>1, WordsListed, PathsListed, PutWrites, UsesTwo
    <2>2. Uses(b, l, Writing)
        BY <1>1, WordsListed, PathsListed, PutWrites, UsesOne, UsesNone DEF If
    <2>3. Uses(d, l, Writing)
        BY <1>1, WordsListed, PathsListed, PutWrites, UsesTwo, UsesNone DEF If
    <2> QED
        BY <2>1, <2>2, <2>3
<1>3. NetworkPlan(c) = a \o b \o d
    BY DEF NetworkPlan
<1> HIDE DEF a, b, d
<1>4. Uses(a \o b, l, Writing)
    BY <1>2, UsesJoined
<1> QED
    BY <1>2, <1>3, <1>4, UsesJoined

LEMMA LocaleUses ==
    ASSUME NEW c, NEW l
    PROVE  Uses(LocalePlan(c), l, WritingFstab)
<1>1. PICK n \in Nat : n = 4
    OBVIOUS
<1>2. PICK s : s = LocalePlan(c)
    OBVIOUS
<1>3. Spelled(s, n)
    BY <1>1, <1>2 DEF Spelled, LocalePlan
<1>4. ASSUME NEW m \in 1 .. n PROVE Kind(s[m]) \in WritingFstab /\ Fits(s[m], l)
    <2>1. \/ s[m] = Put("locale.conf", <<"etc">>)
          \/ s[m] = Put("localtime", <<"etc">>)
          \/ s[m] = Put("machine-id", <<"etc">>)
          \/ s[m] = Put("fstab", <<"etc">>)
        BY <1>1, <1>2 DEF LocalePlan
    <2> QED
        <3>1. CASE s[m] = Put("fstab", <<"etc">>)
            <4>1. IsPath(<<"etc">>)
                BY PathsListed
            <4> QED
                BY <3>1, <4>1 DEF WritingFstab, Put, Kind, Fits, PerPartition
        <3>2. CASE s[m] # Put("fstab", <<"etc">>)
            <4>1. Kind(s[m]) \in Writing /\ Fits(s[m], l)
                BY <2>1, <3>2, WordsListed, PathsListed, PutWrites
            <4> QED
                BY <4>1 DEF WritingFstab
        <3> QED
            BY <3>1, <3>2
<1> QED
    BY <1>2, <1>3, <1>4, UsesSpelled

LEMMA SecurityUses ==
    ASSUME NEW c, NEW l
    PROVE  Uses(SecurityPlan(c), l, Writing)
<1> DEFINE a == If("deny" \in c.sec, <<Put("nftables.conf", <<"etc">>)>>)
           b == If("verity" \in c.sec,
                   <<Put("dir", <<"etc", "ima">>), Put("policy.conf", <<"etc", "ima">>)>>)
           d == <<Put("sysctl", <<"etc">>)>>
<1>1. /\ Kind(Put("nftables.conf", <<"etc">>)) \in Writing /\ Kind(Put("sysctl", <<"etc">>)) \in Writing
      /\ Kind(Put("dir", <<"etc", "ima">>)) \in Writing
      /\ Kind(Put("policy.conf", <<"etc", "ima">>)) \in Writing
    BY WordsListed, PathsListed, PutWrites
<1>2. Uses(a, l, Writing) /\ Uses(b, l, Writing) /\ Uses(d, l, Writing)
    <2>1. Uses(a, l, Writing)
        BY <1>1, WordsListed, PathsListed, PutWrites, UsesOne, UsesNone DEF If
    <2>2. Uses(b, l, Writing)
        BY <1>1, WordsListed, PathsListed, PutWrites, UsesTwo, UsesNone DEF If
    <2>3. Uses(d, l, Writing)
        BY <1>1, WordsListed, PathsListed, PutWrites, UsesOne
    <2> QED
        BY <2>1, <2>2, <2>3
<1>3. SecurityPlan(c) = a \o b \o d
    BY DEF SecurityPlan
<1> HIDE DEF a, b, d
<1>4. Uses(a \o b, l, Writing)
    BY <1>2, UsesJoined
<1> QED
    BY <1>2, <1>3, <1>4, UsesJoined

LEMMA FirstBootUses ==
    ASSUME NEW c, NEW l
    PROVE  Uses(FirstBootPlan(c), l, Writing)
<1>1. PICK n \in Nat : n = Services(c.mode)
    BY DEF Services
<1> DEFINE service == NonFatal(FromBase("service", <<"etc">>))
           s == [m \in 1 .. n |-> service]
<1>2. /\ Kind(service) \in Writing /\ Fits(service, l)
      /\ Kind(Marker) \in Writing /\ Fits(Marker, l)
    BY WordsListed, PathsListed, PutWrites DEF Marker
<1>3. FirstBootPlan(c) = Append(s, Marker)
    BY <1>1 DEF FirstBootPlan
<1> HIDE DEF service
<1>4. PICK S : S = {service, Marker}
    OBVIOUS
<1>5. Append(s, Marker) \in Seq(S)
    <2>1. s \in Seq(S) /\ Marker \in S
        BY <1>4
    <2> QED
        BY ONLY <2>1
<1>6. \A x \in S : Kind(x) \in Writing /\ Fits(x, l)
    BY <1>2, <1>4
<1> QED
    BY <1>3, <1>5, <1>6 DEF Uses

LEMMA CleanupUses ==
    ASSUME NEW c, NEW l \in Nat, OfLayout(c.parts, l)
    PROVE  Uses(CleanupPlan(c), l, Cleaning)
<1>1. DOMAIN c.parts = 1 .. l
    BY DEF OfLayout, OfParts
<1>2. PICK o : o = CleanupOrder(c.parts)
    OBVIOUS
<1>3. PICK n \in Nat : o \in [1 .. n -> 1 .. l]
    <2>1. Sorts(o, FileSystems(c.parts), ByKey(FileSystems(c.parts), Heights(c.parts)))
        BY <1>2, CleanupOrderSorts DEF OfLayout
    <2>2. FileSystems(c.parts) \in SUBSET (1 .. l)
        BY <1>1 DEF FileSystems
    <2>3. Cardinality(FileSystems(c.parts)) \in Nat
        BY <2>2, SmallSets
    <2> QED
        BY <2>1, <2>2, <2>3 DEF Sorts
<1> DEFINE s == [m \in 1 .. n |-> <<On("unmount", o[m])>>]
           t == [j \in 1 .. l |-> If(c.parts[j].fs = "swap", <<NonFatal(On("release", j))>>)]
           a == <<Nothing>>
           d == If(c.encrypt, <<NonFatal(On("release", 0))>>)
<1>4. CleanupPlan(c) = a \o FlattenSeq(s) \o FlattenSeq(t) \o d
    BY <1>1, <1>2, <1>3 DEF CleanupPlan, ForEach, InOrder
<1>5. /\ Kind(Nothing) \in Cleaning /\ Fits(Nothing, l)
      /\ \A j : Kind(NonFatal(On("release", j))) \in Cleaning /\ Fits(NonFatal(On("release", j)), l)
      /\ \A j \in 1 .. l : Kind(On("unmount", j)) \in Cleaning /\ Fits(On("unmount", j), l)
    BY OnFits DEF Nothing, PerPartition, Cleaning
<1>6. Uses(a, l, Cleaning) /\ Uses(d, l, Cleaning)
    BY <1>5, UsesOne, UsesNone DEF If
<1>7. Uses(FlattenSeq(s), l, Cleaning)
    <2>1. Spelled(s, n) /\ \A m \in 1 .. n : Uses(s[m], l, Cleaning)
        <3>1. ASSUME NEW m \in 1 .. n PROVE Uses(<<On("unmount", o[m])>>, l, Cleaning)
            BY <1>3, <1>5, UsesOne
        <3> QED
            BY <3>1 DEF Spelled
    <2> HIDE DEF s
    <2> QED
        BY <2>1, UsesFlattened
<1>8. Uses(FlattenSeq(t), l, Cleaning)
    <2>1. ASSUME NEW j \in 1 .. l PROVE Uses(t[j], l, Cleaning)
        <3>1. Uses(<<NonFatal(On("release", j))>>, l, Cleaning)
            BY <1>5, UsesOne
        <3> QED
            BY <3>1, UsesNone DEF If
    <2>2. Spelled(t, l)
        BY DEF Spelled
    <2> HIDE DEF t
    <2> QED
        BY <2>1, <2>2, UsesFlattened
<1> HIDE DEF a, s, t, d
<1>9. Uses(a \o FlattenSeq(s), l, Cleaning)
    BY <1>6, <1>7, UsesJoined
<1>10. Uses(a \o FlattenSeq(s) \o FlattenSeq(t), l, Cleaning)
    BY <1>8, <1>9, UsesJoined
<1> QED
    BY <1>4, <1>6, <1>10, UsesJoined

-----------------------------------------------------------------------------
\* What is in lists: joined, of one element, of none, flattened.
LEMMA InListsJoined ==
    ASSUME NEW s, NEW t, IsList(s), IsList(t), NEW x
    PROVE  InList(s \o t, x) <=> InList(s, x) \/ InList(t, x)
<1>1. PICK A, B : s \in Seq(A) /\ t \in Seq(B)
    BY DEF IsList
<1>2. PICK S : S = A \cup B
    OBVIOUS
<1>3. s \in Seq(S) /\ t \in Seq(S)
    BY <1>1, <1>2
<1> QED
    BY <1>3, InJoined

LEMMA InOne ==
    ASSUME NEW y, NEW x
    PROVE  IsList(<<y>>) /\ (InList(<<y>>, x) <=> x = y)
<1>1. PICK S : S = {y}
    OBVIOUS
<1>2. <<y>> \in Seq(S)
    BY <1>1
<1> QED
    BY <1>2 DEF IsList, InList

LEMMA InNone ==
    ASSUME NEW x
    PROVE  IsList(<<>>) /\ ~InList(<<>>, x)
<1>1. PICK S : S = {}
    OBVIOUS
<1>2. <<>> \in Seq(S)
    OBVIOUS
<1> QED
    BY <1>2 DEF IsList, InList

LEMMA InFlattened ==
    ASSUME NEW n \in Nat, NEW s, Spelled(s, n), \A j \in 1 .. n : IsList(s[j])
    PROVE  /\ IsList(FlattenSeq(s))
           /\ \A x : InList(FlattenSeq(s), x) <=> \E j \in 1 .. n : InList(s[j], x)
<1> DEFINE Elements(j) == {s[j][m] : m \in DOMAIN s[j]}
           S == UNION {Elements(j) : j \in 1 .. n}
<1>1. ASSUME NEW j \in 1 .. n PROVE s[j] \in Seq(S)
    <2>1. PICK l \in Nat : s[j] = [m \in 1 .. l |-> s[j][m]] /\ DOMAIN s[j] = 1 .. l
        BY ListIs
    <2>2. \A m \in 1 .. l : s[j][m] \in Elements(j)
        BY <2>1
    <2>3. Elements(j) \subseteq S
        OBVIOUS
    <2>4. s[j] \in [1 .. l -> S]
        <3> HIDE DEF S, Elements
        <3> QED
            BY <2>1, <2>2, <2>3
    <2> HIDE DEF S
    <2> QED
        BY ONLY <2>4, l \in Nat
<1> HIDE DEF S
<1>2. s \in Seq(Seq(S)) /\ DOMAIN s = 1 .. n
    <2>1. s \in [1 .. n -> Seq(S)]
        BY <1>1 DEF Spelled
    <2> QED
        BY ONLY <2>1, n \in Nat
<1>3. FlattenSeq(s) \in Seq(S)
    <2>1. <<>> \in Seq(S)
        OBVIOUS
    <2> QED
        BY <1>2, <2>1, FlattenAppend
<1>4. ASSUME NEW x PROVE InList(FlattenSeq(s), x) <=> \E j \in 1 .. n : InList(s[j], x)
    <2>1. InList(FlattenSeq(s), x) <=> InSome(s, x)
        BY <1>2, FlattenElements
    <2>2. InSome(s, x) <=> \E j \in 1 .. n : InList(s[j], x)
        BY <1>2 DEF InSome, InList
    <2> QED
        BY <2>1, <2>2
<1> QED
    BY <1>3, <1>4 DEF IsList

\* What kinds of operations say of the command and of what it puts.
LEMMA KindsSay ==
    ASSUME NEW op
    PROVE  /\ Kind(op) \in OnDisk => op.do \in {"mklabel", "mkpart", "set"} /\ op.what = ""
           /\ Kind(op) \in Encrypting => op.do \in {"luksFormat", "luksOpen"} /\ op.what = ""
           /\ Kind(op) \in Formatting => op.do = "mkfs" /\ op.what = ""
           /\ Kind(op) \in Mounting => op.do \in {"put", "mount", "swapon"} /\ op.what # "fstab"
           /\ Kind(op) \in Writing => op.do \in {"put", "copy"} /\ op.what # "fstab"
           /\ Kind(op) \in WritingFstab => op.do \in {"put", "copy"}
           /\ Kind(op) \in Cleaning => op.do \in {"nothing", "unmount", "release"} /\ op.what = ""
<1>1. "fstab" \notin Payloads
    BY DEF Payloads
<1>2. /\ Kind(op) \in Writing => op.do \in {"put", "copy"} /\ op.what # "fstab"
      /\ Kind(op) \in WritingFstab => op.do \in {"put", "copy"}
    BY <1>1 DEF Kind, Writing, WritingFstab
<1>3. /\ Kind(op) \in OnDisk => op.do \in {"mklabel", "mkpart", "set"} /\ op.what = ""
      /\ Kind(op) \in Encrypting => op.do \in {"luksFormat", "luksOpen"} /\ op.what = ""
      /\ Kind(op) \in Formatting => op.do = "mkfs" /\ op.what = ""
    BY DEF Kind, OnDisk, Encrypting, Formatting
<1>4. /\ Kind(op) \in Mounting => op.do \in {"put", "mount", "swapon"} /\ op.what # "fstab"
      /\ Kind(op) \in Cleaning => op.do \in {"nothing", "unmount", "release"} /\ op.what = ""
    BY DEF Kind, Mounting, Cleaning
<1> QED
    BY <1>2, <1>3, <1>4
-----------------------------------------------------------------------------
(* Places.  Element m of a flattened list is element Q[m] of list J[m];    *)
(* later elements are of later lists, or behind in the same one.           *)
ReadAt(t, s, J, Q, m) ==
    J[m] \in DOMAIN s /\ Q[m] \in DOMAIN s[J[m]] /\ t[m] = s[J[m]][Q[m]]
Reads(t, s, J, Q) == \A m \in DOMAIN t : ReadAt(t, s, J, Q, m)
Follow(J, Q, l) ==
    \A a, b \in 1 .. l : a < b => J[a] < J[b] \/ (J[a] = J[b] /\ Q[b] = Q[a] + (b - a))
Reaches(s, J, Q, l) ==
    \A j \in DOMAIN s : \A q \in DOMAIN s[j] : \E m \in 1 .. l : J[m] = j /\ Q[m] = q
Places(t, s, J, Q, l) ==
    /\ J \in [1 .. l -> Nat] /\ Q \in [1 .. l -> Nat]
    /\ Reads(t, s, J, Q) /\ Follow(J, Q, l) /\ Reaches(s, J, Q, l)

LEMMA PlacesAppended ==
    ASSUME NEW S, NEW s \in Seq(Seq(S)), NEW x \in Seq(S), NEW t \in Seq(S),
           NEW J, NEW Q, Places(t, s, J, Q, Len(t))
    PROVE  \E J_1, Q_1 : Places(t \o x, Append(s, x), J_1, Q_1, Len(t \o x))
<1>1. PICK n \in Nat, a \in Nat, b \in Nat : n = Len(s) /\ a = Len(t) /\ b = Len(x)
    OBVIOUS
<1>2. PICK u : u = t \o x
    OBVIOUS
<1>3. PICK v : v = Append(s, x)
    OBVIOUS
<1>4. Len(u) = a + b /\ IsJoined(u, t, x, a, b) /\ DOMAIN u = 1 .. a + b
    <2>1. Len(u) = a + b /\ IsJoined(u, t, x, a, b)
        BY <1>1, <1>2, JoinedAt
    <2> QED
        BY <2>1 DEF IsJoined
<1>5. DOMAIN t = 1 .. a /\ DOMAIN x = 1 .. b /\ DOMAIN s = 1 .. n /\ DOMAIN v = 1 .. n + 1
    BY <1>1, <1>3
<1>6. (\A j \in 1 .. n : v[j] = s[j]) /\ v[n + 1] = x
    BY <1>1, <1>3
<1> DEFINE K == [m \in 1 .. a + b |-> IF m \in 1 .. a THEN J[m] ELSE n + 1]
           P == [m \in 1 .. a + b |-> IF m \in 1 .. a THEN Q[m] ELSE m - a]
<1>7. \A m \in 1 .. a : m \in 1 .. a + b /\ K[m] = J[m] /\ P[m] = Q[m]
    OBVIOUS
<1>8. \A m \in 1 .. b : a + m \in 1 .. a + b /\ a + m \notin 1 .. a /\ K[a + m] = n + 1 /\ P[a + m] = m
    OBVIOUS
<1>9. K \in [1 .. a + b -> Nat] /\ P \in [1 .. a + b -> Nat]
    <2>1. \A m \in 1 .. a : J[m] \in Nat /\ Q[m] \in Nat
        BY <1>1 DEF Places
    <2>2. \A m \in 1 .. a + b : m \notin 1 .. a => m - a \in Nat
        OBVIOUS
    <2> QED
        BY <2>1, <2>2
<1> HIDE DEF K, P
<1>10. \A m \in 1 .. a + b : m \in 1 .. a \/ \E j \in 1 .. b : m = a + j
    BY <1>4 DEF IsJoined
<1>11. Reads(t, s, J, Q) /\ Follow(J, Q, a) /\ Reaches(s, J, Q, a)
    BY <1>1 DEF Places
<1>12. \A m \in 1 .. a : J[m] \in 1 .. n /\ Q[m] \in DOMAIN s[J[m]] /\ t[m] = s[J[m]][Q[m]]
    BY <1>5, <1>11 DEF Reads, ReadAt
<1>13. Reads(u, v, K, P)
    <2>1. ASSUME NEW m \in 1 .. a
          PROVE  ReadAt(u, v, K, P, m)
        <3>1. u[m] = t[m]
            BY <1>4 DEF IsJoined
        <3>2. PICK j \in 1 .. n : j = K[m]
            BY <1>7, <1>12
        <3>3. j \in 1 .. n + 1 /\ v[j] = s[j]
            BY <1>6
        <3> QED
            BY <1>5, <1>7, <1>12, <3>1, <3>2, <3>3 DEF ReadAt
    <2>2. ASSUME NEW m \in 1 .. b
          PROVE  ReadAt(u, v, K, P, a + m)
        <3>1. u[a + m] = x[m]
            BY <1>4 DEF IsJoined
        <3>2. n + 1 \in 1 .. n + 1
            OBVIOUS
        <3> QED
            BY <1>5, <1>6, <1>8, <3>1, <3>2 DEF ReadAt
    <2> QED
        BY <1>4, <1>10, <2>1, <2>2 DEF Reads
<1>14. Follow(K, P, a + b)
    <2> SUFFICES ASSUME NEW c \in 1 .. a + b, NEW d \in 1 .. a + b, c < d
                 PROVE  K[c] < K[d] \/ (K[c] = K[d] /\ P[d] = P[c] + (d - c))
        BY DEF Follow
    <2>1. CASE c \in 1 .. a /\ d \in 1 .. a
        BY <1>7, <1>11, <2>1 DEF Follow
    <2>2. CASE c \in 1 .. a /\ d \notin 1 .. a
        <3>1. PICK f \in 1 .. b : d = a + f
            BY <1>10, <2>2
        <3>2. K[d] = n + 1
            BY <1>8, <3>1
        <3>3. K[c] \in 1 .. n
            BY <1>7, <1>12, <2>2
        <3> QED
            BY <3>2, <3>3
    <2>3. CASE c \notin 1 .. a
        <3>1. PICK e \in 1 .. b : c = a + e
            BY <1>10, <2>3
        <3>2. d \notin 1 .. a
            BY <3>1
        <3>3. PICK f \in 1 .. b : d = a + f
            BY <1>10, <3>2
        <3>4. K[c] = n + 1 /\ K[d] = n + 1 /\ P[c] = e /\ P[d] = f
            BY <1>8, <3>1, <3>3
        <3> QED
            BY <3>1, <3>3, <3>4
    <2> QED
        BY <2>1, <2>2, <2>3
<1>15. Reaches(v, K, P, a + b)
    <2> SUFFICES ASSUME NEW j \in 1 .. n + 1, NEW q \in DOMAIN v[j]
                 PROVE  \E m \in 1 .. a + b : K[m] = j /\ P[m] = q
        BY <1>5 DEF Reaches
    <2>1. CASE j \in 1 .. n
        <3>1. q \in DOMAIN s[j] /\ j \in DOMAIN s
            BY <1>5, <1>6, <2>1
        <3>2. PICK m \in 1 .. a : J[m] = j /\ Q[m] = q
            BY <1>11, <3>1 DEF Reaches
        <3> QED
            BY <1>7, <3>2
    <2>2. CASE j = n + 1
        <3>1. q \in 1 .. b
            BY <1>5, <1>6, <2>2
        <3> QED
            BY <1>8, <2>2, <3>1
    <2> QED
        BY <2>1, <2>2
<1>16. Places(u, v, K, P, Len(u))
    BY <1>4, <1>9, <1>13, <1>14, <1>15 DEF Places
<1> QED
    BY <1>2, <1>3, <1>16

LEMMA PlacesExist ==
    ASSUME NEW S, NEW s \in Seq(Seq(S))
    PROVE  \E J, Q : Places(FlattenSeq(s), s, J, Q, Len(FlattenSeq(s)))
<1> DEFINE Has(t) == \E J, Q : Places(FlattenSeq(t), t, J, Q, Len(FlattenSeq(t)))
           T == {t \in Seq(Seq(S)) : Has(t)}
<1>1. <<>> \in T
    <2>1. PICK n \in Nat : n = 0
        OBVIOUS
    <2>2. PICK e : e = <<>> /\ Len(e) = n /\ DOMAIN e = 1 .. n /\ 1 .. n = {}
        BY <2>1
    <2>3. e \in [1 .. n -> Nat]
        BY <2>2
    <2>4. Places(e, e, e, e, Len(e))
        BY <2>2, <2>3 DEF Places, Reads, Follow, Reaches
    <2>5. FlattenSeq(e) = e
        BY <2>2, FlattenEmpty
    <2>6. Has(e)
        BY <2>4, <2>5
    <2> HIDE DEF Has
    <2> QED
        BY <2>2, <2>6
<1>2. ASSUME NEW t \in T, NEW y \in Seq(S) PROVE Append(t, y) \in T
    <2>1. t \in Seq(Seq(S)) /\ Append(t, y) \in Seq(Seq(S)) /\ FlattenSeq(t) \in Seq(S)
        BY FlattenAppend
    <2>2. FlattenSeq(Append(t, y)) = FlattenSeq(t) \o y
        BY FlattenAppend
    <2>3. PICK J, Q : Places(FlattenSeq(t), t, J, Q, Len(FlattenSeq(t)))
        OBVIOUS
    <2>4. PICK f \in Seq(S) : f = FlattenSeq(t)
        BY <2>1
    <2>5. \E J_1, Q_1 : Places(f \o y, Append(t, y), J_1, Q_1, Len(f \o y))
        <3> HIDE DEF T
        <3>1. t \in Seq(Seq(S)) /\ Places(f, t, J, Q, Len(f))
            BY <2>1, <2>3, <2>4
        <3> QED
            BY ONLY <3>1, f \in Seq(S), y \in Seq(S), PlacesAppended
    <2>6. Has(Append(t, y))
        BY <2>2, <2>4, <2>5
    <2> HIDE DEF Has
    <2> QED
        BY <2>1, <2>6
<1>3. T = Seq(Seq(S))
    <2>1. T \in SUBSET Seq(Seq(S))
        OBVIOUS
    <2> HIDE DEF T
    <2> QED
        BY <1>1, <1>2, <2>1, ListInduction
<1> HIDE DEF Has
<1>4. Has(s)
    BY <1>3
<1> QED
    BY <1>4 DEF Has
-----------------------------------------------------------------------------
(* The mounts.  Each is made right behind its mount point, in the order of *)
(* the depths, and no file system that is to be mounted is left out.       *)
Before(ps, l) == ByKey(1 .. l, Depths(ps))
MountsSorted(ops, ps, l) ==
    \A a, b \in DOMAIN ops :
        a < b /\ ops[a].do = "mount" /\ ops[b].do = "mount" => <<ops[a].on, ops[b].on>> \in Before(ps, l)
MountpointOf(ops, ps, a, j) ==
    ops[a] = Put("mountpoint", ps[j].mp) /\ a + 1 \in DOMAIN ops /\ ops[a + 1] = On("mount", j)
MountpointsFirst(ops, ps, l) ==
    \A a \in DOMAIN ops : ops[a].do = "put" =>
        \E j \in 1 .. l : ps[j].fs # "swap" /\ MountpointOf(ops, ps, a, j)
MountsReal(ops, ps, l) ==
    \A a \in DOMAIN ops : ops[a].do = "mount" =>
        ops[a].on \in 1 .. l /\ ps[ops[a].on].fs # "swap" /\ ops[a].fatal
MountsAll(ops, ps, l) ==
    \A j \in 1 .. l : ps[j].fs # "swap" => \E m \in DOMAIN ops : ops[m] = On("mount", j)
MountsPrepared(ops, ps) ==
    \A b \in DOMAIN ops : ops[b].do = "mount" =>
        \E a \in DOMAIN ops : b = a + 1 /\ ops[a] = Put("mountpoint", ps[ops[b].on].mp)
SwapsOptional(ops) == \A a \in DOMAIN ops : ops[a].do = "swapon" => ~ops[a].fatal

LEMMA MountsPlanned ==
    ASSUME NEW c, NEW l \in Nat, OfLayout(c.parts, l)
    PROVE  /\ MountsSorted(MountPlan(c), c.parts, l) /\ MountpointsFirst(MountPlan(c), c.parts, l)
           /\ MountsReal(MountPlan(c), c.parts, l) /\ MountsAll(MountPlan(c), c.parts, l)
           /\ MountsPrepared(MountPlan(c), c.parts) /\ SwapsOptional(MountPlan(c))
<1>1. PICK o : o = MountOrder(c.parts)
    OBVIOUS
<1>2. PICK n \in Nat : n = Cardinality(1 .. l)
    BY SmallSets
<1>3. Sorts(o, 1 .. l, Before(c.parts, l)) /\ OneWay(1 .. l, Before(c.parts, l))
    BY <1>1, MountOrderSorts DEF OfLayout, Before
<1>4. o \in [1 .. n -> 1 .. l]
    BY <1>2, <1>3 DEF Sorts
<1>5. Lists(o, 1 .. l, n)
    <2>1. IsFiniteSet(1 .. l)
        BY FS_Interval
    <2> QED
        BY <1>2, <1>3, <2>1, SortIsOnto
<1> DEFINE chunk(j) == IF c.parts[j].fs = "swap" THEN <<NonFatal(On("swapon", j))>>
                       ELSE <<Put("mountpoint", c.parts[j].mp), On("mount", j)>>
           s == [m \in 1 .. n |-> chunk(o[m])]
<1>6. MountPlan(c) = FlattenSeq(s)
    BY <1>1, <1>4 DEF MountPlan, ForEach
<1>7. DOMAIN s = 1 .. n /\ \A x \in 1 .. n : s[x] = chunk(o[x])
    OBVIOUS
<1>8. PICK S : s \in Seq(Seq(S))
    <2> DEFINE S == {NonFatal(On("swapon", j)) : j \in 1 .. l}
                    \cup {Put("mountpoint", c.parts[j].mp) : j \in 1 .. l}
                    \cup {On("mount", j) : j \in 1 .. l}
    <2>1. ASSUME NEW j \in 1 .. l PROVE chunk(j) \in Seq(S)
        <3>1. /\ NonFatal(On("swapon", j)) \in S /\ On("mount", j) \in S
              /\ Put("mountpoint", c.parts[j].mp) \in S
            OBVIOUS
        <3> HIDE DEF S
        <3> QED
            BY <3>1
    <2> HIDE DEF S, chunk
    <2>2. s \in [1 .. n -> Seq(S)]
        BY <1>4, <2>1
    <2>3. s \in Seq(Seq(S))
        <3> HIDE DEF s
        <3> QED
            BY ONLY <2>2, n \in Nat
    <2> QED
        BY <2>3
<1>9. PICK ops : ops = MountPlan(c)
    OBVIOUS
<1> HIDE DEF s
<1>10. PICK J, Q : Places(ops, s, J, Q, Len(ops))
    BY <1>6, <1>8, <1>9, PlacesExist
<1>11. PICK k \in Nat : k = Len(ops) /\ DOMAIN ops = 1 .. k
    <2>1. FlattenSeq(s) \in Seq(S)
        <3>1. <<>> \in Seq(S)
            OBVIOUS
        <3> QED
            BY <1>8, <3>1, FlattenAppend
    <2> QED
        BY <1>6, <1>9, <2>1
<1>12. Reads(ops, s, J, Q) /\ Follow(J, Q, k) /\ Reaches(s, J, Q, k)
    BY <1>10, <1>11 DEF Places
\* Where an operation comes from.
<1>13. ASSUME NEW a \in 1 .. k
       PROVE  /\ J[a] \in 1 .. n /\ o[J[a]] \in 1 .. l
              /\ \/ /\ c.parts[o[J[a]]].fs = "swap" /\ ops[a] = NonFatal(On("swapon", o[J[a]]))
                 \/ /\ c.parts[o[J[a]]].fs # "swap" /\ Q[a] = 1
                    /\ ops[a] = Put("mountpoint", c.parts[o[J[a]]].mp)
                 \/ /\ c.parts[o[J[a]]].fs # "swap" /\ Q[a] = 2
                    /\ ops[a] = On("mount", o[J[a]])
    <2>1. ReadAt(ops, s, J, Q, a)
        BY <1>11, <1>12 DEF Reads
    <2>2. PICK x \in 1 .. n : x = J[a] /\ Q[a] \in DOMAIN s[x] /\ ops[a] = s[x][Q[a]]
        BY <1>7, <2>1 DEF ReadAt
    <2>3. PICK j \in 1 .. l : j = o[x]
        BY <1>4
    <2>4. s[x] = chunk(j)
        BY <1>7, <2>3
    <2>5. CASE c.parts[j].fs = "swap"
        BY <2>2, <2>3, <2>4, <2>5
    <2>6. CASE c.parts[j].fs # "swap"
        <3>1. PICK p : p = Put("mountpoint", c.parts[j].mp)
            OBVIOUS
        <3>2. s[x] = <<p, On("mount", j)>>
            BY <2>4, <2>6, <3>1
        <3>3. (Q[a] = 1 /\ ops[a] = p) \/ (Q[a] = 2 /\ ops[a] = On("mount", j))
            BY <2>2, <3>2
        <3> QED
            BY <2>2, <2>3, <2>6, <3>1, <3>3
    <2> QED
        BY <2>5, <2>6
<1> HIDE DEF chunk
<1>21. \A j, p : /\ NonFatal(On("swapon", j)).do = "swapon" /\ Put("mountpoint", p).do = "put"
                 /\ On("mount", j).do = "mount" /\ On("mount", j).on = j /\ On("mount", j).fatal
                 /\ ~NonFatal(On("swapon", j)).fatal
    BY DEF On, Put, NonFatal
<1>14. ASSUME NEW a \in 1 .. k, ops[a].do = "mount"
       PROVE  /\ J[a] \in 1 .. n /\ Q[a] = 2 /\ ops[a].on = o[J[a]] /\ ops[a].fatal
              /\ o[J[a]] \in 1 .. l /\ c.parts[o[J[a]]].fs # "swap"
    BY <1>13, <1>14, <1>21
<1>15. MountsSorted(ops, c.parts, l)
    <2> SUFFICES ASSUME NEW a \in 1 .. k, NEW b \in 1 .. k, a < b,
                        ops[a].do = "mount", ops[b].do = "mount"
                 PROVE  <<ops[a].on, ops[b].on>> \in Before(c.parts, l)
        BY <1>11 DEF MountsSorted
    <2>1. PICK x \in 1 .. n, y \in 1 .. n : x = J[a] /\ y = J[b] /\ ops[a].on = o[x] /\ ops[b].on = o[y]
                                            /\ Q[a] = 2 /\ Q[b] = 2
        BY <1>14
    <2>2. x < y \/ (x = y /\ Q[b] = Q[a] + (b - a))
        BY <1>12, <2>1 DEF Follow
    <2>3. x < y
        BY <2>1, <2>2
    <2> QED
        BY <1>2, <1>3, <2>1, <2>3 DEF Sorts
<1>16. MountpointsFirst(ops, c.parts, l)
    <2> SUFFICES ASSUME NEW a \in 1 .. k, ops[a].do = "put"
                 PROVE  \E j \in 1 .. l : c.parts[j].fs # "swap" /\ MountpointOf(ops, c.parts, a, j)
        BY <1>11 DEF MountpointsFirst
    <2>1. PICK x \in 1 .. n : x = J[a]
        BY <1>13
    <2>2. PICK j \in 1 .. l : j = o[x]
        BY <1>4
    <2>3. c.parts[j].fs # "swap" /\ Q[a] = 1 /\ ops[a] = Put("mountpoint", c.parts[j].mp)
        BY <1>13, <1>21, <2>1, <2>2
    <2>4. 2 \in DOMAIN s[x]
        BY <1>7, <2>2, <2>3 DEF chunk
    <2>5. PICK m \in 1 .. k : J[m] = x /\ Q[m] = 2
        BY <1>7, <1>12, <2>4 DEF Reaches
    <2>6. m = a + 1
        <3>1. a < m \/ m < a \/ m = a
            OBVIOUS
        <3>2. CASE a < m
            <4>1. x < x \/ Q[m] = Q[a] + (m - a)
                BY <1>12, <2>1, <2>5, <3>2 DEF Follow
            <4> QED
                BY <2>3, <2>5, <4>1
        <3>3. CASE m < a
            <4>1. x < x \/ Q[a] = Q[m] + (a - m)
                BY <1>12, <2>1, <2>5, <3>3 DEF Follow
            <4> QED
                BY <2>3, <2>5, <3>3, <4>1
        <3> QED
            BY <2>3, <2>5, <3>1, <3>2, <3>3
    <2>7. ops[m] = On("mount", j)
        BY <1>13, <2>2, <2>3, <2>5
    <2> QED
        BY <1>11, <2>3, <2>5, <2>6, <2>7 DEF MountpointOf
<1>17. MountsReal(ops, c.parts, l)
    BY <1>11, <1>14 DEF MountsReal
<1>18. MountsAll(ops, c.parts, l)
    <2> SUFFICES ASSUME NEW j \in 1 .. l, c.parts[j].fs # "swap"
                 PROVE  \E m \in 1 .. k : ops[m] = On("mount", j)
        BY <1>11 DEF MountsAll
    <2>1. PICK x \in 1 .. n : o[x] = j
        BY <1>5 DEF Lists
    <2>2. 2 \in DOMAIN s[x]
        BY <1>7, <2>1 DEF chunk
    <2>3. PICK m \in 1 .. k : J[m] = x /\ Q[m] = 2
        BY <1>7, <1>12, <2>2 DEF Reaches
    <2>4. ops[m] = On("mount", j)
        BY <1>13, <2>1, <2>3
    <2> QED
        BY <2>4
<1>19. MountsPrepared(ops, c.parts)
    <2> SUFFICES ASSUME NEW b \in 1 .. k, ops[b].do = "mount"
                 PROVE  \E a \in 1 .. k :
                            b = a + 1 /\ ops[a] = Put("mountpoint", c.parts[ops[b].on].mp)
        BY <1>11 DEF MountsPrepared
    <2>1. PICK x \in 1 .. n : x = J[b] /\ Q[b] = 2 /\ ops[b].on = o[x]
        BY <1>14
    <2>2. PICK j \in 1 .. l : j = o[x] /\ c.parts[j].fs # "swap"
        BY <1>14, <2>1
    <2>3. 1 \in DOMAIN s[x]
        BY <1>7, <2>2 DEF chunk
    <2>4. PICK a \in 1 .. k : J[a] = x /\ Q[a] = 1
        BY <1>7, <1>12, <2>3 DEF Reaches
    <2>5. b = a + 1
        <3>1. a < b \/ b < a \/ b = a
            OBVIOUS
        <3>2. CASE a < b
            <4>1. x < x \/ Q[b] = Q[a] + (b - a)
                BY <1>12, <2>1, <2>4, <3>2 DEF Follow
            <4> QED
                BY <2>1, <2>4, <4>1
        <3>3. CASE b < a
            <4>1. x < x \/ Q[a] = Q[b] + (a - b)
                BY <1>12, <2>1, <2>4, <3>3 DEF Follow
            <4> QED
                BY <2>1, <2>4, <3>3, <4>1
        <3> QED
            BY <2>1, <2>4, <3>1, <3>2, <3>3
    <2>6. ops[a] = Put("mountpoint", c.parts[j].mp)
        BY <1>13, <2>2, <2>4
    <2> QED
        BY <2>1, <2>2, <2>5, <2>6
<1>20. SwapsOptional(ops)
    <2> SUFFICES ASSUME NEW a \in 1 .. k, ops[a].do = "swapon" PROVE ~ops[a].fatal
        BY <1>11 DEF SwapsOptional
    <2> QED
        BY <1>13, <1>21
<1> QED
    BY <1>9, <1>15, <1>16, <1>17, <1>18, <1>19, <1>20
-----------------------------------------------------------------------------
(* The shape of a plan: which entry has what kinds of operations, and the  *)
(* operations that an installed system cannot do without.                  *)
\* The phases of a plan: thirteen with an account, twelve without.
LEMMA Thirteen ==
    ASSUME NEW a, NEW b, NEW c, NEW d, NEW e, NEW f, NEW g, NEW h,
           NEW p, NEW q, NEW r, NEW s, NEW t
    PROVE  <<a, b, c, d, e, f, g>> \o <<h>> \o <<p, q, r, s, t>>
               = <<a, b, c, d, e, f, g, h, p, q, r, s, t>>
<1>1. PICK n \in Nat, l \in Nat, o \in Nat, no \in Nat : n = 7 /\ o = 1 /\ no = 8 /\ l = 5
    OBVIOUS
<1>2. PICK x : x = <<a, b, c, d, e, f, g>>
    OBVIOUS
<1>3. PICK y : y = <<h>>
    OBVIOUS
<1>4. PICK z : z = <<p, q, r, s, t>>
    OBVIOUS
<1>5. PICK v : v = <<a, b, c, d, e, f, g, h>>
    OBVIOUS
<1>6. PICK w : w = <<a, b, c, d, e, f, g, h, p, q, r, s, t>>
    OBVIOUS
<1>7. Spells(v, x, y, n, o)
    BY <1>1, <1>2, <1>3, <1>5 DEF Spells, Spelled
<1>8. Spells(w, v, z, no, l)
    <2>1. Spelled(v, no) /\ Spelled(z, l) /\ Spelled(w, no + l)
        BY <1>1, <1>4, <1>5, <1>6 DEF Spelled
    <2>2. ASSUME NEW m \in 1 .. no PROVE w[m] = v[m]
        BY <1>1, <1>5, <1>6
    <2>3. ASSUME NEW m \in 1 .. l PROVE w[no + m] = z[m]
        BY <1>1, <1>4, <1>6
    <2> QED
        BY <2>1, <2>2, <2>3 DEF Spells
<1>9. x \o y = v
    BY ONLY <1>7, n \in Nat, o \in Nat, JoinIs
<1>10. v \o z = w
    BY ONLY <1>8, no \in Nat, l \in Nat, JoinIs
<1> QED
    BY <1>2, <1>3, <1>4, <1>6, <1>9, <1>10

LEMMA Twelve ==
    ASSUME NEW a, NEW b, NEW c, NEW d, NEW e, NEW f, NEW g,
           NEW p, NEW q, NEW r, NEW s, NEW t
    PROVE  <<a, b, c, d, e, f, g>> \o <<>> \o <<p, q, r, s, t>>
               = <<a, b, c, d, e, f, g, p, q, r, s, t>>
<1>1. PICK n \in Nat, l \in Nat, o \in Nat, no \in Nat : n = 7 /\ o = 0 /\ no = 7 /\ l = 5
    OBVIOUS
<1>2. PICK x : x = <<a, b, c, d, e, f, g>>
    OBVIOUS
<1>3. PICK y : y = <<>>
    OBVIOUS
<1>4. PICK z : z = <<p, q, r, s, t>>
    OBVIOUS
<1>5. PICK v : v = <<a, b, c, d, e, f, g>>
    OBVIOUS
<1>6. PICK w : w = <<a, b, c, d, e, f, g, p, q, r, s, t>>
    OBVIOUS
<1>7. Spells(v, x, y, n, o)
    BY <1>1, <1>2, <1>3, <1>5 DEF Spells, Spelled
<1>8. Spells(w, v, z, no, l)
    <2>1. Spelled(v, no) /\ Spelled(z, l) /\ Spelled(w, no + l)
        BY <1>1, <1>4, <1>5, <1>6 DEF Spelled
    <2>2. ASSUME NEW m \in 1 .. no PROVE w[m] = v[m]
        BY <1>1, <1>5, <1>6
    <2>3. ASSUME NEW m \in 1 .. l PROVE w[no + m] = z[m]
        BY <1>1, <1>4, <1>6
    <2> QED
        BY <2>1, <2>2, <2>3 DEF Spells
<1>9. x \o y = v
    BY ONLY <1>7, n \in Nat, o \in Nat, JoinIs
<1>10. v \o z = w
    BY ONLY <1>8, no \in Nat, l \in Nat, JoinIs
<1> QED
    BY <1>2, <1>3, <1>4, <1>6, <1>9, <1>10

\* The entries of a shell plan of n phases, and of a native one.
ShellEntries(p, c, n) ==
    /\ DOMAIN p = 1 .. n /\ Len(p) = n
    /\ p[1] = Phase(PARTITION, PartitionPlan(c)) /\ p[2] = Phase(ENCRYPTION, EncryptionPlan(c))
    /\ p[3] = Phase(FORMAT, FormatPlan(c)) /\ p[4] = Phase(MOUNT, MountPlan(c))
    /\ p[5] = Phase(BASE, BasePlan(c)) /\ p[6] = Phase(PACKAGES, PackagesPlan(c))
    /\ p[7] = Phase(BOOTLOADER, BootloaderPlan(c))
    /\ IF c.user = {} THEN n = 12 ELSE n = 13 /\ p[8] = Phase(USER, UserPlan(c))
    /\ p[n - 4] = Phase(CONFIGURE, NetworkPlan(c)) /\ p[n - 3] = Phase(CONFIGURE, LocalePlan(c))
    /\ p[n - 2] = Phase(SECURITY, SecurityPlan(c)) /\ p[n - 1] = Phase(FIRST_BOOT, FirstBootPlan(c))
    /\ p[n] = Phase(CLEANUP, CleanupPlan(c))

LEMMA ShellListed ==
    ASSUME NEW c
    PROVE  \E n \in {12, 13} : ShellEntries(full_execution_plan(c), c, n)
<1>1. PICK e1, e2, e3, e4, e5, e6, e7, e8 :
          /\ e1 = Phase(PARTITION, PartitionPlan(c)) /\ e2 = Phase(ENCRYPTION, EncryptionPlan(c))
          /\ e3 = Phase(FORMAT, FormatPlan(c)) /\ e4 = Phase(MOUNT, MountPlan(c))
          /\ e5 = Phase(BASE, BasePlan(c)) /\ e6 = Phase(PACKAGES, PackagesPlan(c))
          /\ e7 = Phase(BOOTLOADER, BootloaderPlan(c)) /\ e8 = Phase(USER, UserPlan(c))
    OBVIOUS
<1>2. PICK f1, f2, f3, f4, f5 :
          /\ f1 = Phase(CONFIGURE, NetworkPlan(c)) /\ f2 = Phase(CONFIGURE, LocalePlan(c))
          /\ f3 = Phase(SECURITY, SecurityPlan(c)) /\ f4 = Phase(FIRST_BOOT, FirstBootPlan(c))
          /\ f5 = Phase(CLEANUP, CleanupPlan(c))
    OBVIOUS
<1>3. full_execution_plan(c) = <<e1, e2, e3, e4, e5, e6, e7>> \o If(c.user # {}, <<e8>>)
                               \o <<f1, f2, f3, f4, f5>>
    BY <1>1, <1>2 DEF full_execution_plan
<1>4. PICK p : p = full_execution_plan(c)
    OBVIOUS
<1>5. CASE c.user = {}
    <2>1. p = <<e1, e2, e3, e4, e5, e6, e7, f1, f2, f3, f4, f5>>
        BY <1>3, <1>4, <1>5, Twelve DEF If
    <2>2. DOMAIN p = 1 .. 12 /\ Len(p) = 12
          /\ p[1] = e1 /\ p[2] = e2 /\ p[3] = e3 /\ p[4] = e4 /\ p[5] = e5 /\ p[6] = e6
          /\ p[7] = e7 /\ p[12 - 4] = f1 /\ p[12 - 3] = f2 /\ p[12 - 2] = f3 /\ p[12 - 1] = f4
          /\ p[12] = f5
        BY <2>1
    <2>3. ShellEntries(p, c, 12)
        BY <1>1, <1>2, <1>5, <2>2 DEF ShellEntries
    <2> QED
        BY <1>4, <2>3
<1>6. CASE c.user # {}
    <2>1. p = <<e1, e2, e3, e4, e5, e6, e7, e8, f1, f2, f3, f4, f5>>
        BY <1>3, <1>4, <1>6, Thirteen DEF If
    <2>2. DOMAIN p = 1 .. 13 /\ Len(p) = 13
          /\ p[1] = e1 /\ p[2] = e2 /\ p[3] = e3 /\ p[4] = e4 /\ p[5] = e5 /\ p[6] = e6
          /\ p[7] = e7 /\ p[8] = e8 /\ p[13 - 4] = f1 /\ p[13 - 3] = f2 /\ p[13 - 2] = f3
          /\ p[13 - 1] = f4 /\ p[13] = f5
        BY <2>1
    <2>3. ShellEntries(p, c, 13)
        BY <1>1, <1>2, <1>6, <2>2 DEF ShellEntries
    <2> QED
        BY <1>4, <2>3
<1> QED
    BY <1>5, <1>6

\* What kinds of operations an entry has, by its place among n.
KindsAt(m, n) ==
    IF m = 1 THEN OnDisk ELSE IF m = 2 THEN Encrypting ELSE IF m = 3 THEN Formatting
    ELSE IF m = 4 THEN Mounting ELSE IF m < n THEN WritingFstab ELSE Cleaning
OfKinds(p, l, n) ==
    \A m \in 1 .. n : /\ Uses(p[m].ops, l, KindsAt(m, n))
                      /\ p[m].phase \in PARTITION .. CLEANUP

LEMMA ShellUses ==
    ASSUME NEW c, NEW l \in Nat, OfLayout(c.parts, l), NEW p, NEW n \in {12, 13},
           ShellEntries(p, c, n)
    PROVE  OfKinds(p, l, n)
<1>2. /\ PARTITION \in PARTITION .. CLEANUP /\ ENCRYPTION \in PARTITION .. CLEANUP
      /\ FORMAT \in PARTITION .. CLEANUP /\ MOUNT \in PARTITION .. CLEANUP
      /\ BASE \in PARTITION .. CLEANUP /\ PACKAGES \in PARTITION .. CLEANUP
      /\ BOOTLOADER \in PARTITION .. CLEANUP /\ USER \in PARTITION .. CLEANUP
      /\ CONFIGURE \in PARTITION .. CLEANUP /\ SECURITY \in PARTITION .. CLEANUP
      /\ FIRST_BOOT \in PARTITION .. CLEANUP /\ CLEANUP \in PARTITION .. CLEANUP
    BY DEF PARTITION, ENCRYPTION, FORMAT, MOUNT, BASE, PACKAGES, BOOTLOADER, USER, CONFIGURE,
           SECURITY, FIRST_BOOT, CLEANUP
<1>3. Writing \subseteq WritingFstab
    BY DEF WritingFstab
<1>4. ASSUME NEW ops, Uses(ops, l, Writing) PROVE Uses(ops, l, WritingFstab)
    BY <1>3, <1>4, UsesMore
<1>5. /\ Uses(BasePlan(c), l, WritingFstab) /\ Uses(PackagesPlan(c), l, WritingFstab)
      /\ Uses(BootloaderPlan(c), l, WritingFstab) /\ Uses(UserPlan(c), l, WritingFstab)
      /\ Uses(NetworkPlan(c), l, WritingFstab) /\ Uses(LocalePlan(c), l, WritingFstab)
      /\ Uses(SecurityPlan(c), l, WritingFstab) /\ Uses(FirstBootPlan(c), l, WritingFstab)
    BY <1>4, BaseUses, PackagesUses, BootloaderUses, UserUses, NetworkUses, LocaleUses,
       SecurityUses, FirstBootUses
<1>6. /\ Uses(PartitionPlan(c), l, OnDisk) /\ Uses(EncryptionPlan(c), l, Encrypting)
      /\ Uses(FormatPlan(c), l, Formatting) /\ Uses(MountPlan(c), l, Mounting)
      /\ Uses(CleanupPlan(c), l, Cleaning)
    BY PartitionUses, EncryptionUses, FormatUses, MountUses, CleanupUses
<1>7. /\ KindsAt(1, n) = OnDisk /\ KindsAt(2, n) = Encrypting /\ KindsAt(3, n) = Formatting
      /\ KindsAt(4, n) = Mounting /\ KindsAt(n, n) = Cleaning
      /\ \A m \in 5 .. n - 1 : KindsAt(m, n) = WritingFstab
    BY DEF KindsAt
<1>8. /\ p[1].ops = PartitionPlan(c) /\ p[2].ops = EncryptionPlan(c)
      /\ p[3].ops = FormatPlan(c) /\ p[4].ops = MountPlan(c) /\ p[5].ops = BasePlan(c)
      /\ p[6].ops = PackagesPlan(c) /\ p[7].ops = BootloaderPlan(c)
      /\ n = 13 => p[8].ops = UserPlan(c)
      /\ p[n - 4].ops = NetworkPlan(c) /\ p[n - 3].ops = LocalePlan(c)
      /\ p[n - 2].ops = SecurityPlan(c) /\ p[n - 1].ops = FirstBootPlan(c)
      /\ p[n].ops = CleanupPlan(c)
    BY DEF ShellEntries, Phase
<1>9. /\ p[1].phase = PARTITION /\ p[2].phase = ENCRYPTION /\ p[3].phase = FORMAT
      /\ p[4].phase = MOUNT /\ p[5].phase = BASE /\ p[6].phase = PACKAGES
      /\ p[7].phase = BOOTLOADER /\ (n = 13 => p[8].phase = USER) /\ p[n - 4].phase = CONFIGURE
      /\ p[n - 3].phase = CONFIGURE /\ p[n - 2].phase = SECURITY /\ p[n - 1].phase = FIRST_BOOT
      /\ p[n].phase = CLEANUP
    BY DEF ShellEntries, Phase
<1>10. ASSUME NEW m \in 1 .. n
       PROVE  \/ m = 1 \/ m = 2 \/ m = 3 \/ m = 4 \/ m = n
              \/ /\ m \in 5 .. n - 1
                 /\ \/ m = 5 \/ m = 6 \/ m = 7 \/ (m = 8 /\ n = 13)
                    \/ m = n - 4 \/ m = n - 3 \/ m = n - 2 \/ m = n - 1
    OBVIOUS
<1>11. ASSUME NEW m \in 1 .. n PROVE p[m].phase \in PARTITION .. CLEANUP
    BY <1>2, <1>9, <1>10
<1>12. ASSUME NEW m \in 1 .. n PROVE Uses(p[m].ops, l, KindsAt(m, n))
    <2>1. CASE m \in 5 .. n - 1
        BY <1>5, <1>7, <1>8, <1>10, <2>1
    <2>2. CASE m \notin 5 .. n - 1
        BY <1>6, <1>7, <1>8, <1>10, <2>2
    <2> QED
        BY <2>1, <2>2
<1> QED
    BY <1>11, <1>12 DEF OfKinds
-----------------------------------------------------------------------------
LEMMA UsesList ==
    ASSUME NEW ops, NEW l, NEW kinds, Uses(ops, l, kinds)
    PROVE  IsList(ops)
BY DEF Uses, IsList

\* The disk is labelled before anything else; every partition is made.
OnParts == {<<"mkpart", "">>, <<"set", "">>}
Labels(ops, t) == ops = <<On("mklabel", 0)>> \o t
LEMMA PartitionsPlanned ==
    ASSUME NEW c, NEW l \in Nat, OfLayout(c.parts, l)
    PROVE  \E t : /\ Labels(PartitionPlan(c), t) /\ Uses(t, l, OnParts)
                  /\ \A j \in 1 .. l : InList(t, On("mkpart", j))
<1> DEFINE s == [j \in 1 .. l |-> <<On("mkpart", j)>> \o [f \in 1 .. c.parts[j].flags |-> On("set", j)]]
<1>1. DOMAIN c.parts = 1 .. l
    BY DEF OfLayout, OfParts
<1>2. Labels(PartitionPlan(c), FlattenSeq(s))
    BY <1>1 DEF PartitionPlan, ForEach, InOrder, Labels
<1>3. ASSUME NEW j \in 1 .. l PROVE Uses(s[j], l, OnParts) /\ InList(s[j], On("mkpart", j))
    <2>1. Kind(On("mkpart", j)) \in OnParts /\ Fits(On("mkpart", j), l)
        BY OnFits DEF OnParts
    <2>2. Uses(<<On("mkpart", j)>>, l, OnParts)
        BY <2>1, UsesOne
    <2>3. PICK n \in Nat : n = c.parts[j].flags
        BY DEF OfLayout
    <2> DEFINE t == [f \in 1 .. n |-> On("set", j)]
    <2>4. Spelled(t, n) /\ \A f \in 1 .. n : Kind(t[f]) \in OnParts /\ Fits(t[f], l)
        <3>1. Kind(On("set", j)) \in OnParts /\ Fits(On("set", j), l)
            BY OnFits DEF OnParts
        <3> QED
            BY <3>1 DEF Spelled
    <2> HIDE DEF t
    <2>5. Uses(t, l, OnParts)
        BY <2>4, UsesSpelled
    <2>6. s[j] = <<On("mkpart", j)>> \o t
        BY <2>3 DEF t
    <2> HIDE DEF s
    <2>7. Uses(s[j], l, OnParts)
        BY <2>2, <2>5, <2>6, UsesJoined
    <2>8. IsList(t)
        BY <2>5, UsesList
    <2>9. InList(<<On("mkpart", j)>>, On("mkpart", j)) /\ IsList(<<On("mkpart", j)>>)
        BY InOne
    <2>10. InList(s[j], On("mkpart", j))
        BY <2>6, <2>8, <2>9, InListsJoined
    <2> QED
        BY <2>7, <2>10
<1>4. Spelled(s, l)
    BY DEF Spelled
<1> HIDE DEF s
<1>5. Uses(FlattenSeq(s), l, OnParts)
    BY <1>3, <1>4, UsesFlattened
<1>6. \A j \in 1 .. l : IsList(s[j])
    BY <1>3, UsesList
<1>7. \A j \in 1 .. l : InList(FlattenSeq(s), On("mkpart", j))
    BY <1>3, <1>4, <1>6, InFlattened
<1> QED
    BY <1>2, <1>5, <1>7

LabelFirst(ops) == \A q \in DOMAIN ops : ops[q].do = "mklabel" => q = 1
LEMMA LabelledFirst ==
    ASSUME NEW c, NEW l \in Nat, OfLayout(c.parts, l)
    PROVE  /\ LabelFirst(PartitionPlan(c))
           /\ \A j \in 1 .. l : InList(PartitionPlan(c), On("mkpart", j))
<1>1. PICK t : /\ Labels(PartitionPlan(c), t) /\ Uses(t, l, OnParts)
               /\ \A j \in 1 .. l : InList(t, On("mkpart", j))
    BY PartitionsPlanned
<1>2. PICK u, x, y : u = PartitionPlan(c) /\ x = On("mklabel", 0) /\ y = <<x>> /\ u = y \o t
    BY <1>1 DEF Labels
<1>3. PICK S : t \in Seq(S) /\ \A op \in S : Kind(op) \in OnParts
    BY <1>1 DEF Uses
<1>4. PICK R : R = S \cup {x}
    OBVIOUS
<1>5. PICK n \in Nat, o \in Nat : n = 1 /\ o = Len(t)
    <2>1. Len(t) \in Nat
        BY <1>3
    <2> QED
        BY <2>1
<1>6. y \in Seq(R) /\ t \in Seq(R) /\ Len(y) = n
    BY <1>2, <1>3, <1>4, <1>5
<1>7. u \in Seq(R) /\ Len(u) = n + o /\ IsJoined(u, y, t, n, o)
    <2>1. y \in Seq(R) /\ t \in Seq(R) /\ n = Len(y) /\ o = Len(t)
        BY <1>5, <1>6
    <2>2. y \o t \in Seq(R) /\ Len(y \o t) = n + o /\ IsJoined(y \o t, y, t, n, o)
        BY ONLY n \in Nat, o \in Nat, <2>1, JoinedAt
    <2> QED
        BY <1>2, <2>2
<1>8. ASSUME NEW q \in DOMAIN u, q # 1 PROVE u[q].do # "mklabel"
    <2>1. q \in 1 .. n + o
        BY <1>7
    <2>2. PICK m \in 1 .. o : u[q] = t[m]
        BY <1>5, <1>7, <1>8, <2>1 DEF IsJoined
    <2>3. t[m] \in S
        BY <1>3, <1>5
    <2>4. Kind(t[m]) \in OnParts
        BY <1>3, <2>3
    <2> QED
        BY <2>2, <2>4 DEF Kind, OnParts
<1>9. LabelFirst(u)
    BY <1>8 DEF LabelFirst
<1>10. IsList(t) /\ IsList(y)
    BY <1>3, <1>6 DEF IsList
<1>11. \A j \in 1 .. l : InList(u, On("mkpart", j))
    BY <1>1, <1>2, <1>10, InListsJoined
<1> QED
    BY <1>2, <1>9, <1>11

LEMMA FormatsAll ==
    ASSUME NEW c, NEW l \in Nat, OfLayout(c.parts, l)
    PROVE  \A j \in 1 .. l : InList(FormatPlan(c), On("mkfs", j))
<1> DEFINE s == [j \in 1 .. l |-> <<On("mkfs", j)>>]
<1>1. DOMAIN c.parts = 1 .. l
    BY DEF OfLayout, OfParts
<1>2. FormatPlan(c) = FlattenSeq(s)
    BY <1>1 DEF FormatPlan, ForEach, InOrder
<1>3. \A j \in 1 .. l : s[j] = <<On("mkfs", j)>>
    OBVIOUS
<1>4. Spelled(s, l)
    BY DEF Spelled
<1> HIDE DEF s
<1>5. \A j \in 1 .. l : IsList(s[j]) /\ InList(s[j], On("mkfs", j))
    BY <1>3, InOne
<1> QED
    BY <1>2, <1>4, <1>5, InFlattened

\* The operations without which nothing boots.
LoaderAt(c) == IF c.boot = "grub2" /\ ~c.uefi THEN <<"boot">> ELSE Esp
LoaderIn(ops, at) == InList(ops, Put("loader", at)) \/ InList(ops, FromBase("loader", at))
LEMMA LoaderPlanned ==
    ASSUME NEW c
    PROVE  /\ LoaderIn(BootloaderPlan(c), LoaderAt(c))
           /\ c.boot = "gnoboot" => InList(BootloaderPlan(c), FromBase("kernel", Esp))
<1>1. CASE c.boot = "grub2"
    <2>1. PICK at : at = LoaderAt(c)
        OBVIOUS
    <2>2. GrubPlan(c)[1] = Put("loader", at) /\ 1 \in DOMAIN GrubPlan(c)
        BY <1>1, <2>1 DEF GrubPlan, LoaderAt
    <2> QED
        BY <1>1, <2>1, <2>2 DEF BootloaderPlan, LoaderIn, InList
<1>2. CASE c.boot = "systemd"
    <2>1. SystemdPlan[1] = Put("loader", Esp) /\ 1 \in DOMAIN SystemdPlan
        BY DEF SystemdPlan
    <2> QED
        BY <1>2, <2>1 DEF BootloaderPlan, LoaderIn, LoaderAt, InList
<1>3. CASE c.boot \notin {"grub2", "systemd"}
    <2>1. /\ GnobootPlan[3] = FromBase("loader", Esp) /\ 3 \in DOMAIN GnobootPlan
          /\ GnobootPlan[4] = FromBase("kernel", Esp) /\ 4 \in DOMAIN GnobootPlan
        BY DEF GnobootPlan
    <2> QED
        BY <1>3, <2>1 DEF BootloaderPlan, LoaderIn, LoaderAt, InList
<1> QED
    BY <1>1, <1>2, <1>3

LEMMA BasePlanned ==
    ASSUME NEW c
    PROVE  InList(BasePlan(c), Put("base", <<>>))
<1>1. BasePlan(c)[2] = Put("base", <<>>) /\ 2 \in DOMAIN BasePlan(c)
    BY DEF BasePlan
<1> QED
    BY <1>1 DEF InList

LEMMA FstabPlanned ==
    ASSUME NEW c
    PROVE  InList(LocalePlan(c), Put("fstab", <<"etc">>))
<1>1. LocalePlan(c)[4] = Put("fstab", <<"etc">>) /\ 4 \in DOMAIN LocalePlan(c)
    BY DEF LocalePlan
<1> QED
    BY <1>1 DEF InList

LEMMA MarkerPlanned ==
    ASSUME NEW c
    PROVE  InList(FirstBootPlan(c), Marker)
<1>1. PICK n \in Nat : n = Services(c.mode)
    BY DEF Services
<1> DEFINE x == NonFatal(FromBase("service", <<"etc">>))
           s == [m \in 1 .. n |-> x]
<1>2. FirstBootPlan(c) = Append(s, Marker)
    BY <1>1 DEF FirstBootPlan
<1>3. PICK S : x \in S /\ Marker \in S
    <2>1. x \in {x, Marker} /\ Marker \in {x, Marker}
        OBVIOUS
    <2> QED
        BY <2>1
<1>4. s \in Seq(S)
    <2> HIDE DEF x
    <2> QED
        BY <1>3
<1> HIDE DEF s
<1> QED
    BY <1>2, <1>3, <1>4, InAppended

LEMMA AccountPlanned ==
    ASSUME NEW c
    PROVE  InList(UserPlan(c), FromBase("account", <<"etc">>))
<1> DEFINE x == FromBase("account", <<"etc">>)
           b == If("keys" \in c.user, <<Put("dir", <<"home">>), Put("keys", <<"home">>)>>)
           d == If("sudo" \in c.user, <<NonFatal(FromBase("wheel", <<"etc">>))>>)
<1>1. UserPlan(c) = <<x>> \o b \o d
    BY DEF UserPlan
<1>2. IsList(b) /\ IsList(d)
    BY ShortLists DEF If
<1> HIDE DEF b, d, x
<1>3. IsList(<<x>>) /\ InList(<<x>>, x)
    BY InOne
<1>4. InList(<<x>> \o b, x) /\ IsList(<<x>> \o b)
    BY <1>2, <1>3, InListsJoined, ListsJoined
<1>5. InList(<<x>> \o b \o d, x)
    BY <1>2, <1>4, InListsJoined
<1> QED
    BY <1>1, <1>5 DEF x

LEMMA UnmountsAll ==
    ASSUME NEW c, NEW l \in Nat, OfLayout(c.parts, l)
    PROVE  \A j \in FileSystems(c.parts) : InList(CleanupPlan(c), On("unmount", j))
<1>1. DOMAIN c.parts = 1 .. l
    BY DEF OfLayout, OfParts
<1>2. PICK o : o = CleanupOrder(c.parts)
    OBVIOUS
<1>3. PICK F : F = FileSystems(c.parts)
    OBVIOUS
<1>4. F \in SUBSET (1 .. l)
    BY <1>1, <1>3 DEF FileSystems
<1>5. IsFiniteSet(F) /\ Cardinality(F) \in Nat
    BY <1>4, SmallSets
<1>6. PICK n \in Nat : n = Cardinality(F)
    BY <1>5
<1>7. Lists(o, F, n)
    <2>1. /\ Sorts(o, F, ByKey(F, Heights(c.parts))) /\ OneWay(F, ByKey(F, Heights(c.parts)))
        BY <1>2, <1>3, CleanupOrderSorts DEF OfLayout
    <2> QED
        BY <1>5, <1>6, <2>1, SortIsOnto
<1>8. o \in [1 .. n -> F]
    <2>1. Sorts(o, F, ByKey(F, Heights(c.parts)))
        BY <1>2, <1>3, CleanupOrderSorts DEF OfLayout
    <2> QED
        BY <1>6, <2>1 DEF Sorts
<1> DEFINE s == [m \in 1 .. n |-> <<On("unmount", o[m])>>]
           t == [j \in 1 .. l |-> If(c.parts[j].fs = "swap", <<NonFatal(On("release", j))>>)]
           a == <<Nothing>>
           d == If(c.encrypt, <<NonFatal(On("release", 0))>>)
<1>9. CleanupPlan(c) = a \o FlattenSeq(s) \o FlattenSeq(t) \o d
    BY <1>1, <1>2, <1>8 DEF CleanupPlan, ForEach, InOrder
<1>10. IsList(a) /\ IsList(d) /\ \A j \in 1 .. l : IsList(t[j])
    BY ShortLists DEF If
<1>11. \A m \in 1 .. n : s[m] = <<On("unmount", o[m])>>
    OBVIOUS
<1>12. Spelled(s, n) /\ Spelled(t, l)
    BY DEF Spelled
<1> HIDE DEF a, s, t, d
<1>13. \A m \in 1 .. n : IsList(s[m]) /\ InList(s[m], On("unmount", o[m]))
    BY <1>11, InOne
<1>14. IsList(FlattenSeq(s)) /\ IsList(FlattenSeq(t))
    BY <1>10, <1>12, <1>13, InFlattened
<1>15. ASSUME NEW j \in F PROVE InList(CleanupPlan(c), On("unmount", j))
    <2>1. PICK m \in 1 .. n : o[m] = j
        BY <1>7 DEF Lists
    <2>2. InList(s[m], On("unmount", j))
        BY <1>13, <2>1
    <2>3. InList(FlattenSeq(s), On("unmount", j))
        BY <1>12, <1>13, <2>2, InFlattened
    <2>4. InList(a \o FlattenSeq(s), On("unmount", j)) /\ IsList(a \o FlattenSeq(s))
        BY <1>10, <1>14, <2>3, InListsJoined, ListsJoined
    <2>5. /\ InList(a \o FlattenSeq(s) \o FlattenSeq(t), On("unmount", j))
          /\ IsList(a \o FlattenSeq(s) \o FlattenSeq(t))
        BY <1>14, <2>4, InListsJoined, ListsJoined
    <2> QED
        BY <1>9, <1>10, <2>5, InListsJoined
<1> QED
    BY <1>3, <1>15
-----------------------------------------------------------------------------
(* Where paths belong.  The partition a path belongs to is the file system *)
(* mounted deepest above it; in a sound layout there is just one.          *)
Above(ps, at) == {p \in FileSystems(ps) : IsPrefix(ps[p].mp, at)}
HomeIn(ps, at) ==
    CHOOSE p \in Above(ps, at) : \A q \in Above(ps, at) : Len(ps[q].mp) <= Len(ps[p].mp)
Sound(ps) ==
    /\ \E p \in FileSystems(ps) : ps[p].mp = <<>>
    /\ \A p \in FileSystems(ps) : ps[p].mp # <<"none">>
    /\ \A p, q \in FileSystems(ps) : ps[p].mp = ps[q].mp => p = q

\* How a path starts.
LEMMA PrefixIs ==
    ASSUME NEW s, IsPath(s), NEW t, IsPath(t)
    PROVE  /\ Len(s) \in Nat /\ Len(t) \in Nat
           /\ IsPrefix(s, t) <=> Len(s) <= Len(t) /\ \A n \in 1 .. Len(s) : s[n] = t[n]
<1>1. PICK S : s \in Seq(S)
    BY DEF IsPath
<1>2. PICK T : t \in Seq(T)
    BY DEF IsPath
<1>3. PICK n \in Nat, m \in Nat : n = Len(s) /\ m = Len(t)
    BY <1>1, <1>2
<1>4. SubSeq(s, 1, n) = [j \in 1 .. n |-> s[j]]
    BY <1>1, <1>3
<1>5. n <= m => SubSeq(t, 1, n) = [j \in 1 .. n |-> t[j]]
    BY <1>2, <1>3
<1> QED
    BY <1>3, <1>4, <1>5 DEF IsPrefix

LEMMA PathsEqual ==
    ASSUME NEW s, IsPath(s), NEW t, IsPath(t), Len(s) = Len(t),
           \A n \in 1 .. Len(s) : s[n] = t[n]
    PROVE  s = t
<1>1. PICK S : s \in Seq(S)
    BY DEF IsPath
<1>2. PICK T : t \in Seq(T)
    BY DEF IsPath
<1>3. PICK n \in Nat : n = Len(s) /\ n = Len(t)
    BY <1>1
<1>4. s = [j \in 1 .. n |-> s[j]] /\ t = [j \in 1 .. n |-> t[j]]
    BY <1>1, <1>2, <1>3
<1> QED
    BY <1>3, <1>4

\* All but the last name of a path; a path that starts another one, and is
\* not that one, starts this, too.
LEMMA FrontOf ==
    ASSUME NEW at, IsPath(at), at # <<>>
    PROVE  /\ IsPath(Front(at)) /\ Len(Front(at)) = Len(at) - 1 /\ Len(at) \in Nat \ {0}
           /\ \A n \in 1 .. Len(at) - 1 : Front(at)[n] = at[n]
<1>1. PICK S : at \in Seq(S)
    BY DEF IsPath
<1>2. PICK n \in Nat : n = Len(at) /\ n # 0
    BY <1>1
<1>3. PICK f : f = SubSeq(at, 1, n - 1)
    OBVIOUS
<1>4. f = [j \in 1 .. n - 1 |-> at[j]] /\ n - 1 \in Nat /\ \A j \in 1 .. n - 1 : at[j] \in S
    BY <1>1, <1>2, <1>3
<1>5. f \in Seq(S) /\ Len(f) = n - 1
    BY <1>4
<1>6. Front(at) = f
    BY <1>2, <1>3 DEF Front
<1> QED
    BY <1>2, <1>4, <1>5, <1>6 DEF IsPath

LEMMA FrontPrefix ==
    ASSUME NEW at, IsPath(at), at # <<>>, NEW p, IsPath(p), p # at
    PROVE  IsPrefix(p, at) <=> IsPrefix(p, Front(at))
<1>1. PICK f : f = Front(at)
    OBVIOUS
<1>2. PICK n \in Nat \ {0} : n = Len(at)
    BY FrontOf
<1>3. IsPath(f) /\ Len(f) = n - 1 /\ \A j \in 1 .. n - 1 : f[j] = at[j]
    BY <1>1, <1>2, FrontOf
<1>4. PICK m \in Nat : m = Len(p)
    BY PrefixIs
<1>5. IsPrefix(p, at) <=> m <= n /\ \A j \in 1 .. m : p[j] = at[j]
    BY <1>2, <1>4, PrefixIs
<1>6. IsPrefix(p, f) <=> m <= n - 1 /\ \A j \in 1 .. m : p[j] = f[j]
    BY <1>3, <1>4, PrefixIs
<1>7. ~(m = n /\ \A j \in 1 .. m : p[j] = at[j])
    BY <1>2, <1>4, PathsEqual
<1>8. m <= n - 1 => \A j \in 1 .. m : f[j] = at[j]
    BY <1>3
<1>9. m <= n => m = n \/ m <= n - 1
    OBVIOUS
<1> QED
    BY <1>1, <1>5, <1>6, <1>7, <1>8, <1>9

\* The empty path starts every path, and only itself starts it.
LEMMA RootPrefix ==
    ASSUME NEW p, IsPath(p)
    PROVE  IsPrefix(<<>>, p) /\ (IsPrefix(p, <<>>) <=> p = <<>>)
<1>1. Len(<<>>) = 0 /\ IsPath(<<>>)
    BY PathsListed
<1>2. IsPrefix(<<>>, p)
    BY <1>1, PrefixIs
<1>3. IsPrefix(p, <<>>) => p = <<>>
    <2> SUFFICES ASSUME IsPrefix(p, <<>>) PROVE p = <<>>
        OBVIOUS
    <2>1. PICK m \in Nat : m = Len(p) /\ m <= 0
        BY <1>1, PrefixIs
    <2>2. m = 0 /\ \A j \in 1 .. m : FALSE
        BY <2>1
    <2> QED
        BY <1>1, <2>1, <2>2, PathsEqual
<1> QED
    BY <1>1, <1>2, <1>3

\* The largest of numbers below a bound.
LEMMA Largest ==
    ASSUME NEW n \in Nat, NEW S \in SUBSET (0 .. n), S # {}
    PROVE  \E m \in S : \A x \in S : x <= m
<1> DEFINE D == {n - x : x \in S}
<1>1. D \in SUBSET Nat /\ D # {}
    <2>1. \A x \in S : x \in 0 .. n /\ n - x \in Nat
        OBVIOUS
    <2> QED
        BY <2>1
<1>2. PICK d \in D : \A e \in D : d <= e
    <2> HIDE DEF D
    <2> QED
        BY <1>1, Least
<1>3. PICK m \in S : d = n - m
    OBVIOUS
<1>4. ASSUME NEW x \in S PROVE x <= m
    <2>1. d <= n - x
        BY <1>2
    <2>2. x \in 0 .. n /\ m \in 0 .. n
        OBVIOUS
    <2> QED
        BY <1>3, <2>1, <2>2
<1> QED
    BY <1>4

LEMMA MaxIs ==
    ASSUME NEW n \in Nat, NEW S \in SUBSET (0 .. n), S # {}
    PROVE  Max(S) \in S /\ \A x \in S : x <= Max(S)
<1>1. PICK m \in S : \A x \in S : x <= m
    BY Largest
<1>2. \A x \in S : m >= x
    BY <1>1
<1>3. Max(S) \in S /\ \A x \in S : Max(S) >= x
    BY <1>2 DEF Max
<1> QED
    BY <1>3

LEMMA HomeIs ==
    ASSUME NEW l \in Nat, NEW ps, OfLayout(ps, l), Sound(ps), NEW at, IsPath(at)
    PROVE  /\ HomeIn(ps, at) \in Above(ps, at)
           /\ \A q \in Above(ps, at) : Len(ps[q].mp) <= Len(ps[HomeIn(ps, at)].mp)
           /\ \A q \in Above(ps, at) :
                  Len(ps[HomeIn(ps, at)].mp) <= Len(ps[q].mp) => q = HomeIn(ps, at)
<1>1. DOMAIN ps = 1 .. l /\ \A p \in FileSystems(ps) : p \in 1 .. l /\ IsPath(ps[p].mp)
    BY DEF OfLayout, OfParts, FileSystems
<1>2. PICK A : A = Above(ps, at)
    OBVIOUS
<1>3. \A p \in A : p \in FileSystems(ps) /\ IsPath(ps[p].mp) /\ IsPrefix(ps[p].mp, at)
    BY <1>1, <1>2 DEF Above
<1>4. A # {}
    <2>1. PICK p \in FileSystems(ps) : ps[p].mp = <<>>
        BY DEF Sound
    <2>2. IsPrefix(ps[p].mp, at)
        BY <2>1, RootPrefix
    <2> QED
        BY <1>2, <2>2 DEF Above
<1>5. PICK n \in Nat : n = Len(at)
    BY PrefixIs
<1>6. \A p \in A : Len(ps[p].mp) \in 0 .. n
    BY <1>3, <1>5, PrefixIs
<1> DEFINE Lens == {Len(ps[p].mp) : p \in A}
<1>7. PICK m \in Lens : \A x \in Lens : x <= m
    <2>1. Lens \in SUBSET (0 .. n) /\ Lens # {}
        BY <1>4, <1>6
    <2> HIDE DEF Lens
    <2> QED
        BY <2>1, Largest
<1>8. PICK p \in A : \A q \in A : Len(ps[q].mp) <= Len(ps[p].mp)
    BY <1>7
<1>9. PICK h : h = HomeIn(ps, at)
    OBVIOUS
<1>10. h \in A /\ \A q \in A : Len(ps[q].mp) <= Len(ps[h].mp)
    BY <1>2, <1>8, <1>9 DEF HomeIn
<1>11. ASSUME NEW q \in A, Len(ps[h].mp) <= Len(ps[q].mp) PROVE q = h
    <2>1. PICK a, b : a = ps[h].mp /\ b = ps[q].mp
        OBVIOUS
    <2>2. IsPath(a) /\ IsPath(b) /\ IsPrefix(a, at) /\ IsPrefix(b, at)
        BY <1>3, <1>10, <2>1
    <2>3. Len(a) \in Nat /\ Len(b) \in Nat /\ Len(a) = Len(b)
        BY <1>10, <1>11, <2>1, <2>2, PrefixIs
    <2>4. \A j \in 1 .. Len(a) : a[j] = at[j]
        BY <2>2, PrefixIs
    <2>5. \A j \in 1 .. Len(b) : b[j] = at[j]
        BY <2>2, PrefixIs
    <2>6. a = b
        BY <2>2, <2>3, <2>4, <2>5, PathsEqual
    <2> QED
        BY <1>3, <1>10, <2>1, <2>6 DEF Sound
<1> QED
    BY <1>2, <1>9, <1>10, <1>11

\* In a sound layout the mounts are sorted by the lengths of their paths.
LEMMA BeforeIs ==
    ASSUME NEW l \in Nat, NEW ps, OfLayout(ps, l), Sound(ps),
           NEW a \in FileSystems(ps), NEW b \in FileSystems(ps)
    PROVE  /\ <<a, b>> \in Before(ps, l) => Len(ps[a].mp) <= Len(ps[b].mp) /\ a # b
           /\ Len(ps[a].mp) < Len(ps[b].mp) => <<a, b>> \in Before(ps, l)
           /\ <<a, b>> \in Before(ps, l) => <<b, a>> \notin Before(ps, l)
<1>1. DOMAIN ps = 1 .. l /\ a \in 1 .. l /\ b \in 1 .. l
    BY DEF OfLayout, OfParts, FileSystems
<1>2. ASSUME NEW p \in FileSystems(ps)
      PROVE  /\ p \in 1 .. l /\ Depths(ps)[p] = Len(ps[p].mp) /\ Len(ps[p].mp) \in Nat
    <2>1. p \in 1 .. l /\ IsPath(ps[p].mp) /\ ps[p].mp # <<"none">>
        BY <1>1 DEF FileSystems, OfLayout, Sound
    <2>2. Len(ps[p].mp) \in Nat
        BY <2>1, PrefixIs
    <2>3. MountDepth(ps[p]) = Len(ps[p].mp)
        <3>1. CASE ps[p].mp = <<>>
            BY <3>1 DEF MountDepth
        <3>2. CASE ps[p].mp # <<>>
            BY <2>1, <3>2 DEF MountDepth, Slashes
        <3> QED
            BY <3>1, <3>2
    <2> QED
        BY <1>1, <2>1, <2>2, <2>3 DEF Depths
<1>3. PICK n \in Nat, m \in Nat :
          n = Len(ps[a].mp) /\ m = Len(ps[b].mp) /\ Depths(ps)[a] = n /\ Depths(ps)[b] = m
    BY <1>2
<1>4. <<a, b>> \in Before(ps, l) <=> (n < m \/ (n = m /\ a < b))
    BY <1>1, <1>3 DEF Before, ByKey
<1>5. <<b, a>> \in Before(ps, l) <=> (m < n \/ (n = m /\ b < a))
    BY <1>1, <1>3 DEF Before, ByKey
<1> QED
    BY <1>1, <1>3, <1>4, <1>5

\* What is written below sorted mounts that include the path's home, goes
\* there: the one mounted last above the path is the deepest.
MountedOver(ps, w, at) == {m \in DOMAIN w : IsPrefix(ps[w[m]].mp, at)}
SortedMounts(ps, l, w) ==
    /\ \A m \in DOMAIN w : w[m] \in FileSystems(ps)
    /\ \A m, o \in DOMAIN w : m < o => <<w[m], w[o]>> \in Before(ps, l)

LEMMA TopIsHome ==
    ASSUME NEW l \in Nat, NEW ps, OfLayout(ps, l), Sound(ps), NEW at, IsPath(at),
           NEW w, NEW n \in Nat, DOMAIN w = 1 .. n, SortedMounts(ps, l, w),
           NEW y \in 1 .. n, w[y] = HomeIn(ps, at)
    PROVE  /\ MountedOver(ps, w, at) # {}
           /\ w[Max(MountedOver(ps, w, at))] = HomeIn(ps, at)
<1>1. PICK h, M : h = HomeIn(ps, at) /\ M = MountedOver(ps, w, at)
    OBVIOUS
<1>2. h \in Above(ps, at)
    BY <1>1, HomeIs
<1>3. y \in M
    BY <1>1, <1>2 DEF MountedOver, Above
<1>4. M \in SUBSET (0 .. n)
    BY <1>1 DEF MountedOver
<1>5. PICK x \in M : x = Max(M) /\ y <= x
    BY <1>3, <1>4, MaxIs
<1>6. x \in 1 .. n /\ w[x] \in FileSystems(ps) /\ IsPrefix(ps[w[x]].mp, at)
    BY <1>1, <1>5 DEF MountedOver, SortedMounts
<1>7. w[x] \in Above(ps, at)
    BY <1>6 DEF Above
<1>8. CASE x = y
    BY <1>1, <1>3, <1>5, <1>8
<1>9. CASE x # y
    <2>1. y < x
        BY <1>4, <1>5, <1>6, <1>9
    <2>2. <<h, w[x]>> \in Before(ps, l) /\ h \in FileSystems(ps)
        BY <1>1, <1>2, <1>6, <2>1 DEF SortedMounts, Above
    <2>3. Len(ps[h].mp) <= Len(ps[w[x]].mp)
        BY <1>6, <2>2, BeforeIs
    <2>4. w[x] = h
        BY <1>1, <1>7, <2>3, HomeIs
    <2> QED
        BY <1>1, <1>3, <1>5, <2>4
<1> QED
    BY <1>8, <1>9
-----------------------------------------------------------------------------
LEMMA OpFields ==
    ASSUME NEW what, NEW x
    PROVE  /\ On(what, x).do = what /\ On(what, x).on = x /\ On(what, x).fatal
           /\ Put(what, x).do = "put" /\ Put(what, x).what = what /\ Put(what, x).at = x
           /\ Put(what, x).fatal
           /\ FromBase(what, x).do = "copy" /\ FromBase(what, x).what = what
           /\ FromBase(what, x).at = x /\ FromBase(what, x).fatal
BY DEF On, Put, FromBase

\* Behind the a - 1st operation of a mount plan, w is what is mounted.
Mounted(ops, w, a) ==
    /\ \A m \in DOMAIN w : \E b \in DOMAIN ops :
           b < a /\ ops[b].do = "mount" /\ ops[b].on = w[m]
    /\ \A b \in DOMAIN ops :
           b < a /\ ops[b].do = "mount" => \E m \in DOMAIN w : w[m] = ops[b].on

\* A mount point is made before its own file system is mounted and behind
\* every other one it is below, so it goes to the home of the path above it.
MakesMountpoint(l, ps, ops, j, a, w) ==
    /\ l \in Nat /\ OfLayout(ps, l) /\ Sound(ps)
    /\ \E k \in Nat : DOMAIN ops = 1 .. k
    /\ MountsSorted(ops, ps, l) /\ MountsAll(ops, ps, l)
    /\ j \in FileSystems(ps) /\ a \in DOMAIN ops /\ MountpointOf(ops, ps, a, j)
    /\ \E n \in Nat : DOMAIN w = 1 .. n
    /\ SortedMounts(ps, l, w) /\ Mounted(ops, w, a)
MadeAtHome(ps, j, w) ==
    /\ ps[j].mp = <<>> => MountedOver(ps, w, ps[j].mp) = {}
    /\ ps[j].mp # <<>> =>
           /\ MountedOver(ps, w, ps[j].mp) # {}
           /\ w[Max(MountedOver(ps, w, ps[j].mp))] = HomeIn(ps, Front(ps[j].mp))
LEMMA MountpointHome ==
    ASSUME NEW l, NEW ps, NEW ops, NEW j, NEW a, NEW w, MakesMountpoint(l, ps, ops, j, a, w)
    PROVE  MadeAtHome(ps, j, w)
<1>0. /\ l \in Nat /\ OfLayout(ps, l) /\ Sound(ps)
      /\ MountsSorted(ops, ps, l) /\ MountsAll(ops, ps, l)
      /\ j \in FileSystems(ps) /\ MountpointOf(ops, ps, a, j)
      /\ SortedMounts(ps, l, w) /\ Mounted(ops, w, a)
    BY DEF MakesMountpoint
<1>9. PICK k \in Nat : DOMAIN ops = 1 .. k /\ a \in 1 .. k
    BY DEF MakesMountpoint
<1>10. PICK n \in Nat : DOMAIN w = 1 .. n
    BY DEF MakesMountpoint
<1>1. /\ DOMAIN ps = 1 .. l /\ j \in 1 .. l
      /\ \A p \in FileSystems(ps) : p \in 1 .. l /\ ps[p].fs # "swap" /\ IsPath(ps[p].mp)
    BY <1>0 DEF OfLayout, OfParts, FileSystems
<1>2. PICK at : at = ps[j].mp /\ IsPath(at)
    BY <1>0, <1>1
<1>3. /\ a + 1 \in 1 .. k /\ ops[a + 1] = On("mount", j) /\ ops[a] = Put("mountpoint", at)
    BY <1>0, <1>2, <1>9 DEF MountpointOf
<1>4. ops[a + 1].do = "mount" /\ ops[a + 1].on = j /\ ops[a].do # "mount"
    <2>1. On("mount", j).do = "mount" /\ On("mount", j).on = j
        BY OpFields
    <2>2. Put("mountpoint", at).do = "put"
        BY OpFields
    <2> QED
        BY ONLY <1>3, <2>1, <2>2
<1>5. ASSUME NEW m \in 1 .. n
      PROVE  w[m] \in FileSystems(ps) /\ w[m] # j
    <2>1. w[m] \in FileSystems(ps)
        BY <1>0, <1>10 DEF SortedMounts
    <2>2. PICK b \in 1 .. k : b < a /\ ops[b].do = "mount" /\ ops[b].on = w[m]
        BY <1>0, <1>9, <1>10 DEF Mounted
    <2>3. b < a + 1
        BY <1>9, <2>2
    <2>4. <<w[m], j>> \in Before(ps, l)
        BY <1>0, <1>3, <1>4, <1>9, <2>2, <2>3 DEF MountsSorted
    <2> QED
        BY <1>0, <2>1, <2>4, BeforeIs
<1>6. \A m \in 1 .. n : IsPath(ps[w[m]].mp) /\ ps[w[m]].mp # at
    BY <1>0, <1>1, <1>2, <1>5 DEF Sound
<1>7. CASE at = <<>>
    <2>1. \A m \in 1 .. n : ~IsPrefix(ps[w[m]].mp, at)
        BY <1>6, <1>7, RootPrefix
    <2>2. MountedOver(ps, w, at) = {}
        BY <1>10, <2>1 DEF MountedOver
    <2> QED
        BY <1>2, <1>7, <2>2 DEF MadeAtHome
<1>8. CASE at # <<>>
    <2>1. PICK f : f = Front(at) /\ IsPath(f) /\ Len(f) = Len(at) - 1 /\ Len(at) \in Nat
        BY <1>2, <1>8, FrontOf
    <2>2. \A m \in 1 .. n : IsPrefix(ps[w[m]].mp, at) <=> IsPrefix(ps[w[m]].mp, f)
        BY <1>2, <1>6, <1>8, <2>1, FrontPrefix
    <2>3. MountedOver(ps, w, at) = MountedOver(ps, w, f)
        BY <1>10, <2>2 DEF MountedOver
    <2>4. PICK h : h = HomeIn(ps, f) /\ h \in FileSystems(ps) /\ IsPrefix(ps[h].mp, f)
        BY <1>0, <2>1, HomeIs DEF Above
    <2>5. Len(ps[h].mp) < Len(at)
        <3>1. Len(ps[h].mp) <= Len(f) /\ Len(ps[h].mp) \in Nat
            BY <1>1, <2>1, <2>4, PrefixIs
        <3> QED
            BY <2>1, <3>1
    <2>6. <<h, j>> \in Before(ps, l) /\ <<j, h>> \notin Before(ps, l) /\ h # j
        <3>1. <<h, j>> \in Before(ps, l)
            BY <1>0, <1>2, <2>4, <2>5, BeforeIs
        <3> QED
            BY <1>0, <2>4, <3>1, BeforeIs
    <2>7. PICK b \in 1 .. k : ops[b] = On("mount", h)
        BY <1>0, <1>1, <1>9, <2>4 DEF MountsAll
    <2>8. ops[b].do = "mount" /\ ops[b].on = h
        BY <2>7, OpFields
    <2>9. b < a
        <3>1. b # a + 1 /\ b # a
            BY <1>4, <2>6, <2>8
        <3>2. ~(a + 1 < b)
            BY <1>0, <1>3, <1>4, <1>9, <2>6, <2>8 DEF MountsSorted
        <3> QED
            BY <1>3, <1>9, <3>1, <3>2
    <2>10. PICK y \in 1 .. n : w[y] = h
        BY <1>0, <1>9, <1>10, <2>8, <2>9 DEF Mounted
    <2>11. /\ MountedOver(ps, w, f) # {}
           /\ w[Max(MountedOver(ps, w, f))] = HomeIn(ps, f)
        BY <1>0, <1>10, <2>1, <2>4, <2>10, TopIsHome
    <2> QED
        BY <1>2, <1>8, <2>1, <2>3, <2>11 DEF MadeAtHome
<1> QED
    BY <1>7, <1>8
-----------------------------------------------------------------------------
\* What a shell plan of n entries does for the layout ps.
Lays(p, ps) ==
    /\ LabelFirst(p[1].ops)
    /\ \A j \in DOMAIN ps : InList(p[1].ops, On("mkpart", j)) /\ InList(p[3].ops, On("mkfs", j))
MountsRight(p, ps, l) ==
    /\ MountsSorted(p[4].ops, ps, l) /\ MountpointsFirst(p[4].ops, ps, l)
    /\ MountsReal(p[4].ops, ps, l) /\ MountsAll(p[4].ops, ps, l)
    /\ MountsPrepared(p[4].ops, ps) /\ SwapsOptional(p[4].ops)
UnmountsRight(p, ps, n) ==
    \A j \in FileSystems(ps) : InList(p[n].ops, On("unmount", j))
\* Somewhere in the first n entries.
Somewhere(p, n, y) == \E m \in 1 .. n : InList(p[m].ops, y)
LoaderSomewhere(p, n, at) == \E m \in 1 .. n : LoaderIn(p[m].ops, at)
Equips(p, c, n) ==
    /\ Somewhere(p, n, Put("base", <<>>)) /\ LoaderSomewhere(p, n, LoaderAt(c))
    /\ c.boot = "gnoboot" => Somewhere(p, n, FromBase("kernel", Esp))
    /\ c.user # {} => Somewhere(p, n, FromBase("account", <<"etc">>))
    /\ Somewhere(p, n, Put("fstab", <<"etc">>)) /\ Somewhere(p, n, Marker)
ShellPlan(p, c, l, n) ==
    /\ n \in {12, 13} /\ DOMAIN p = 1 .. n /\ Len(p) = n
    /\ OfKinds(p, l, n) /\ Lays(p, c.parts) /\ MountsRight(p, c.parts, l)
    /\ UnmountsRight(p, c.parts, n) /\ Equips(p, c, n)

LEMMA ShellPlanned ==
    ASSUME NEW c, NEW l \in Nat, OfLayout(c.parts, l)
    PROVE  \E n \in {12, 13} : ShellPlan(full_execution_plan(c), c, l, n)
<1>1. PICK p : p = full_execution_plan(c)
    OBVIOUS
<1>2. PICK n \in {12, 13} : ShellEntries(p, c, n)
    BY <1>1, ShellListed
<1>3. /\ p[1].ops = PartitionPlan(c) /\ p[3].ops = FormatPlan(c) /\ p[4].ops = MountPlan(c)
      /\ p[5].ops = BasePlan(c) /\ p[7].ops = BootloaderPlan(c)
      /\ c.user # {} => p[8].ops = UserPlan(c) /\ n = 13
      /\ p[n - 3].ops = LocalePlan(c) /\ p[n - 1].ops = FirstBootPlan(c)
      /\ p[n].ops = CleanupPlan(c)
    BY <1>2 DEF ShellEntries, Phase
<1>4. DOMAIN c.parts = 1 .. l
    BY DEF OfLayout, OfParts
<1>5. OfKinds(p, l, n)
    BY <1>2, ShellUses
<1>6. Lays(p, c.parts)
    BY <1>3, <1>4, LabelledFirst, FormatsAll DEF Lays
<1>7. MountsRight(p, c.parts, l)
    BY <1>3, MountsPlanned DEF MountsRight
<1>8. UnmountsRight(p, c.parts, n)
    BY <1>3, UnmountsAll DEF UnmountsRight
<1>9. Equips(p, c, n)
    <2>1. 5 \in 1 .. n /\ 7 \in 1 .. n /\ 8 \in 1 .. n /\ n - 3 \in 1 .. n /\ n - 1 \in 1 .. n
        OBVIOUS
    <2>2. /\ InList(p[5].ops, Put("base", <<>>)) /\ LoaderIn(p[7].ops, LoaderAt(c))
          /\ c.boot = "gnoboot" => InList(p[7].ops, FromBase("kernel", Esp))
          /\ c.user # {} => InList(p[8].ops, FromBase("account", <<"etc">>))
          /\ InList(p[n - 3].ops, Put("fstab", <<"etc">>)) /\ InList(p[n - 1].ops, Marker)
        BY <1>3, BasePlanned, LoaderPlanned, AccountPlanned, FstabPlanned, MarkerPlanned
    <2> QED
        BY <2>1, <2>2 DEF Equips, Somewhere, LoaderSomewhere
<1>10. DOMAIN p = 1 .. n /\ Len(p) = n
    BY <1>2 DEF ShellEntries
<1> QED
    BY <1>1, <1>5, <1>6, <1>7, <1>8, <1>9, <1>10 DEF ShellPlan
-----------------------------------------------------------------------------
\* What a native plan does, for the two partitions of its layout.
NativeWriting == WritingFstab \cup {<<"put", "agnsh">>}
NativeKindsAt(m) ==
    IF m = 1 THEN {<<"gpt", "">>} ELSE IF m = 2 THEN Formatting ELSE NativeWriting
NativeOfKinds(p) ==
    \A m \in 1 .. 8 : /\ Uses(p[m].ops, 2, NativeKindsAt(m))
                      /\ p[m].phase \in PARTITION .. CLEANUP
NativeLays(p) ==
    InList(p[1].ops, On("gpt", 0)) /\ \A j \in 1 .. 2 : InList(p[2].ops, On("mkfs", j))
NativeEquips(p) ==
    /\ InList(p[3].ops, Put("base", <<>>)) \/ InList(p[3].ops, Put("agnsh", <<"bin">>))
    /\ InList(p[8].ops, Put("loader", Esp)) /\ InList(p[8].ops, Put("kernel", Esp))
    /\ InList(p[5].ops, Put("fstab", <<"etc">>)) /\ InList(p[7].ops, Marker)
NativePlan(p) ==
    DOMAIN p = 1 .. 8 /\ Len(p) = 8 /\ NativeOfKinds(p) /\ NativeLays(p) /\ NativeEquips(p)

LEMMA InTwo ==
    ASSUME NEW x, NEW y
    PROVE  InList(<<x, y>>, x) /\ InList(<<x, y>>, y)
<1>1. PICK s : s = <<x, y>>
    OBVIOUS
<1>2. 1 \in DOMAIN s /\ 2 \in DOMAIN s /\ s[1] = x /\ s[2] = y
    BY <1>1
<1> QED
    BY <1>1, <1>2 DEF InList

LEMMA NativePlanned ==
    ASSUME NEW c
    PROVE  NativePlan(plan_native_disk_ops(c))
<1>1. PICK e1, e2, e3, e4, e5, e6, e7, e8 :
          /\ e1 = Phase(PARTITION, <<On("gpt", 0)>>)
          /\ e2 = Phase(FORMAT, <<On("mkfs", 1), On("mkfs", 2)>>)
          /\ e3 = Phase(BASE, <<IF c.tarball THEN Put("base", <<>>) ELSE Put("agnsh", <<"bin">>)>>)
          /\ e4 = Phase(CONFIGURE, NetworkPlan(c)) /\ e5 = Phase(CONFIGURE, LocalePlan(c))
          /\ e6 = Phase(SECURITY, SecurityPlan(c)) /\ e7 = Phase(FIRST_BOOT, <<Marker>>)
          /\ e8 = Phase(BOOTLOADER, <<Put("loader", Esp), Put("kernel", Esp)>>)
    OBVIOUS
<1>2. PICK p : p = plan_native_disk_ops(c)
    OBVIOUS
<1>3. p = <<e1, e2, e3, e4, e5, e6, e7, e8>>
    BY <1>1, <1>2 DEF plan_native_disk_ops
<1>4. DOMAIN p = 1 .. 8 /\ Len(p) = 8
      /\ p[1] = e1 /\ p[2] = e2 /\ p[3] = e3 /\ p[4] = e4 /\ p[5] = e5 /\ p[6] = e6
      /\ p[7] = e7 /\ p[8] = e8
    BY <1>3
<1>5. PICK base : base = (IF c.tarball THEN Put("base", <<>>) ELSE Put("agnsh", <<"bin">>))
    OBVIOUS
<1>6. /\ p[1].ops = <<On("gpt", 0)>> /\ p[2].ops = <<On("mkfs", 1), On("mkfs", 2)>>
      /\ p[3].ops = <<base>>
      /\ p[4].ops = NetworkPlan(c) /\ p[5].ops = LocalePlan(c) /\ p[6].ops = SecurityPlan(c)
      /\ p[7].ops = <<Marker>> /\ p[8].ops = <<Put("loader", Esp), Put("kernel", Esp)>>
    BY <1>1, <1>4, <1>5 DEF Phase
<1>7. /\ p[1].phase = PARTITION /\ p[2].phase = FORMAT /\ p[3].phase = BASE
      /\ p[4].phase = CONFIGURE /\ p[5].phase = CONFIGURE /\ p[6].phase = SECURITY
      /\ p[7].phase = FIRST_BOOT /\ p[8].phase = BOOTLOADER
    BY <1>1, <1>4 DEF Phase
<1>8. \A m \in 1 .. 8 : m = 1 \/ m = 2 \/ m = 3 \/ m = 4 \/ m = 5 \/ m = 6 \/ m = 7 \/ m = 8
    OBVIOUS
<1>9. \A m \in 1 .. 8 : p[m].phase \in PARTITION .. CLEANUP
    BY <1>7, <1>8 DEF PARTITION, FORMAT, BASE, CONFIGURE, SECURITY, FIRST_BOOT, BOOTLOADER, CLEANUP
<1>10. Uses(p[1].ops, 2, {<<"gpt", "">>})
    <2>1. Kind(On("gpt", 0)) \in {<<"gpt", "">>} /\ Fits(On("gpt", 0), 2)
        BY OnFits DEF PerPartition
    <2> QED
        BY <1>6, <2>1, UsesOne
<1>11. Uses(p[2].ops, 2, Formatting)
    <2>1. /\ Kind(On("mkfs", 1)) \in Formatting /\ Fits(On("mkfs", 1), 2)
          /\ Kind(On("mkfs", 2)) \in Formatting /\ Fits(On("mkfs", 2), 2)
        <3>1. 1 \in 1 .. 2 /\ 2 \in 1 .. 2
            OBVIOUS
        <3> QED
            BY <3>1, OnFits DEF Formatting
    <2> QED
        BY <1>6, <2>1, UsesTwo
<1>12. Writing \subseteq NativeWriting /\ WritingFstab \subseteq NativeWriting
    BY DEF WritingFstab, NativeWriting
<1>13. ASSUME NEW ops, Uses(ops, 2, Writing) \/ Uses(ops, 2, WritingFstab)
       PROVE  Uses(ops, 2, NativeWriting)
    BY <1>12, <1>13, UsesMore
<1>14. /\ Uses(p[4].ops, 2, NativeWriting) /\ Uses(p[5].ops, 2, NativeWriting)
       /\ Uses(p[6].ops, 2, NativeWriting)
    BY <1>6, <1>13, NetworkUses, LocaleUses, SecurityUses
<1>15. Uses(p[3].ops, 2, NativeWriting)
    <2>1. Kind(base) \in NativeWriting /\ Fits(base, 2)
        <3>1. CASE c.tarball
            BY <1>5, <1>12, <3>1, WordsListed, PathsListed, PutWrites
        <3>2. CASE ~c.tarball
            <4>1. base = Put("agnsh", <<"bin">>)
                BY <1>5, <3>2
            <4>2. Kind(base) = <<"put", "agnsh">>
                BY <4>1 DEF Kind, Put
            <4>3. Fits(base, 2)
                BY <4>1, PathsListed DEF Fits, Put, PerPartition
            <4> QED
                BY <4>2, <4>3 DEF NativeWriting
        <3> QED
            BY <3>1, <3>2
    <2> QED
        BY <1>6, <2>1, UsesOne
<1>16. Uses(p[7].ops, 2, NativeWriting) /\ Uses(p[8].ops, 2, NativeWriting)
    <2>1. Kind(Marker) \in Writing /\ Fits(Marker, 2)
        BY WordsListed, PathsListed, PutWrites DEF Marker
    <2>2. Uses(<<Marker>>, 2, Writing)
        BY <2>1, UsesOne
    <2>3. Uses(<<Put("loader", Esp), Put("kernel", Esp)>>, 2, Writing)
        BY WordsListed, PathsListed, PutWrites, UsesTwo
    <2> QED
        BY <1>6, <1>13, <2>2, <2>3
<1>17. NativeOfKinds(p)
    <2>1. /\ NativeKindsAt(1) = {<<"gpt", "">>} /\ NativeKindsAt(2) = Formatting
          /\ \A m \in 3 .. 8 : NativeKindsAt(m) = NativeWriting
        BY DEF NativeKindsAt
    <2>2. ASSUME NEW m \in 1 .. 8 PROVE Uses(p[m].ops, 2, NativeKindsAt(m))
        <3>1. CASE m = 1
            BY <1>10, <2>1, <3>1
        <3>2. CASE m = 2
            BY <1>11, <2>1, <3>2
        <3>3. CASE m \in 3 .. 8
            <4>1. Uses(p[m].ops, 2, NativeWriting)
                BY <1>8, <1>14, <1>15, <1>16, <3>3
            <4> QED
                BY <2>1, <3>3, <4>1
        <3> QED
            BY <3>1, <3>2, <3>3
    <2> QED
        BY <1>9, <2>2 DEF NativeOfKinds
<1>18. NativeLays(p)
    <2>1. InList(p[1].ops, On("gpt", 0))
        BY <1>6, InOne
    <2>2. InList(p[2].ops, On("mkfs", 1)) /\ InList(p[2].ops, On("mkfs", 2))
        BY <1>6, InTwo
    <2>3. \A j \in 1 .. 2 : j = 1 \/ j = 2
        OBVIOUS
    <2> QED
        BY <2>1, <2>2, <2>3 DEF NativeLays
<1>19. NativeEquips(p)
    <2>1. base = Put("base", <<>>) \/ base = Put("agnsh", <<"bin">>)
        BY <1>5
    <2>2. InList(p[3].ops, Put("base", <<>>)) \/ InList(p[3].ops, Put("agnsh", <<"bin">>))
        BY <1>6, <2>1, InOne
    <2>3. InList(p[8].ops, Put("loader", Esp)) /\ InList(p[8].ops, Put("kernel", Esp))
        BY <1>6, InTwo
    <2>4. InList(p[5].ops, Put("fstab", <<"etc">>)) /\ InList(p[7].ops, Marker)
        BY <1>6, FstabPlanned, InOne
    <2> QED
        BY <2>2, <2>3, <2>4 DEF NativeEquips
<1> QED
    BY <1>2, <1>4, <1>17, <1>18, <1>19 DEF NativePlan
-----------------------------------------------------------------------------
(* Commands in turn.  Those of one kind come in the order of their         *)
(* partitions: those that make them by number, those that unmount them by  *)
(* slashes.                                                                *)
InTurn(ops, cmd, R) ==
    \A a, b \in DOMAIN ops :
        a < b /\ ops[a].do = cmd /\ ops[b].do = cmd => <<ops[a].on, ops[b].on>> \in R
Never(ops, cmd) == \A a \in DOMAIN ops : ops[a].do # cmd
\* A flag is set on a partition that has been made.
SetsBehind(ops) ==
    \A b \in DOMAIN ops : ops[b].do = "set" =>
        \E a \in DOMAIN ops : a < b /\ ops[a].do = "mkpart" /\ ops[a].on = ops[b].on

LEMMA JoinIsAt ==
    ASSUME NEW s, NEW t, IsList(s), IsList(t)
    PROVE  \E n, k \in Nat : /\ DOMAIN s = 1 .. n /\ DOMAIN t = 1 .. k
                             /\ IsJoined(s \o t, s, t, n, k) /\ IsList(s \o t)
<1>1. PICK A, B : s \in Seq(A) /\ t \in Seq(B)
    BY DEF IsList
<1>2. PICK S : S = A \cup B
    OBVIOUS
<1>3. s \in Seq(S) /\ t \in Seq(S)
    BY <1>1, <1>2
<1>4. PICK n \in Nat : n = Len(s)
    BY <1>3
<1>5. PICK k \in Nat : k = Len(t)
    BY <1>3
<1>6. IsJoined(s \o t, s, t, n, k)
    BY <1>3, <1>4, <1>5, JoinedAt
<1>7. DOMAIN s = 1 .. n /\ DOMAIN t = 1 .. k
    BY <1>3, <1>4, <1>5
<1>8. IsList(s \o t)
    BY ListsJoined
<1> QED
    BY <1>6, <1>7, <1>8

LEMMA TurnsJoined ==
    ASSUME NEW s, NEW t, IsList(s), IsList(t), NEW cmd, NEW R
    PROVE  /\ Never(s, cmd) /\ Never(t, cmd) => Never(s \o t, cmd)
           /\ Never(s, cmd) /\ InTurn(t, cmd, R) => InTurn(s \o t, cmd, R)
           /\ InTurn(s, cmd, R) /\ Never(t, cmd) => InTurn(s \o t, cmd, R)
<1>1. PICK n \in Nat : \E k \in Nat : /\ DOMAIN s = 1 .. n /\ DOMAIN t = 1 .. k
                                      /\ IsJoined(s \o t, s, t, n, k)
    BY JoinIsAt
<1>2. PICK k \in Nat : /\ DOMAIN s = 1 .. n /\ DOMAIN t = 1 .. k
                       /\ IsJoined(s \o t, s, t, n, k)
    BY <1>1
<1>3. PICK u : u = s \o t
    OBVIOUS
<1>4. /\ DOMAIN u = 1 .. n + k
      /\ \A a \in 1 .. n : u[a] = s[a]
      /\ \A a \in 1 .. k : u[n + a] = t[a]
      /\ \A a \in 1 .. n + k : a \in 1 .. n \/ \E b \in 1 .. k : a = n + b
    BY <1>2, <1>3 DEF IsJoined
<1>8. ASSUME NEW a \in 1 .. n + k
      PROVE  (a \in 1 .. n /\ u[a] = s[a]) \/ \E c \in 1 .. k : u[a] = t[c]
    BY <1>4
<1>5. Never(s, cmd) /\ Never(t, cmd) => Never(u, cmd)
    <2> SUFFICES ASSUME Never(s, cmd), Never(t, cmd), NEW a \in 1 .. n + k
                 PROVE  u[a].do # cmd
        BY <1>4 DEF Never
    <2> QED
        BY <1>2, <1>8 DEF Never
<1>6. ASSUME Never(s, cmd), InTurn(t, cmd, R) PROVE InTurn(u, cmd, R)
    <2> SUFFICES ASSUME NEW a \in 1 .. n + k, NEW b \in 1 .. n + k, a < b,
                        u[a].do = cmd, u[b].do = cmd
                 PROVE  <<u[a].on, u[b].on>> \in R
        BY <1>4 DEF InTurn
    <2>1. a \notin 1 .. n /\ b \notin 1 .. n
        BY <1>2, <1>4, <1>6 DEF Never
    <2>2. PICK c \in 1 .. k : a = n + c
        BY <1>4, <2>1
    <2>3. PICK d \in 1 .. k : b = n + d
        BY <1>4, <2>1
    <2>4. c < d /\ u[a] = t[c] /\ u[b] = t[d]
        BY <1>4, <2>2, <2>3
    <2> QED
        BY <1>2, <1>6, <2>4 DEF InTurn
<1>7. ASSUME InTurn(s, cmd, R), Never(t, cmd) PROVE InTurn(u, cmd, R)
    <2> SUFFICES ASSUME NEW a \in 1 .. n + k, NEW b \in 1 .. n + k, a < b,
                        u[a].do = cmd, u[b].do = cmd
                 PROVE  <<u[a].on, u[b].on>> \in R
        BY <1>4 DEF InTurn
    <2>1. a \in 1 .. n /\ b \in 1 .. n
        BY <1>2, <1>7, <1>8 DEF Never
    <2>2. u[a] = s[a] /\ u[b] = s[b]
        BY <1>4, <2>1
    <2> QED
        BY <1>2, <1>7, <2>1, <2>2 DEF InTurn
<1> QED
    BY <1>3, <1>5, <1>6, <1>7

LEMMA ListOfLists ==
    ASSUME NEW n \in Nat, NEW s, Spelled(s, n), \A j \in 1 .. n : IsList(s[j])
    PROVE  \E S : s \in Seq(Seq(S)) /\ DOMAIN s = 1 .. n
<1> DEFINE Elements(j) == {s[j][m] : m \in DOMAIN s[j]}
           S == UNION {Elements(j) : j \in 1 .. n}
<1>1. ASSUME NEW j \in 1 .. n PROVE s[j] \in Seq(S)
    <2>1. PICK l \in Nat : s[j] = [m \in 1 .. l |-> s[j][m]] /\ DOMAIN s[j] = 1 .. l
        BY ListIs
    <2>2. \A m \in 1 .. l : s[j][m] \in Elements(j)
        BY <2>1
    <2>3. Elements(j) \subseteq S
        OBVIOUS
    <2>4. s[j] \in [1 .. l -> S]
        <3> HIDE DEF S, Elements
        <3> QED
            BY <2>1, <2>2, <2>3
    <2> HIDE DEF S
    <2> QED
        BY ONLY <2>4, l \in Nat
<1> HIDE DEF S
<1>2. s \in Seq(Seq(S)) /\ DOMAIN s = 1 .. n
    BY <1>1 DEF Spelled
<1> QED
    BY <1>2

\* Lists that begin with the command, and have no other of it.
Leads(x, cmd, j) ==
    IsList(x) /\ \A q \in DOMAIN x : x[q].do = cmd => q = 1 /\ x[q].on = j
LEMMA TurnsFlattened ==
    ASSUME NEW n \in Nat, NEW s, Spelled(s, n), NEW cmd, NEW o, NEW R,
           \A j \in 1 .. n : Leads(s[j], cmd, o[j]),
           \A a, b \in 1 .. n : a < b => <<o[a], o[b]>> \in R
    PROVE  InTurn(FlattenSeq(s), cmd, R)
<1>1. PICK S : s \in Seq(Seq(S)) /\ DOMAIN s = 1 .. n
    BY ListOfLists DEF Leads
<1>2. PICK t : t = FlattenSeq(s)
    OBVIOUS
<1>3. PICK J, Q : Places(t, s, J, Q, Len(t))
    BY <1>1, <1>2, PlacesExist
<1>4. PICK k \in Nat : k = Len(t) /\ DOMAIN t = 1 .. k
    <2>1. t \in Seq(S)
        <3>1. <<>> \in Seq(S)
            OBVIOUS
        <3> QED
            BY <1>1, <1>2, <3>1, FlattenAppend
    <2> QED
        BY <2>1
<1>5. Reads(t, s, J, Q) /\ Follow(J, Q, k) /\ J \in [1 .. k -> Nat] /\ Q \in [1 .. k -> Nat]
    BY <1>3, <1>4 DEF Places
<1>6. ASSUME NEW a \in 1 .. k, t[a].do = cmd
      PROVE  J[a] \in 1 .. n /\ Q[a] = 1 /\ t[a].on = o[J[a]]
    <2>1. J[a] \in 1 .. n /\ Q[a] \in DOMAIN s[J[a]] /\ t[a] = s[J[a]][Q[a]]
        BY <1>1, <1>4, <1>5 DEF Reads, ReadAt
    <2> QED
        BY <1>6, <2>1 DEF Leads
<1>7. ASSUME NEW a \in 1 .. k, NEW b \in 1 .. k, a < b, t[a].do = cmd, t[b].do = cmd
      PROVE  <<t[a].on, t[b].on>> \in R
    <2>1. J[a] < J[b] \/ (J[a] = J[b] /\ Q[b] = Q[a] + (b - a))
        BY <1>5, <1>7 DEF Follow
    <2>2. PICK x \in 1 .. n : x = J[a] /\ Q[a] = 1 /\ t[a].on = o[x]
        BY <1>6, <1>7
    <2>3. PICK y \in 1 .. n : y = J[b] /\ Q[b] = 1 /\ t[b].on = o[y]
        BY <1>6, <1>7
    <2>4. x < y
        BY <1>7, <2>1, <2>2, <2>3
    <2> QED
        BY <2>2, <2>3, <2>4
<1> QED
    BY <1>2, <1>4, <1>7 DEF InTurn

\* Partitions are made by number, their flags set behind that.
MadeAndSet(x, j) ==
    /\ IsList(x) /\ 1 \in DOMAIN x
    /\ \A q \in DOMAIN x : x[q].on = j /\ (IF q = 1 THEN x[q].do = "mkpart" ELSE x[q].do = "set")
LEMMA SetsFlattened ==
    ASSUME NEW n \in Nat, NEW s, Spelled(s, n), \A j \in 1 .. n : MadeAndSet(s[j], j)
    PROVE  SetsBehind(FlattenSeq(s))
<1>1. PICK S : s \in Seq(Seq(S)) /\ DOMAIN s = 1 .. n
    BY ListOfLists DEF MadeAndSet
<1>2. PICK t : t = FlattenSeq(s)
    OBVIOUS
<1>3. PICK J, Q : Places(t, s, J, Q, Len(t))
    BY <1>1, <1>2, PlacesExist
<1>4. PICK k \in Nat : k = Len(t) /\ DOMAIN t = 1 .. k
    <2>1. t \in Seq(S)
        <3>1. <<>> \in Seq(S)
            OBVIOUS
        <3> QED
            BY <1>1, <1>2, <3>1, FlattenAppend
    <2> QED
        BY <2>1
<1>5. /\ Reads(t, s, J, Q) /\ Follow(J, Q, k) /\ Reaches(s, J, Q, k)
      /\ J \in [1 .. k -> Nat] /\ Q \in [1 .. k -> Nat]
    BY <1>3, <1>4 DEF Places
<1>6. ASSUME NEW b \in 1 .. k, t[b].do = "set"
      PROVE  \E a \in 1 .. k : a < b /\ t[a].do = "mkpart" /\ t[a].on = t[b].on
    <2>1. PICK j \in 1 .. n : j = J[b] /\ Q[b] \in DOMAIN s[j] /\ t[b] = s[j][Q[b]]
        BY <1>1, <1>4, <1>5 DEF Reads, ReadAt
    <2>2. t[b].on = j /\ Q[b] # 1 /\ 1 \in DOMAIN s[j] /\ s[j][1].do = "mkpart" /\ s[j][1].on = j
        BY <1>6, <2>1 DEF MadeAndSet
    <2>3. PICK m \in Nat : DOMAIN s[j] = 1 .. m
        BY ListIs DEF MadeAndSet
    <2>4. PICK a \in 1 .. k : J[a] = j /\ Q[a] = 1
        <3>1. j \in DOMAIN s /\ 1 \in DOMAIN s[j]
            BY <1>1, <2>2
        <3>2. PICK q : q = 1
            OBVIOUS
        <3>3. \E a \in 1 .. k : J[a] = j /\ Q[a] = q
            BY <1>5, <3>1, <3>2 DEF Reaches
        <3> QED
            BY <3>2, <3>3
    <2>5. t[a] = s[j][1]
        BY <1>4, <1>5, <2>4 DEF Reads, ReadAt
    <2>6. a < b
        <3>1. Q[b] \in Nat /\ Q[b] > 1
            BY <2>1, <2>2, <2>3
        <3>2. b < a => FALSE
            <4> SUFFICES ASSUME b < a PROVE FALSE
                OBVIOUS
            <4>1. J[b] < J[a] \/ (J[b] = J[a] /\ Q[a] = Q[b] + (a - b))
                BY <1>5 DEF Follow
            <4> QED
                BY <2>1, <2>4, <3>1, <4>1
        <3>3. a # b
            BY <2>4, <2>2
        <3> QED
            BY <3>2, <3>3
    <2> QED
        BY <2>2, <2>5, <2>6
<1> QED
    BY <1>2, <1>4, <1>6 DEF SetsBehind

LEMMA SetsJoined ==
    ASSUME NEW s, NEW t, IsList(s), IsList(t), Never(s, "set"), SetsBehind(t)
    PROVE  SetsBehind(s \o t)
<1>1. PICK n \in Nat : \E k \in Nat : /\ DOMAIN s = 1 .. n /\ DOMAIN t = 1 .. k
                                      /\ IsJoined(s \o t, s, t, n, k)
    BY JoinIsAt
<1>2. PICK k \in Nat : /\ DOMAIN s = 1 .. n /\ DOMAIN t = 1 .. k
                       /\ IsJoined(s \o t, s, t, n, k)
    BY <1>1
<1>3. PICK u : u = s \o t
    OBVIOUS
<1>4. /\ DOMAIN u = 1 .. n + k
      /\ \A a \in 1 .. n : u[a] = s[a]
      /\ \A a \in 1 .. k : n + a \in 1 .. n + k /\ u[n + a] = t[a]
      /\ \A a \in 1 .. n + k : a \in 1 .. n \/ \E b \in 1 .. k : a = n + b
    BY <1>2, <1>3 DEF IsJoined
<1>5. ASSUME NEW b \in 1 .. n + k, u[b].do = "set"
      PROVE  \E a \in 1 .. n + k : a < b /\ u[a].do = "mkpart" /\ u[a].on = u[b].on
    <2>1. b \notin 1 .. n
        BY <1>2, <1>4, <1>5 DEF Never
    <2>2. PICK d \in 1 .. k : b = n + d /\ u[b] = t[d]
        BY <1>4, <2>1
    <2>3. PICK e \in 1 .. k : e < d /\ t[e].do = "mkpart" /\ t[e].on = t[d].on
        BY <1>2, <1>5, <2>2 DEF SetsBehind
    <2>4. n + e \in 1 .. n + k /\ n + e < b /\ u[n + e] = t[e]
        BY <1>4, <2>2, <2>3
    <2> QED
        BY <2>2, <2>3, <2>4
<1> QED
    BY <1>3, <1>4, <1>5 DEF SetsBehind

LEMMA PartitionsInTurn ==
    ASSUME NEW c, NEW l \in Nat, OfLayout(c.parts, l)
    PROVE  InTurn(PartitionPlan(c), "mkpart", Smaller) /\ SetsBehind(PartitionPlan(c))
<1> DEFINE s == [j \in 1 .. l |-> <<On("mkpart", j)>> \o [f \in 1 .. c.parts[j].flags |-> On("set", j)]]
<1>1. DOMAIN c.parts = 1 .. l
    BY DEF OfLayout, OfParts
<1>2. PartitionPlan(c) = <<On("mklabel", 0)>> \o FlattenSeq(s)
    BY <1>1 DEF PartitionPlan, ForEach, InOrder
<1>3. ASSUME NEW j \in 1 .. l PROVE MadeAndSet(s[j], j)
    <2>1. PICK n \in Nat : n = c.parts[j].flags
        BY DEF OfLayout
    <2> DEFINE t == [f \in 1 .. n |-> On("set", j)]
    <2>2. Spelled(t, n) /\ \A f \in 1 .. n : t[f] = On("set", j)
        BY DEF Spelled
    <2>3. s[j] = <<On("mkpart", j)>> \o t
        BY <2>1
    <2>4. DOMAIN t = 1 .. n
        OBVIOUS
    <2> HIDE DEF s, t
    <2>5. PICK x, y, u : x = On("mkpart", j) /\ y = <<x>> /\ u = y \o t
        OBVIOUS
    <2>6. IsList(t) /\ IsList(y)
        BY <2>2, <2>5, SpelledIs, ShortLists
    <2>7. PICK m \in Nat : \E k \in Nat : /\ DOMAIN y = 1 .. m /\ DOMAIN t = 1 .. k
                                          /\ IsJoined(u, y, t, m, k) /\ IsList(u)
        BY <2>5, <2>6, JoinIsAt
    <2>8. PICK k \in Nat : /\ DOMAIN y = 1 .. m /\ DOMAIN t = 1 .. k
                           /\ IsJoined(u, y, t, m, k) /\ IsList(u)
        BY <2>7
    <2>9. m = 1 /\ y[1] = x
        BY <2>5, <2>8
    <2>10. /\ DOMAIN u = 1 .. 1 + k /\ u[1] = x
           /\ \A q \in DOMAIN u : q # 1 => u[q] = On("set", j)
        <3>1. DOMAIN u = 1 .. m + k /\ (\A q \in 1 .. m : u[q] = y[q])
              /\ (\A q \in 1 .. k : u[m + q] = t[q])
              /\ \A q \in 1 .. m + k : q \in 1 .. m \/ \E b \in 1 .. k : q = m + b
            BY <2>8 DEF IsJoined
        <3>2. 1 \in 1 .. m
            BY <2>9
        <3>3. ASSUME NEW q \in 1 .. m + k, q # 1 PROVE u[q] = On("set", j)
            <4>1. PICK b \in 1 .. k : q = m + b
                BY <2>9, <3>1, <3>3
            <4>2. u[q] = t[b]
                BY <3>1, <4>1
            <4>3. b \in 1 .. n
                BY <2>4, <2>8
            <4> QED
                BY <2>2, <4>2, <4>3
        <3> QED
            BY <2>9, <3>1, <3>2, <3>3
    <2>11. On("mkpart", j).do = "mkpart" /\ On("mkpart", j).on = j
           /\ On("set", j).do = "set" /\ On("set", j).on = j
        BY OpFields
    <2>12. MadeAndSet(u, j)
        BY <2>5, <2>8, <2>10, <2>11 DEF MadeAndSet
    <2> QED
        BY <2>3, <2>5, <2>12
<1>4. Spelled(s, l)
    BY DEF Spelled
<1> HIDE DEF s
<1> DEFINE o == [j \in 1 .. l |-> j]
<1>5. \A j \in 1 .. l : Leads(s[j], "mkpart", o[j])
    BY <1>3 DEF Leads, MadeAndSet
<1>6. \A a, b \in 1 .. l : a < b => <<o[a], o[b]>> \in Smaller
    BY DEF Smaller
<1> HIDE DEF o
<1>7. PICK t : t = FlattenSeq(s)
    OBVIOUS
<1>8. InTurn(t, "mkpart", Smaller)
    BY <1>4, <1>5, <1>6, <1>7, TurnsFlattened
<1>9. SetsBehind(t)
    BY <1>3, <1>4, <1>7, SetsFlattened
<1>10. IsList(t)
    BY <1>3, <1>4, <1>7, InFlattened DEF MadeAndSet
<1>11. PICK x, y : x = On("mklabel", 0) /\ y = <<x>>
    OBVIOUS
<1>12. IsList(y) /\ Never(y, "mkpart") /\ Never(y, "set")
    <2>1. x.do = "mklabel"
        BY <1>11, OpFields
    <2>2. \A q \in DOMAIN y : y[q] = x
        BY <1>11
    <2> QED
        BY <1>11, <2>1, <2>2, ShortLists DEF Never
<1>13. InTurn(y \o t, "mkpart", Smaller)
    BY <1>8, <1>10, <1>12, TurnsJoined
<1>14. SetsBehind(y \o t)
    BY <1>9, <1>10, <1>12, SetsJoined
<1> QED
    BY <1>2, <1>7, <1>11, <1>13, <1>14

LEMMA NeverIn ==
    ASSUME NEW s, NEW cmd
    PROVE  Never(s, cmd) <=> \A x : InList(s, x) => x.do # cmd
BY DEF Never, InList

\* Whatever is unmounted is a file system, the highest first.
UnmountsOnly(ops, F) == \A x : InList(ops, x) /\ x.do = "unmount" => x.on \in F
LEMMA OnlyJoined ==
    ASSUME NEW s, NEW t, IsList(s), IsList(t), NEW F
    PROVE  /\ UnmountsOnly(s, F) /\ UnmountsOnly(t, F) => UnmountsOnly(s \o t, F)
           /\ Never(s, "unmount") => UnmountsOnly(s, F)
<1>1. \A x : InList(s \o t, x) <=> InList(s, x) \/ InList(t, x)
    BY InListsJoined
<1>2. Never(s, "unmount") => UnmountsOnly(s, F)
    BY NeverIn DEF UnmountsOnly
<1> QED
    BY <1>1, <1>2 DEF UnmountsOnly

UnmountTurns(ps) == ByKey(FileSystems(ps), Heights(ps))
LEMMA UnmountsInTurn ==
    ASSUME NEW c, NEW l \in Nat, OfLayout(c.parts, l)
    PROVE  /\ InTurn(CleanupPlan(c), "unmount", UnmountTurns(c.parts))
           /\ UnmountsOnly(CleanupPlan(c), FileSystems(c.parts))
<1>1. DOMAIN c.parts = 1 .. l
    BY DEF OfLayout, OfParts
<1>2. PICK o : o = CleanupOrder(c.parts)
    OBVIOUS
<1>3. PICK F, R : F = FileSystems(c.parts) /\ R = UnmountTurns(c.parts)
    OBVIOUS
<1>4. F \in SUBSET (1 .. l)
    BY <1>1, <1>3 DEF FileSystems
<1>5. PICK n \in Nat : n = Cardinality(F)
    BY <1>4, SmallSets
<1>6. Sorts(o, F, R)
    BY <1>2, <1>3, CleanupOrderSorts DEF OfLayout, UnmountTurns
<1>7. o \in [1 .. n -> F] /\ \A a, b \in 1 .. n : a < b => <<o[a], o[b]>> \in R
    BY <1>5, <1>6 DEF Sorts
<1> DEFINE s == [m \in 1 .. n |-> <<On("unmount", o[m])>>]
           t == [j \in 1 .. l |-> If(c.parts[j].fs = "swap", <<NonFatal(On("release", j))>>)]
           a == <<Nothing>>
           d == If(c.encrypt, <<NonFatal(On("release", 0))>>)
<1>8. CleanupPlan(c) = a \o FlattenSeq(s) \o FlattenSeq(t) \o d
    BY <1>1, <1>2, <1>7 DEF CleanupPlan, ForEach, InOrder
<1>9. IsList(a) /\ IsList(d) /\ \A j \in 1 .. l : IsList(t[j])
    BY ShortLists DEF If
<1>10. \A m \in 1 .. n : s[m] = <<On("unmount", o[m])>>
    OBVIOUS
<1>11. Spelled(s, n) /\ Spelled(t, l)
    BY DEF Spelled
<1>12. Never(a, "unmount") /\ Never(d, "unmount") /\ \A j \in 1 .. l : Never(t[j], "unmount")
    <2>1. Nothing.do = "nothing" /\ \A j : NonFatal(On("release", j)).do = "release"
        BY DEF Nothing, NonFatal, On
    <2>2. \A x : x.do # "unmount" => Never(<<x>>, "unmount")
        BY DEF Never
    <2>3. Never(<<>>, "unmount")
        BY DEF Never
    <2>4. Never(<<Nothing>>, "unmount") /\ \A j : Never(<<NonFatal(On("release", j))>>, "unmount")
        BY <2>1, <2>2
    <2> QED
        BY <2>3, <2>4 DEF If
<1> HIDE DEF a, s, t, d
<1>13. \A m \in 1 .. n : Leads(s[m], "unmount", o[m]) /\ UnmountsOnly(s[m], F)
    <2> SUFFICES ASSUME NEW m \in 1 .. n
                 PROVE  Leads(s[m], "unmount", o[m]) /\ UnmountsOnly(s[m], F)
        OBVIOUS
    <2>1. PICK x : x = On("unmount", o[m])
        OBVIOUS
    <2>2. s[m] = <<x>> /\ x.on = o[m] /\ x.on \in F
        BY <1>7, <1>10, <2>1, OpFields
    <2>3. IsList(<<x>>) /\ \A y : InList(<<x>>, y) <=> y = x
        BY InOne
    <2>4. \A q \in DOMAIN <<x>> : q = 1 /\ <<x>>[q] = x
        OBVIOUS
    <2> QED
        BY <2>2, <2>3, <2>4 DEF Leads, UnmountsOnly
<1>14. PICK f : f = FlattenSeq(s)
    OBVIOUS
<1>15. InTurn(f, "unmount", R)
    BY <1>7, <1>11, <1>13, <1>14, TurnsFlattened
<1>16. IsList(f) /\ UnmountsOnly(f, F)
    <2>1. \A m \in 1 .. n : IsList(s[m])
        BY <1>13 DEF Leads
    <2>2. /\ IsList(f)
          /\ \A x : InList(f, x) <=> \E m \in 1 .. n : InList(s[m], x)
        BY <1>11, <1>14, <2>1, InFlattened
    <2> QED
        BY <1>13, <2>2 DEF UnmountsOnly
<1>17. PICK g : g = FlattenSeq(t)
    OBVIOUS
<1>18. IsList(g) /\ Never(g, "unmount")
    <2>1. /\ IsList(g)
          /\ \A x : InList(g, x) <=> \E j \in 1 .. l : InList(t[j], x)
        BY <1>9, <1>11, <1>17, InFlattened
    <2>2. \A x : InList(g, x) => x.do # "unmount"
        BY <1>12, <2>1, NeverIn
    <2> QED
        BY <2>1, <2>2, NeverIn
<1>19. IsList(a \o f) /\ InTurn(a \o f, "unmount", R) /\ UnmountsOnly(a \o f, F)
    BY <1>9, <1>12, <1>15, <1>16, ListsJoined, TurnsJoined, OnlyJoined
<1>20. PICK u : u = a \o f
    OBVIOUS
<1>21. IsList(u \o g) /\ InTurn(u \o g, "unmount", R) /\ UnmountsOnly(u \o g, F)
    BY <1>18, <1>19, <1>20, ListsJoined, TurnsJoined, OnlyJoined
<1>22. PICK v : v = u \o g
    OBVIOUS
<1>23. InTurn(v \o d, "unmount", R) /\ UnmountsOnly(v \o d, F)
    BY <1>9, <1>12, <1>21, <1>22, TurnsJoined, OnlyJoined
<1> QED
    BY <1>3, <1>8, <1>14, <1>17, <1>20, <1>22, <1>23

\* What the operations of a plan are, in turn: what a later one needs is made
\* by an earlier one.
Turns(p, c, n) ==
    /\ InTurn(p[1].ops, "mkpart", Smaller) /\ SetsBehind(p[1].ops)
    /\ ~c.encrypt => p[2].ops = <<>>
    /\ Never(p[5].ops, "copy") /\ InList(p[5].ops, Put("base", <<>>))
    /\ InTurn(p[n].ops, "unmount", UnmountTurns(c.parts))
    /\ UnmountsOnly(p[n].ops, FileSystems(c.parts))

LEMMA ShellTurns ==
    ASSUME NEW c, NEW l \in Nat, OfLayout(c.parts, l)
    PROVE  Turns(full_execution_plan(c), c, Len(full_execution_plan(c)))
<1>1. PICK p : p = full_execution_plan(c)
    OBVIOUS
<1>2. PICK n \in {12, 13} : ShellEntries(p, c, n)
    BY <1>1, ShellListed
<1>3. /\ Len(p) = n
      /\ p[1].ops = PartitionPlan(c) /\ p[2].ops = EncryptionPlan(c)
      /\ p[5].ops = BasePlan(c) /\ p[n].ops = CleanupPlan(c)
    BY <1>2 DEF ShellEntries, Phase
<1>4. InTurn(p[1].ops, "mkpart", Smaller) /\ SetsBehind(p[1].ops)
    BY <1>3, PartitionsInTurn
<1>5. ~c.encrypt => p[2].ops = <<>>
    BY <1>3 DEF EncryptionPlan
<1>6. Never(p[5].ops, "copy")
    <2>1. PICK x, y, z : x = Put("dirs", <<>>) /\ y = Put("base", <<>>) /\ z = NonFatal(Put("ark", <<>>))
        OBVIOUS
    <2>2. x.do = "put" /\ y.do = "put" /\ z.do = "put"
        BY <2>1 DEF Put, NonFatal
    <2>3. p[5].ops = <<x, y, z>>
        BY <1>3, <2>1 DEF BasePlan
    <2>4. \A q \in DOMAIN <<x, y, z>> : <<x, y, z>>[q].do = "put"
        BY <2>2
    <2> QED
        BY <2>3, <2>4 DEF Never
<1>7. InList(p[5].ops, Put("base", <<>>))
    BY <1>3, BasePlanned
<1>8. InTurn(p[n].ops, "unmount", UnmountTurns(c.parts)) /\ UnmountsOnly(p[n].ops, FileSystems(c.parts))
    BY <1>3, UnmountsInTurn
<1> QED
    BY <1>1, <1>3, <1>4, <1>5, <1>6, <1>7, <1>8 DEF Turns

LEMMA PutsOnly ==
    ASSUME NEW a, NEW b, NEW e, NEW f, a.do = "put", b.do = "put", e.do = "put", f.do = "put"
    PROVE  /\ Never(<<>>, "copy") /\ Never(<<a>>, "copy") /\ Never(<<a, b>>, "copy")
           /\ Never(<<a, b, e, f>>, "copy")
<1>1. \A q \in DOMAIN <<a>> : <<a>>[q].do = "put"
    OBVIOUS
<1>2. \A q \in DOMAIN <<a, b>> : <<a, b>>[q].do = "put"
    OBVIOUS
<1>3. \A q \in DOMAIN <<a, b, e, f>> : <<a, b, e, f>>[q].do = "put"
    OBVIOUS
<1> QED
    BY <1>1, <1>2, <1>3 DEF Never

LEMMA NativeTurns ==
    ASSUME NEW c, NEW m \in 1 .. 8
    PROVE  Never(plan_native_disk_ops(c)[m].ops, "copy")
<1>1. PICK p : p = plan_native_disk_ops(c)
    OBVIOUS
<1>2. PICK base : base = (IF c.tarball THEN Put("base", <<>>) ELSE Put("agnsh", <<"bin">>))
    OBVIOUS
<1>3. /\ p[1].ops = <<On("gpt", 0)>> /\ p[2].ops = <<On("mkfs", 1), On("mkfs", 2)>>
      /\ p[3].ops = <<base>>
      /\ p[4].ops = NetworkPlan(c) /\ p[5].ops = LocalePlan(c) /\ p[6].ops = SecurityPlan(c)
      /\ p[7].ops = <<Marker>> /\ p[8].ops = <<Put("loader", Esp), Put("kernel", Esp)>>
    <2>1. PICK e1, e2, e3, e4, e5, e6, e7, e8 :
              /\ e1 = Phase(PARTITION, <<On("gpt", 0)>>)
              /\ e2 = Phase(FORMAT, <<On("mkfs", 1), On("mkfs", 2)>>)
              /\ e3 = Phase(BASE, <<base>>)
              /\ e4 = Phase(CONFIGURE, NetworkPlan(c)) /\ e5 = Phase(CONFIGURE, LocalePlan(c))
              /\ e6 = Phase(SECURITY, SecurityPlan(c)) /\ e7 = Phase(FIRST_BOOT, <<Marker>>)
              /\ e8 = Phase(BOOTLOADER, <<Put("loader", Esp), Put("kernel", Esp)>>)
        OBVIOUS
    <2>2. p = <<e1, e2, e3, e4, e5, e6, e7, e8>>
        BY <1>1, <1>2, <2>1 DEF plan_native_disk_ops
    <2>3. /\ p[1] = e1 /\ p[2] = e2 /\ p[3] = e3 /\ p[4] = e4 /\ p[5] = e5 /\ p[6] = e6
          /\ p[7] = e7 /\ p[8] = e8
        BY <2>2
    <2> QED
        BY <2>1, <2>3 DEF Phase
<1>4. \A w, at : Put(w, at).do = "put"
    BY OpFields
<1>5. base.do = "put" /\ Marker.do = "put"
    BY <1>2, <1>4 DEF Marker
<1>6. Never(NetworkPlan(c), "copy")
    <2> DEFINE a == <<Put("hostname", <<"etc">>), Put("hosts", <<"etc">>)>>
               b == If("dns" \in c.net, <<Put("resolv.conf", <<"etc">>)>>)
               d == If("static" \in c.net, <<Put("dir", <<"etc">>), Put("static.network", <<"etc">>)>>)
    <2>1. Never(a, "copy") /\ Never(b, "copy") /\ Never(d, "copy")
        BY <1>4, PutsOnly DEF If
    <2>2. IsList(a) /\ IsList(b) /\ IsList(d)
        BY ShortLists DEF If
    <2>3. NetworkPlan(c) = a \o b \o d
        BY DEF NetworkPlan
    <2> HIDE DEF a, b, d
    <2>4. IsList(a \o b) /\ Never(a \o b, "copy")
        BY <2>1, <2>2, ListsJoined, TurnsJoined
    <2> QED
        BY <2>1, <2>2, <2>3, <2>4, TurnsJoined
<1>7. Never(LocalePlan(c), "copy")
    BY <1>4, PutsOnly DEF LocalePlan
<1>8. Never(SecurityPlan(c), "copy")
    <2> DEFINE a == If("deny" \in c.sec, <<Put("nftables.conf", <<"etc">>)>>)
               b == If("verity" \in c.sec,
                       <<Put("dir", <<"etc", "ima">>), Put("policy.conf", <<"etc", "ima">>)>>)
               d == <<Put("sysctl", <<"etc">>)>>
    <2>1. Never(a, "copy") /\ Never(b, "copy") /\ Never(d, "copy")
        BY <1>4, PutsOnly DEF If
    <2>2. IsList(a) /\ IsList(b) /\ IsList(d)
        BY ShortLists DEF If
    <2>3. SecurityPlan(c) = a \o b \o d
        BY DEF SecurityPlan
    <2> HIDE DEF a, b, d
    <2>4. IsList(a \o b) /\ Never(a \o b, "copy")
        BY <2>1, <2>2, ListsJoined, TurnsJoined
    <2> QED
        BY <2>1, <2>2, <2>3, <2>4, TurnsJoined
<1>9. Never(p[1].ops, "copy") /\ Never(p[2].ops, "copy")
    <2>1. On("gpt", 0).do = "gpt" /\ On("mkfs", 1).do = "mkfs" /\ On("mkfs", 2).do = "mkfs"
        BY DEF On
    <2>2. PICK x, y, z : x = On("gpt", 0) /\ y = On("mkfs", 1) /\ z = On("mkfs", 2)
        OBVIOUS
    <2>3. (\A q \in DOMAIN <<x>> : <<x>>[q].do = "gpt") /\ \A q \in DOMAIN <<y, z>> : <<y, z>>[q].do = "mkfs"
        BY <2>1, <2>2
    <2> QED
        BY <1>3, <2>2, <2>3 DEF Never
<1>10. Never(p[3].ops, "copy") /\ Never(p[7].ops, "copy") /\ Never(p[8].ops, "copy")
    BY <1>3, <1>4, <1>5, PutsOnly
<1>11. m = 1 \/ m = 2 \/ m = 3 \/ m = 4 \/ m = 5 \/ m = 6 \/ m = 7 \/ m = 8
    OBVIOUS
<1> QED
    BY <1>1, <1>3, <1>6, <1>7, <1>8, <1>9, <1>10, <1>11
-----------------------------------------------------------------------------
(* The same plan taken in the order of the phases, which is not the order  *)
(* of its entries: the configuration comes before the boot loader.         *)
Turn == <<1, 2, 3, 4, 5, 6, 9, 10, 7, 8, 11, 12, 13>>
Turned(p) == [m \in 1 .. 13 |-> p[Turn[m]]]

LEMMA TurnIs ==
    ASSUME NEW m \in 1 .. 13
    PROVE  /\ Turn[m] \in 1 .. 13
           /\ m \notin 7 .. 10 => Turn[m] = m
           /\ m \in 7 .. 10 => Turn[m] \in 7 .. 10
           /\ Turn[Turn[m]] = m
<1>1. \/ m = 1 \/ m = 2 \/ m = 3 \/ m = 4 \/ m = 5 \/ m = 6 \/ m = 7 \/ m = 8 \/ m = 9
      \/ m = 10 \/ m = 11 \/ m = 12 \/ m = 13
    OBVIOUS
<1>2. /\ Turn[1] = 1 /\ Turn[2] = 2 /\ Turn[3] = 3 /\ Turn[4] = 4 /\ Turn[5] = 5 /\ Turn[6] = 6
      /\ Turn[7] = 9 /\ Turn[8] = 10 /\ Turn[9] = 7 /\ Turn[10] = 8 /\ Turn[11] = 11
      /\ Turn[12] = 12 /\ Turn[13] = 13
    BY DEF Turn
<1>3. 7 \in 7 .. 10 /\ 8 \in 7 .. 10 /\ 9 \in 7 .. 10 /\ 10 \in 7 .. 10
    OBVIOUS
<1> QED
    BY <1>1, <1>2, <1>3

LEMMA TurnedPlan ==
    ASSUME NEW c, NEW l \in Nat, OfLayout(c.parts, l), c.user # {}
    PROVE  /\ ShellPlan(Turned(full_execution_plan(c)), c, l, 13)
           /\ Turns(Turned(full_execution_plan(c)), c, 13)
<1>1. PICK p, q : p = full_execution_plan(c) /\ q = Turned(p)
    OBVIOUS
<1>2. PICK n \in {12, 13} : ShellEntries(p, c, n)
    BY <1>1, ShellListed
<1>3. n = 13 /\ Len(p) = 13
    BY <1>2 DEF ShellEntries
<1>4. PICK o \in {12, 13} : ShellPlan(p, c, l, o)
    BY <1>1, ShellPlanned
<1>5. o = 13 /\ ShellPlan(p, c, l, 13) /\ Turns(p, c, 13)
    BY <1>1, <1>3, <1>4, ShellTurns DEF ShellPlan
<1>6. DOMAIN q = 1 .. 13 /\ Len(q) = 13 /\ \A m \in 1 .. 13 : q[m] = p[Turn[m]]
    BY <1>1 DEF Turned
<1>7. /\ q[1] = p[1] /\ q[2] = p[2] /\ q[3] = p[3] /\ q[4] = p[4] /\ q[5] = p[5] /\ q[6] = p[6]
      /\ q[13] = p[13]
    <2>1. /\ 1 \in 1 .. 13 /\ 2 \in 1 .. 13 /\ 3 \in 1 .. 13 /\ 4 \in 1 .. 13 /\ 5 \in 1 .. 13
          /\ 6 \in 1 .. 13 /\ 13 \in 1 .. 13
        OBVIOUS
    <2>2. /\ Turn[1] = 1 /\ Turn[2] = 2 /\ Turn[3] = 3 /\ Turn[4] = 4 /\ Turn[5] = 5 /\ Turn[6] = 6
          /\ Turn[13] = 13
        BY DEF Turn
    <2> QED
        BY <1>6, <2>1, <2>2
<1>8. OfKinds(q, l, 13)
    <2> SUFFICES ASSUME NEW m \in 1 .. 13
                 PROVE  Uses(q[m].ops, l, KindsAt(m, 13)) /\ q[m].phase \in PARTITION .. CLEANUP
        BY DEF OfKinds
    <2>1. PICK t \in 1 .. 13 : t = Turn[m] /\ q[m] = p[t] /\ (m \notin 7 .. 10 => t = m)
                               /\ (m \in 7 .. 10 => t \in 7 .. 10)
        BY <1>6, TurnIs
    <2>2. Uses(p[t].ops, l, KindsAt(t, 13)) /\ p[t].phase \in PARTITION .. CLEANUP
        BY <1>5 DEF ShellPlan, OfKinds
    <2>3. KindsAt(t, 13) = KindsAt(m, 13)
        BY <2>1 DEF KindsAt
    <2> QED
        BY <2>1, <2>2, <2>3
<1>9. ASSUME NEW m \in 1 .. 13 PROVE \E t \in 1 .. 13 : q[t] = p[m]
    <2>1. PICK t \in 1 .. 13 : t = Turn[m] /\ Turn[t] = m
        BY TurnIs
    <2> QED
        BY <1>6, <2>1
<1>10. Equips(q, c, 13)
    <2>1. \A y : Somewhere(p, 13, y) => Somewhere(q, 13, y)
        BY <1>9 DEF Somewhere
    <2>2. \A at : LoaderSomewhere(p, 13, at) => LoaderSomewhere(q, 13, at)
        BY <1>9 DEF LoaderSomewhere
    <2> QED
        BY <1>5, <2>1, <2>2 DEF ShellPlan, Equips
<1>11. Lays(q, c.parts) /\ MountsRight(q, c.parts, l) /\ UnmountsRight(q, c.parts, 13)
    BY <1>5, <1>7 DEF ShellPlan, Lays, MountsRight, UnmountsRight
<1>12. Turns(q, c, 13)
    BY <1>5, <1>7 DEF Turns
<1> QED
    BY <1>1, <1>6, <1>8, <1>10, <1>11, <1>12 DEF ShellPlan
=============================================================================
