---------------------------- MODULE PoolStateProofs ----------------------------
(***************************************************************************)
(* What the functions of PoolState return: recursion over the positions of *)
(* a list, filtered lists, look-ups, fresh IDs and Merge.                  *)
(***************************************************************************)
EXTENDS PoolState, SequenceTheorems, NatFacts

-----------------------------------------------------------------------------
(* A function defined by recursion over 0..n exists: step[<<i, y>>] is the *)
(* value at i when y is the value at i - 1.                                *)
Recursions(Y, base, n, step) ==
    {f \in [0..n -> Y] : /\ f[0] = base
                         /\ \A i \in 1..n : f[i] = step[<<i, f[i - 1]>>]}

LEMMA PrefixRecursion ==
    ASSUME NEW Y, NEW base \in Y, NEW n \in Nat, NEW step \in [(1..n) \X Y -> Y]
    PROVE  Recursions(Y, base, n, step) # {}
<1> DEFINE Good(f, k) == f[0] = base /\ \A i \in 1..k : f[i] = step[<<i, f[i - 1]>>]
           S == {k \in Nat : k <= n => \E f \in [0..k -> Y] : Good(f, k)}
<1>1. 0 \in S
    <2>1. [i \in 0..0 |-> base] \in [0..0 -> Y] /\ Good([i \in 0..0 |-> base], 0)
        OBVIOUS
    <2> HIDE DEF Good
    <2> QED BY <2>1
<1>2. ASSUME NEW k \in Nat, k + 1 <= n, NEW f \in [0..k -> Y], Good(f, k)
      PROVE  \E g \in [0..(k + 1) -> Y] : Good(g, k + 1)
    <2> DEFINE g == [i \in 0..(k + 1) |-> IF i = k + 1 THEN step[<<i, f[k]>>] ELSE f[i]]
    <2>1. k + 1 \in 1..n /\ f[k] \in Y
        BY <1>2
    <2>2. step[<<k + 1, f[k]>>] \in Y
        BY <2>1
    <2>3. g \in [0..(k + 1) -> Y]
        BY <2>2
    <2>4. g[0] = base
        BY <1>2
    <2>5. ASSUME NEW i \in 1..(k + 1) PROVE g[i] = step[<<i, g[i - 1]>>]
        <3>1. g[i - 1] = f[i - 1]
            OBVIOUS
        <3>2. CASE i = k + 1
            BY <3>1, <3>2
        <3>3. CASE i # k + 1
            <4>1. i \in 1..k /\ g[i] = f[i]
                BY <3>3
            <4> QED BY <1>2, <3>1, <4>1
        <3> QED BY <3>2, <3>3
    <2> HIDE DEF g
    <2> QED BY <2>3, <2>4, <2>5
<1>3. \A k \in Nat : k \in S => k + 1 \in S
    <2> HIDE DEF Good
    <2> QED BY <1>2
<1>4. n \in S
    <2> HIDE DEF S
    <2> QED BY <1>1, <1>3, SetInduction
<1>5. PICK f \in [0..n -> Y] : Good(f, n)
    <2> HIDE DEF Good
    <2> QED BY <1>4
<1> QED BY <1>5 DEF Recursions

-----------------------------------------------------------------------------
(* Filter goes through the list from left to right. *)
Filterings(E, list, K) ==
    {h \in [0..Len(list) -> Seq(E)] :
       /\ h[0] = <<>>
       /\ \A i \in 1..Len(list) :
             h[i] = IF i \in K THEN Append(h[i - 1], list[i]) ELSE h[i - 1]
       /\ Filter(list, K) = h[Len(list)]}

LEMMA FilterSteps ==
    ASSUME NEW E, NEW list \in Seq(E), NEW K
    PROVE  Filterings(E, list, K) # {}
<1> DEFINE n == Len(list)
           Y == Seq(E)
           Op(i, y) == IF i \in K THEN Append(y, list[i]) ELSE y
           step == [p \in (1..n) \X Y |-> Op(p[1], p[2])]
           Eq(f) == f = [i \in 0..n |-> IF i = 0 THEN <<>> ELSE Op(i, f[i - 1])]
           first == CHOOSE f : Eq(f)
<1>1. n \in Nat /\ \A i \in 1..n : list[i] \in E
    OBVIOUS
<1>2. Filter(list, K) = first[n]
    BY DEF Filter
<1>3. \A i \in 1..n, y \in Y : Op(i, y) \in Y
    BY <1>1
<1>4. step \in [(1..n) \X Y -> Y]
    <2> HIDE DEF Op, n
    <2> QED BY <1>3
<1>5. PICK g \in [0..n -> Y] :
            g[0] = <<>> /\ \A i \in 1..n : g[i] = step[<<i, g[i - 1]>>]
    <2>1. n \in Nat /\ <<>> \in Y
        OBVIOUS
    <2>2. Recursions(Y, <<>>, n, step) # {}
        <3> HIDE DEF step, n, Y
        <3> QED BY <1>4, <2>1, PrefixRecursion
    <2> HIDE DEF step, n, Y
    <2> QED BY <2>2 DEF Recursions
<1>6. \A i \in 1..n : g[i - 1] \in Y /\ g[i] = Op(i, g[i - 1])
    <2>1. \A i \in 1..n : g[i - 1] \in Y
        BY <1>1
    <2> HIDE DEF Op, n
    <2> QED BY <1>5, <2>1
<1>7. Eq(g)
    <2> HIDE DEF Op, n
    <2> QED BY <1>1, <1>5, <1>6
<1>8. Eq(first)
    <2> HIDE DEF Eq
    <2> QED BY <1>7
<1> HIDE DEF first
<1>9. /\ first[0] = <<>>
      /\ \A i \in 1..n : first[i] = Op(i, first[i - 1])
    <2> HIDE DEF Op, n
    <2> QED BY <1>1, <1>8
<1>10. \A i \in 0..n : first[i] \in Y
    <2> DEFINE S == {i \in Nat : i <= n => first[i] \in Y}
    <2>1. 0 \in S
        <3>1. <<>> \in Y
            OBVIOUS
        <3> HIDE DEF n, Op, Y
        <3> QED BY <1>9, <3>1
    <2>2. \A i \in Nat : i \in S => i + 1 \in S
        <3>1. ASSUME NEW i \in Nat, i \in S, i + 1 <= n PROVE first[i + 1] \in Y
            <4> HIDE DEF Op, n
            <4>1. i + 1 \in 1..n /\ first[i] \in Y
                BY <1>1, <3>1
            <4> QED BY <1>3, <1>9, <4>1
        <3> QED BY <3>1
    <2>3. \A i \in Nat : i \in S
        <3> HIDE DEF S
        <3> QED BY <2>1, <2>2, SetInduction
    <2> QED BY <2>3
<1>11. DOMAIN first = 0..n
    BY <1>8
<1>12. first \in [0..n -> Y]
    <2> HIDE DEF n, Op
    <2>1. first = [i \in 0..n |-> first[i]]
        BY <1>8
    <2> HIDE DEF Eq
    <2> QED BY <1>10, <2>1
<1>13. first \in Filterings(E, list, K)
    BY <1>2, <1>9, <1>12 DEF Filterings
<1> QED BY <1>13

(* It keeps the elements at the given positions and no others. *)
LEMMA FilterIs ==
    ASSUME NEW E, NEW list \in Seq(E), NEW K
    PROVE  /\ Filter(list, K) \in Seq(E)
           /\ ToSet(Filter(list, K)) = {list[i] : i \in K \cap DOMAIN list}
<1> DEFINE n == Len(list)
           In(e, s) == \E j \in DOMAIN s : s[j] = e
           Some(e, k) == \E i \in 1..k : i \in K /\ list[i] = e
<1>1. PICK h \in [0..n -> Seq(E)] :
             /\ h[0] = <<>>
             /\ \A i \in 1..n :
                   h[i] = IF i \in K THEN Append(h[i - 1], list[i]) ELSE h[i - 1]
             /\ Filter(list, K) = h[n]
    <2>1. Filterings(E, list, K) # {}
        BY FilterSteps
    <2> HIDE DEF In, Some
    <2> QED BY <2>1 DEF Filterings
<1>2. n \in Nat /\ DOMAIN list = 1..n /\ \A i \in 1..n : list[i] \in E
    OBVIOUS
<1> DEFINE Same(k) == \A e : In(e, h[k]) <=> Some(e, k)
           S == {k \in Nat : k <= n => Same(k)}
<1>3. 0 \in S
    BY <1>1
<1>4. ASSUME NEW k \in Nat, k + 1 <= n, Same(k)
      PROVE  Same(k + 1)
    <2>1. k + 1 \in 1..n /\ k \in 0..n
        BY <1>2, <1>4
    <2>2. h[k] \in Seq(E) /\ list[k + 1] \in E
        BY <1>2, <2>1
    <2>3. \A e : In(e, Append(h[k], list[k + 1])) <=> In(e, h[k]) \/ list[k + 1] = e
        <3>1. \A y \in Seq(E), x \in E : \A e : In(e, Append(y, x)) <=> In(e, y) \/ x = e
            <4>1. ASSUME NEW y \in Seq(E), NEW x \in E
                  PROVE  /\ DOMAIN Append(y, x) = 1..(Len(y) + 1) /\ Len(y) \in Nat
                         /\ DOMAIN y = 1..Len(y)
                         /\ Append(y, x)[Len(y) + 1] = x
                         /\ \A j \in 1..Len(y) : Append(y, x)[j] = y[j]
                OBVIOUS
            <4> QED BY <4>1
        <3> HIDE DEF In
        <3> QED BY <2>2, <3>1
    <2>4. \A e : Some(e, k + 1) <=> Some(e, k) \/ (k + 1 \in K /\ list[k + 1] = e)
        OBVIOUS
    <2>5. h[k + 1] = IF k + 1 \in K THEN Append(h[k], list[k + 1]) ELSE h[k]
        <3> HIDE DEF n, In, Some
        <3>1. (k + 1) - 1 = k
            BY <2>1
        <3>2. h[k + 1] = IF k + 1 \in K THEN Append(h[(k + 1) - 1], list[k + 1])
                         ELSE h[(k + 1) - 1]
            BY <1>1, <2>1, Zenon
        <3> QED BY <3>1, <3>2
    <2> HIDE DEF In, Some
    <2> QED BY <1>4, <2>3, <2>4, <2>5
<1>5. n \in S
    <2>1. \A k \in Nat : k \in S => k + 1 \in S
        <3> HIDE DEF Same, n
        <3> QED BY <1>2, <1>4
    <2> HIDE DEF S
    <2> QED BY <1>2, <1>3, <2>1, SetInduction
<1>6. \A e : In(e, h[n]) <=> Some(e, n)
    <2> HIDE DEF In, Some
    <2> QED BY <1>2, <1>5
<1>7. h[n] \in Seq(E)
    BY <1>2
<1>8. ToSet(h[n]) = {list[i] : i \in K \cap DOMAIN list}
    BY <1>2, <1>6 DEF ToSet
<1> QED BY <1>1, <1>7, <1>8

-----------------------------------------------------------------------------
(* The part of a list that belongs to one source, from left to right.      *)
Of(list, source) == Filter(list, {i \in DOMAIN list : list[i].source = source})

Views(E, list, source) ==
    {g \in [0..Len(list) -> Seq(E)] :
       /\ g[0] = <<>>
       /\ \A i \in 1..Len(list) :
             g[i] = IF list[i].source = source THEN Append(g[i - 1], list[i]) ELSE g[i - 1]
       /\ Of(list, source) = g[Len(list)]}

LEMMA OfSteps ==
    ASSUME NEW E, NEW list \in Seq(E), NEW source
    PROVE  Views(E, list, source) # {}
<1> DEFINE K == {i \in DOMAIN list : list[i].source = source}
           n == Len(list)
<1>1. DOMAIN list = 1..n
    OBVIOUS
<1>2. PICK g \in Filterings(E, list, K) : TRUE
    <2> HIDE DEF K
    <2> QED BY FilterSteps
<1>3. /\ g \in [0..n -> Seq(E)] /\ g[0] = <<>>
      /\ \A i \in 1..n : g[i] = IF i \in K THEN Append(g[i - 1], list[i]) ELSE g[i - 1]
      /\ Filter(list, K) = g[n]
    <2> HIDE DEF K
    <2> QED BY <1>2 DEF Filterings
<1>4. \A i \in 1..n : i \in K <=> list[i].source = source
    BY <1>1
<1>5. Of(list, source) = Filter(list, K)
    BY DEF Of
<1> HIDE DEF K
<1>6. g \in Views(E, list, source)
    BY <1>3, <1>4, <1>5 DEF Views
<1> QED BY <1>6

(* Two lists that differ only in elements of other sources, or by such     *)
(* elements at the end of the second.                                      *)
LEMMA OfSame ==
    ASSUME NEW E, NEW list \in Seq(E), NEW other \in Seq(E), NEW source,
           Len(list) <= Len(other),
           \A i \in DOMAIN list : IF list[i].source = source THEN other[i] = list[i]
                                  ELSE other[i].source # source,
           \A i \in DOMAIN other \ DOMAIN list : other[i].source # source
    PROVE  Of(other, source) = Of(list, source)
<1> DEFINE m == Len(list)
           n == Len(other)
<1>1. /\ m \in Nat /\ n \in Nat /\ m <= n
      /\ DOMAIN list = 1..m /\ DOMAIN other = 1..n
    OBVIOUS
<1>2. PICK f \in Views(E, list, source), g \in Views(E, other, source) : TRUE
    BY OfSteps
<1>3. /\ f[0] = <<>> /\ Of(list, source) = f[m]
      /\ \A i \in 1..m : f[i] = IF list[i].source = source THEN Append(f[i - 1], list[i])
                                ELSE f[i - 1]
    BY <1>2 DEF Views
<1>4. /\ g[0] = <<>> /\ Of(other, source) = g[n]
      /\ \A i \in 1..n : g[i] = IF other[i].source = source THEN Append(g[i - 1], other[i])
                                ELSE g[i - 1]
    BY <1>2 DEF Views
<1> HIDE DEF m, n
<1> DEFINE S == {k \in Nat : k <= n => g[k] = IF k <= m THEN f[k] ELSE f[m]}
<1>5. 0 \in S
    BY <1>1, <1>3, <1>4
<1>6. ASSUME NEW k \in Nat, k \in S, k + 1 <= n
      PROVE  g[k + 1] = IF k + 1 <= m THEN f[k + 1] ELSE f[m]
    <2>1. g[k] = IF k <= m THEN f[k] ELSE f[m]
        BY <1>1, <1>6
    <2>2. g[k + 1] = IF other[k + 1].source = source THEN Append(g[k], other[k + 1]) ELSE g[k]
        BY <1>1, <1>4, <1>6
    <2>3. CASE k + 1 <= m
        <3>1. f[k + 1] = IF list[k + 1].source = source THEN Append(f[k], list[k + 1]) ELSE f[k]
            BY <1>1, <1>3, <2>3
        <3>2. k + 1 \in DOMAIN list /\ k <= m
            BY <1>1, <2>3
        <3> QED BY <2>1, <2>2, <2>3, <3>1, <3>2
    <2>4. CASE ~(k + 1 <= m)
        <3>1. k + 1 \in DOMAIN other \ DOMAIN list /\ (k <= m => k = m)
            BY <1>1, <1>6, <2>4
        <3> QED BY <2>1, <2>2, <2>4, <3>1
    <2> QED BY <2>3, <2>4
<1>7. n \in S
    <2>1. \A k \in Nat : k \in S => k + 1 \in S
        BY <1>1, <1>6
    <2> HIDE DEF S
    <2> QED BY <1>1, <1>5, <2>1, SetInduction
<1>8. g[n] = f[m]
    BY <1>1, <1>7
<1> QED BY <1>3, <1>4, <1>8

LEMMA OfAppend ==
    ASSUME NEW E, NEW list \in Seq(E), NEW e \in E, NEW source
    PROVE  Of(Append(list, e), source) =
             IF e.source = source THEN Append(Of(list, source), e) ELSE Of(list, source)
<1> DEFINE app == Append(list, e)
           n == Len(list)
<1>1. /\ n \in Nat /\ app \in Seq(E) /\ Len(app) = n + 1
      /\ \A i \in 1..n : app[i] = list[i]
      /\ app[n + 1] = e
    BY AppendProperties
<1> HIDE DEF app
<1>2. PICK f \in Views(E, list, source), g \in Views(E, app, source) : TRUE
    BY <1>1, OfSteps
<1>3. /\ f[0] = <<>> /\ Of(list, source) = f[n]
      /\ \A i \in 1..n : f[i] = IF list[i].source = source THEN Append(f[i - 1], list[i])
                                ELSE f[i - 1]
    BY <1>2 DEF Views
<1>4. /\ g[0] = <<>> /\ Of(app, source) = g[n + 1]
      /\ \A i \in 1..(n + 1) :
            g[i] = IF app[i].source = source THEN Append(g[i - 1], app[i]) ELSE g[i - 1]
    BY <1>1, <1>2 DEF Views
<1> HIDE DEF n
<1> DEFINE S == {k \in Nat : k <= n => g[k] = f[k]}
<1>5. 0 \in S
    BY <1>3, <1>4
<1>6. ASSUME NEW k \in Nat, k \in S, k + 1 <= n PROVE g[k + 1] = f[k + 1]
    <2>1. k + 1 \in 1..n /\ k + 1 \in 1..(n + 1) /\ g[k] = f[k]
        BY <1>1, <1>6
    <2> QED BY <1>1, <1>3, <1>4, <2>1
<1>7. n \in S
    <2>1. \A k \in Nat : k \in S => k + 1 \in S
        BY <1>1, <1>6
    <2> HIDE DEF S
    <2> QED BY <1>1, <1>5, <2>1, SetInduction
<1>8. g[n] = f[n] /\ n + 1 \in 1..(n + 1) /\ (n + 1) - 1 = n
    BY <1>1, <1>7
<1>9. g[n + 1] = IF e.source = source THEN Append(f[n], e) ELSE f[n]
    BY <1>1, <1>4, <1>8
<1> QED BY <1>3, <1>4, <1>9 DEF app

(* A list from which only elements of other sources are taken.             *)
LEMMA OfFilter ==
    ASSUME NEW E, NEW list \in Seq(E), NEW old \in Seq(E), NEW K, NEW source,
           Len(old) = Len(list),
           \A i \in DOMAIN list : IF list[i].source = source
                                  THEN i \in K /\ old[i] = list[i]
                                  ELSE old[i].source # source
    PROVE  Of(Filter(old, K), source) = Of(list, source)
<1> DEFINE n == Len(list)
<1>1. n \in Nat /\ DOMAIN list = 1..n /\ Len(old) = n /\ \A i \in 1..n : old[i] \in E
    OBVIOUS
<1>2. PICK f \in Views(E, list, source), h \in Filterings(E, old, K) : TRUE
    BY OfSteps, FilterSteps
<1>3. /\ f[0] = <<>> /\ Of(list, source) = f[n]
      /\ \A i \in 1..n : f[i] = IF list[i].source = source THEN Append(f[i - 1], list[i])
                                ELSE f[i - 1]
    BY <1>2 DEF Views
<1>4. /\ h[0] = <<>> /\ Filter(old, K) = h[n]
      /\ \A i \in 1..n : h[i] = IF i \in K THEN Append(h[i - 1], old[i]) ELSE h[i - 1]
      /\ \A i \in 0..n : h[i] \in Seq(E)
    BY <1>1, <1>2 DEF Filterings
<1> HIDE DEF n
<1> DEFINE S == {k \in Nat : k <= n => Of(h[k], source) = f[k]}
<1>5. 0 \in S
    <2>1. Of(<<>>, source) = <<>>
        <3>1. <<>> \in Seq(E) /\ Len(<<>>) = 0
            OBVIOUS
        <3>2. PICK g \in Views(E, <<>>, source) : TRUE
            BY <3>1, OfSteps
        <3> QED BY <3>1, <3>2 DEF Views
    <2> QED BY <1>3, <1>4, <2>1
<1>6. ASSUME NEW k \in Nat, k \in S, k + 1 <= n PROVE Of(h[k + 1], source) = f[k + 1]
    <2>1. /\ k + 1 \in 1..n /\ k \in 0..n /\ (k + 1) - 1 = k
          /\ Of(h[k], source) = f[k]
        BY <1>1, <1>6
    <2>2. h[k] \in Seq(E) /\ old[k + 1] \in E
        BY <1>1, <1>4, <2>1
    <2>3. Of(Append(h[k], old[k + 1]), source) =
             IF old[k + 1].source = source THEN Append(f[k], old[k + 1]) ELSE f[k]
        <3> DEFINE x == old[k + 1]
                   y == h[k]
        <3>1. /\ x \in E /\ y \in Seq(E)
              /\ Of(y, source) = f[k]
            BY <2>1, <2>2
        <3> HIDE DEF x, y
        <3>2. Of(Append(y, x), source) =
                IF x.source = source THEN Append(Of(y, source), x) ELSE Of(y, source)
            BY <3>1, OfAppend
        <3>3. Of(Append(y, x), source) =
                IF x.source = source THEN Append(f[k], x) ELSE f[k]
            BY <3>1, <3>2
        <3> QED BY <3>3 DEF x, y
    <2>4. h[k + 1] = IF k + 1 \in K THEN Append(h[k], old[k + 1]) ELSE h[k]
        BY <1>4, <2>1
    <2>5. f[k + 1] = IF list[k + 1].source = source THEN Append(f[k], list[k + 1]) ELSE f[k]
        BY <1>3, <2>1
    <2>6. IF list[k + 1].source = source THEN k + 1 \in K /\ old[k + 1] = list[k + 1]
          ELSE old[k + 1].source # source
        BY <1>1, <2>1
    <2> QED BY <2>1, <2>3, <2>4, <2>5, <2>6
<1>7. n \in S
    <2>1. \A k \in Nat : k \in S => k + 1 \in S
        BY <1>1, <1>6
    <2> HIDE DEF S
    <2> QED BY <1>1, <1>5, <2>1, SetInduction
<1> QED BY <1>1, <1>3, <1>4, <1>7

-----------------------------------------------------------------------------
(* A list without its i-th element. *)
LEMMA RemoveAtIs ==
    ASSUME NEW E, NEW list \in Seq(E), NEW i \in DOMAIN list
    PROVE  /\ RemoveAt(list, i) \in Seq(E)
           /\ Len(RemoveAt(list, i)) = Len(list) - 1
           /\ \A j \in 1..(Len(list) - 1) :
                 RemoveAt(list, i)[j] = IF j < i THEN list[j] ELSE list[j + 1]
<1> DEFINE n == Len(list)
           a == SubSeq(list, 1, i - 1)
           b == SubSeq(list, i + 1, n)
<1>1. n \in Nat /\ DOMAIN list = 1..n /\ i \in 1..n
    OBVIOUS
<1>2. /\ a \in Seq(E) /\ Len(a) = i - 1
      /\ \A j \in 1..(i - 1) : a[j] = list[j]
    <2>1. \A j \in 1..(i - 1) : list[j] \in E
        BY <1>1
    <2> QED BY <1>1, <2>1, SubSeqProperties
<1>3. /\ b \in Seq(E) /\ Len(b) = n - i
      /\ \A j \in 1..(n - i) : b[j] = list[i + j]
    BY <1>1, SubSeqProperties
<1>4. /\ a \o b \in Seq(E) /\ Len(a \o b) = n - 1
      /\ \A j \in 1..(n - 1) : (a \o b)[j] = IF j <= i - 1 THEN a[j] ELSE b[j - (i - 1)]
    <2>1. \A x, y \in Seq(E) :
             /\ x \o y \in Seq(E) /\ Len(x \o y) = Len(x) + Len(y)
             /\ \A k \in 1..(Len(x) + Len(y)) :
                   (x \o y)[k] = IF k <= Len(x) THEN x[k] ELSE y[k - Len(x)]
        BY ConcatProperties
    <2> HIDE DEF a, b, n
    <2>2. /\ a \o b \in Seq(E) /\ Len(a \o b) = Len(a) + Len(b)
          /\ \A k \in 1..(Len(a) + Len(b)) :
                (a \o b)[k] = IF k <= Len(a) THEN a[k] ELSE b[k - Len(a)]
        BY <1>2, <1>3, <2>1
    <2>3. Len(a) = i - 1 /\ Len(a) + Len(b) = n - 1
        BY <1>1, <1>2, <1>3
    <2> QED BY <2>2, <2>3
<1>5. ASSUME NEW j \in 1..(n - 1)
      PROVE  (a \o b)[j] = IF j < i THEN list[j] ELSE list[j + 1]
    <2> HIDE DEF a, b, n
    <2>1. CASE j < i
        <3>1. j <= i - 1 /\ j \in 1..(i - 1)
            BY <1>1, <2>1
        <3> QED BY <1>2, <1>4, <2>1, <3>1
    <2>2. CASE ~(j < i)
        <3>1. /\ ~(j <= i - 1) /\ j - (i - 1) \in 1..(n - i)
              /\ i + (j - (i - 1)) = j + 1
            BY <1>1, <2>2
        <3> QED BY <1>3, <1>4, <2>2, <3>1
    <2> QED BY <2>1, <2>2
<1> QED BY <1>4, <1>5 DEF RemoveAt

(* Nothing goes from the part of another source.                           *)
LEMMA OfRemoveAt ==
    ASSUME NEW E, NEW list \in Seq(E), NEW i \in DOMAIN list, NEW source,
           list[i].source # source
    PROVE  Of(RemoveAt(list, i), source) = Of(list, source)
<1> DEFINE n == Len(list)
           rem == RemoveAt(list, i)
<1>1. /\ n \in Nat /\ i \in 1..n
      /\ rem \in Seq(E) /\ Len(rem) = n - 1
      /\ \A j \in 1..(n - 1) : rem[j] = IF j < i THEN list[j] ELSE list[j + 1]
    <2>1. n \in Nat /\ i \in 1..n
        OBVIOUS
    <2>2. /\ rem \in Seq(E) /\ Len(rem) = Len(list) - 1
          /\ \A j \in 1..(Len(list) - 1) : rem[j] = IF j < i THEN list[j] ELSE list[j + 1]
        BY RemoveAtIs
    <2> HIDE DEF rem
    <2> QED BY <2>1, <2>2
<1> HIDE DEF rem
<1>2. PICK f \in Views(E, list, source), g \in Views(E, rem, source) : TRUE
    BY <1>1, OfSteps
<1>3. /\ f[0] = <<>> /\ Of(list, source) = f[n]
      /\ \A j \in 1..n : f[j] = IF list[j].source = source THEN Append(f[j - 1], list[j])
                                ELSE f[j - 1]
    BY <1>2 DEF Views
<1>4. /\ g[0] = <<>> /\ Of(rem, source) = g[n - 1]
      /\ \A j \in 1..(n - 1) :
            g[j] = IF rem[j].source = source THEN Append(g[j - 1], rem[j]) ELSE g[j - 1]
    BY <1>1, <1>2 DEF Views
<1> HIDE DEF n
<1>5. f[i] = f[i - 1]
    BY <1>1, <1>3
<1> DEFINE S == {k \in Nat : k <= n - 1 => g[k] = IF k < i THEN f[k] ELSE f[k + 1]}
<1>6. 0 \in S
    BY <1>1, <1>3, <1>4
<1>7. ASSUME NEW k \in Nat, k \in S, k + 1 <= n - 1
      PROVE  g[k + 1] = IF k + 1 < i THEN f[k + 1] ELSE f[k + 2]
    <2>1. /\ k + 1 \in 1..(n - 1) /\ k + 1 \in 1..n /\ k + 2 \in 1..n
          /\ (k + 1) - 1 = k /\ (k + 2) - 1 = k + 1 /\ (k + 1) + 1 = k + 2
          /\ g[k] = IF k < i THEN f[k] ELSE f[k + 1]
        BY <1>1, <1>7
    <2>2. g[k + 1] = IF rem[k + 1].source = source THEN Append(g[k], rem[k + 1]) ELSE g[k]
        BY <1>4, <2>1
    <2>3. CASE k + 1 < i
        <3>1. g[k] = f[k] /\ rem[k + 1] = list[k + 1]
            BY <1>1, <2>1, <2>3
        <3> QED BY <1>3, <2>1, <2>2, <2>3, <3>1
    <2>4. CASE ~(k + 1 < i)
        <3>1. g[k] = f[k + 1]
            <4>1. CASE k + 1 = i
                <5>1. k < i /\ i - 1 = k
                    BY <1>1, <2>4, <4>1
                <5> QED BY <1>5, <2>1, <4>1, <5>1
            <4>2. CASE k + 1 # i
                BY <1>1, <2>1, <2>4, <4>2
            <4> QED BY <4>1, <4>2
        <3>2. rem[k + 1] = list[k + 2]
            BY <1>1, <2>1, <2>4
        <3>3. f[k + 2] = IF list[k + 2].source = source THEN Append(f[k + 1], list[k + 2])
                         ELSE f[k + 1]
            BY <1>3, <2>1
        <3> QED BY <2>2, <2>4, <3>1, <3>2, <3>3
    <2> QED BY <2>3, <2>4
<1>8. n - 1 \in S
    <2>1. \A k \in Nat : k \in S => k + 1 \in S
        BY <1>1, <1>7
    <2>2. n - 1 \in Nat
        BY <1>1
    <2> HIDE DEF S
    <2> QED BY <1>6, <2>1, <2>2, SetInduction
<1>9. g[n - 1] = f[n]
    <2>1. g[n - 1] = IF n - 1 < i THEN f[n - 1] ELSE f[n]
        BY <1>1, <1>8
    <2>2. n - 1 < i => i = n
        BY <1>1
    <2> QED BY <1>5, <2>1, <2>2
<1> QED BY <1>3, <1>4, <1>9 DEF rem

(* The look-ups by ID find the first entity that has it. *)
LEMMA IndexOfIs ==
    ASSUME NEW E, NEW list \in Seq(E), NEW id \in Ids(list)
    PROVE  /\ IndexOf(list, id) \in DOMAIN list
           /\ list[IndexOf(list, id)].id = id
<1> DEFINE I == {i \in 1..Len(list) : list[i].id = id}
<1>1. I # {} /\ I \in SUBSET Nat
    BY DEF Ids
<1>2. Min(I) \in I
    <2> HIDE DEF I
    <2> QED BY <1>1, LeastIs
<1>3. IndexOf(list, id) = Min(I)
    BY <1>1 DEF IndexOf, SelectInSeq
<1> QED BY <1>2, <1>3

(* A number between 1 and one more than the number of entities is free.    *)
LEMMA FreeNumber ==
    ASSUME NEW prefix, NEW E, NEW list \in Seq(E)
    PROVE  \E n \in 1..(Len(list) + 1) : <<prefix, n>> \notin Ids(list)
<1> DEFINE n == Len(list)
           f == [k \in 1..(n + 1) |-> CHOOSE i \in 1..n : list[i].id = <<prefix, k>>]
<1> SUFFICES ASSUME \A k \in 1..(n + 1) : <<prefix, k>> \in Ids(list)
             PROVE  FALSE
    OBVIOUS
<1>1. n \in Nat /\ DOMAIN list = 1..n
    OBVIOUS
<1>2. \A k \in 1..(n + 1) : \E i \in 1..n : list[i].id = <<prefix, k>>
    BY <1>1 DEF Ids
<1>3. \A k \in 1..(n + 1) : f[k] \in 1..n /\ list[f[k]].id = <<prefix, k>>
    BY <1>2
<1>4. f \in [1..(n + 1) -> 1..n]
    BY <1>3
<1>5. /\ IsFiniteSet(1..(n + 1)) /\ Cardinality(1..(n + 1)) = n + 1
      /\ IsFiniteSet(1..n) /\ Cardinality(1..n) = n
    <2> HIDE DEF n, f
    <2> QED BY <1>1, FS_Interval
<1>6. PICK x \in 1..(n + 1), y \in 1..(n + 1) : x # y /\ f[x] = f[y]
    <2> HIDE DEF f, n
    <2>1. Cardinality(1..n) < Cardinality(1..(n + 1))
        BY <1>1, <1>5
    <2>2. \E x, y \in 1..(n + 1) : x # y /\ f[x] = f[y]
        BY <1>4, <1>5, <2>1, FS_PigeonHole, Zenon
    <2> QED BY <2>2
<1>7. <<prefix, x>> = <<prefix, y>>
    BY <1>3, <1>6
<1> QED BY <1>6, <1>7

(* newID mints a number no entity has. *)
LEMMA NewIDIs ==
    ASSUME NEW prefix, NEW E, NEW list \in Seq(E)
    PROVE  /\ NewID(prefix, list) \in {prefix} \X (Nat \ {0})
           /\ NewID(prefix, list) \notin Ids(list)
<1> DEFINE n == Len(list)
           S == {k \in 1..(n + 1) : <<prefix, k>> \notin Ids(list)}
           Least(k) == /\ <<prefix, k>> \notin Ids(list)
                       /\ \A m \in 1..(k - 1) : <<prefix, m>> \in Ids(list)
<1>1. n \in Nat
    OBVIOUS
<1>2. S # {} /\ S \in SUBSET Nat
    <2>1. \E k \in 1..(n + 1) : <<prefix, k>> \notin Ids(list)
        BY FreeNumber, Zenon
    <2> QED BY <2>1
<1>3. Min(S) \in S /\ \A y \in S : Min(S) <= y
    <2> HIDE DEF S
    <2> QED BY <1>2, LeastIs
<1>4. \E k \in 1..(n + 1) : Least(k)
    <2>1. Min(S) \in 1..(n + 1) /\ <<prefix, Min(S)>> \notin Ids(list)
        BY <1>3
    <2>2. ASSUME NEW m \in 1..(Min(S) - 1) PROVE <<prefix, m>> \in Ids(list)
        <3>1. m \in 1..(n + 1) /\ ~(Min(S) <= m)
            <4> HIDE DEF S, n
            <4> QED BY <1>1, <2>1
        <3>2. m \notin S
            <4> HIDE DEF S
            <4> QED BY <1>3, <3>1
        <3> QED BY <3>1, <3>2
    <2> HIDE DEF S
    <2> QED BY <2>1, <2>2
<1> DEFINE k == CHOOSE j \in 1..(n + 1) : Least(j)
<1>5. k \in 1..(n + 1) /\ Least(k)
    <2> HIDE DEF Least
    <2> QED BY <1>4
<1>6. NewID(prefix, list) = <<prefix, k>>
    BY DEF NewID
<1> HIDE DEF k
<1> QED BY <1>1, <1>5, <1>6

-----------------------------------------------------------------------------
(* Merge. *)

(* A sequence whose elements are all in T. *)
LEMMA Retyped ==
    ASSUME NEW E, NEW T, NEW list \in Seq(E), \A i \in DOMAIN list : list[i] \in T
    PROVE  list \in Seq(T)
<1>1. Len(list) \in Nat /\ list \in [1..Len(list) -> T] /\ DOMAIN list = 1..Len(list)
    BY LenProperties
<1> QED BY <1>1

LEMMA ConcatIs ==
    ASSUME NEW E, NEW x \in Seq(E), NEW y \in Seq(E)
    PROVE  /\ x \o y \in Seq(E)
           /\ ToSet(x \o y) = ToSet(x) \cup ToSet(y)
<1> DEFINE z == x \o y
<1>1. /\ z \in Seq(E) /\ Len(z) = Len(x) + Len(y)
      /\ \A k \in 1..(Len(x) + Len(y)) : z[k] = IF k <= Len(x) THEN x[k] ELSE y[k - Len(x)]
    BY ConcatProperties
<1>2. /\ Len(x) \in Nat /\ Len(y) \in Nat
      /\ DOMAIN x = 1..Len(x) /\ DOMAIN y = 1..Len(y) /\ DOMAIN z = 1..Len(z)
    BY <1>1, LenProperties
<1> HIDE DEF z
<1>3. \A i \in DOMAIN x : i \in DOMAIN z /\ z[i] = x[i]
    BY <1>1, <1>2
<1>4. \A i \in DOMAIN y : i + Len(x) \in DOMAIN z /\ z[i + Len(x)] = y[i]
    BY <1>1, <1>2
<1>5. ASSUME NEW k \in DOMAIN z
      PROVE  \/ \E i \in DOMAIN x : z[k] = x[i]
             \/ \E i \in DOMAIN y : z[k] = y[i]
    <2>1. CASE k <= Len(x)
        <3>1. k \in DOMAIN x /\ z[k] = x[k]
            BY <1>1, <1>2, <2>1
        <3> QED BY <3>1
    <2>2. CASE ~(k <= Len(x))
        <3>1. k - Len(x) \in DOMAIN y /\ z[k] = y[k - Len(x)]
            BY <1>1, <1>2, <2>2
        <3> QED BY <3>1
    <2> QED BY <2>1, <2>2
<1>6. z \in Seq(E) /\ ToSet(z) = ToSet(x) \cup ToSet(y)
    <2>1. ToSet(x) \cup ToSet(y) \subseteq ToSet(z)
        BY <1>3, <1>4 DEF ToSet
    <2>2. ToSet(z) \subseteq ToSet(x) \cup ToSet(y)
        BY <1>5 DEF ToSet
    <2> QED BY <1>1, <2>1, <2>2
<1> QED BY <1>6 DEF z

(* The usable entries are keys. *)
LEMMA DistinctIs ==
    ASSUME NEW offer \in Seq(Keys \cup {Unusable})
    PROVE  Distinct(offer) \in Seq(Keys)
<1> DEFINE E == Keys \cup {Unusable}
           K == {i \in DOMAIN offer : /\ offer[i] # Unusable
                                      /\ \A j \in 1..(i - 1) : offer[j] # offer[i]}
           d == Filter(offer, K)
<1>1. d \in Seq(E) /\ ToSet(d) = {offer[i] : i \in K \cap DOMAIN offer}
    <2> HIDE DEF K
    <2> QED BY FilterIs
<1>2. \A i \in K : offer[i] \in Keys
    <2>1. DOMAIN offer = 1..Len(offer) /\ \A i \in 1..Len(offer) : offer[i] \in E
        OBVIOUS
    <2> QED BY <2>1
<1>3. \A j \in DOMAIN d : d[j] \in Keys
    <2> HIDE DEF d, K
    <2> QED BY <1>1, <1>2 DEF ToSet
<1>4. d \in Seq(Keys)
    <2> HIDE DEF d
    <2> QED BY <1>1, <1>3, Retyped
<1> QED BY <1>4 DEF Distinct

(* A merge leaves well-formed servers and touches none of another source,  *)
(* takes a server away only when it is not offered and has missed its last *)
(* answer, and ends with a fresh server for each entry of the offer.       *)
MergedLists(s, source, offer) ==
    {list \in Seq(Server) :
       /\ Merge(s, source, offer) = [s EXCEPT !.servers = list]
       /\ \A v \in ToSet(list) :
             \/ v.source = source
             \/ \E i \in DOMAIN s.servers : v.source = s.servers[i].source
       /\ \A i \in DOMAIN s.servers :
             \/ s.servers[i].id \in Ids(list)
             \/ /\ s.servers[i].source = source
                /\ ~Contains(Distinct(offer), Key(s.servers[i]))
                /\ s.servers[i].misses + 1 >= StaleAfterUpdates
       /\ \A k \in ToSet(Distinct(offer)) : \E v \in ToSet(list) :
             v.source = source /\ Key(v) = k /\ ~v.stale /\ v.misses = 0
       /\ \A a : a # source => Of(list, a) = Of(s.servers, a)}

(* What a missed answer and a refresh leave of a server. *)
LEMMA AgedIs ==
    ASSUME NEW v \in Server
    PROVE  /\ Missed(v) \in Server /\ Refreshed(v) \in Server
           /\ Missed(v).id = v.id /\ Refreshed(v).id = v.id
           /\ Missed(v).source = v.source /\ Refreshed(v).source = v.source
           /\ Missed(v).name = v.name /\ Refreshed(v).name = v.name
           /\ Missed(v).addr = v.addr /\ Refreshed(v).addr = v.addr
           /\ v.misses \in Int /\ Missed(v).misses = v.misses + 1
           /\ ~Refreshed(v).stale /\ Refreshed(v).misses = 0
<1> DEFINE d == [v EXCEPT !.stale = TRUE]
           m == [d EXCEPT !.misses = v.misses + 1]
           e == [v EXCEPT !.stale = FALSE]
           r == [e EXCEPT !.misses = 0]
           Alike(w) == /\ w.id = v.id /\ w.source = v.source
                       /\ w.name = v.name /\ w.addr = v.addr
<1>1. d \in Server /\ Alike(d) /\ v.misses \in Int
    BY DEF Server
<1>2. m \in Server /\ Alike(m) /\ m.misses = v.misses + 1
    <2> HIDE DEF d
    <2> QED BY <1>1 DEF Server
<1>3. e \in Server /\ Alike(e) /\ ~e.stale
    BY DEF Server
<1>4. r \in Server /\ Alike(r) /\ ~r.stale /\ r.misses = 0
    <2> HIDE DEF e
    <2> QED BY <1>3 DEF Server
<1>5. Missed(v) = m /\ Refreshed(v) = r
    BY DEF Missed, Refreshed
<1> HIDE DEF m, r
<1> QED BY <1>1, <1>2, <1>4, <1>5

LEMMA MergeIs ==
    ASSUME StaleAfterUpdates \in Nat \ {0},
           NEW s, s.servers \in Seq(Server), NEW source \in SubIds,
           NEW offer \in Seq(Keys \cup {Unusable})
    PROVE  MergedLists(s, source, offer) # {}
<1> DEFINE servers == s.servers
           keys == Distinct(offer)
           old == [i \in DOMAIN servers |-> Aged(servers, source, keys, i)]
           K == {i \in DOMAIN old : \/ old[i].source # source
                                    \/ Contains(keys, Key(old[i]))
                                    \/ old[i].misses < StaleAfterUpdates}
           kept == Filter(old, K)
           N == {i \in DOMAIN keys : Matches(servers, source, keys[i]) = {}}
           new == Filter(keys, N)
           born == [i \in DOMAIN new |->
                      [id |-> ServerID(source, new[i]), source |-> source,
                       name |-> new[i].name, addr |-> new[i].addr,
                       stale |-> FALSE, misses |-> 0]]
<1>1. Merge(s, source, offer) = [s EXCEPT !.servers = kept \o born]
    BY DEF Merge
<1>2. /\ Len(servers) \in Nat /\ DOMAIN servers = 1..Len(servers)
      /\ \A i \in DOMAIN servers : servers[i] \in Server
    OBVIOUS
<1>3. keys \in Seq(Keys)
    BY DistinctIs
<1> HIDE DEF keys, servers
<1>4. ASSUME NEW i \in DOMAIN servers
      PROVE  /\ old[i] \in Server
             /\ old[i].id = servers[i].id /\ old[i].source = servers[i].source
             /\ Key(old[i]) = Key(servers[i])
             /\ servers[i].source # source => old[i] = servers[i] /\ i \in K
             /\ Contains(keys, Key(servers[i])) => i \in K
             /\ i \notin K => /\ servers[i].source = source
                           /\ ~Contains(keys, Key(servers[i]))
                           /\ servers[i].misses + 1 >= StaleAfterUpdates
    <2> DEFINE v == servers[i]
               Alike(w) == /\ w \in Server /\ w.id = v.id /\ w.source = v.source
                           /\ w.name = v.name /\ w.addr = v.addr
               has == Contains(keys, Key(v))
    <2>1. v \in Server
        BY <1>2
    <2> HIDE DEF v, has
    <2>2. Alike(v) /\ Alike(Missed(v)) /\ Alike(Refreshed(v))
          /\ Missed(v).misses = v.misses + 1 /\ v.misses \in Int
        <3>1. Alike(Missed(v)) /\ Missed(v).misses = v.misses + 1 /\ v.misses \in Int
            BY <2>1, AgedIs
        <3>2. Alike(Refreshed(v))
            BY <2>1, AgedIs
        <3> QED BY <2>1, <3>1, <3>2
    <2>3. /\ old[i] \in {v, Missed(v), Refreshed(v)}
          /\ v.source # source => old[i] = v
          /\ v.source = source /\ ~has => old[i] = Missed(v)
        BY DEF Aged, v, has
    <2>4. DOMAIN old = DOMAIN servers
        OBVIOUS
    <2> HIDE DEF old
    <2>5. Alike(old[i])
        BY <2>2, <2>3
    <2>6. Key(old[i]) = Key(v)
        BY <2>5 DEF Key
    <2>7. i \in K <=> v.source # source \/ has \/ old[i].misses < StaleAfterUpdates
        BY <2>4, <2>5, <2>6 DEF has
    <2> HIDE DEF K
    <2>8. i \notin K => v.source = source /\ ~has /\ v.misses + 1 >= StaleAfterUpdates
        BY <2>2, <2>3, <2>7
    <2> HIDE DEF Server
    <2> QED BY <2>3, <2>5, <2>6, <2>7, <2>8 DEF v, has
<1>5. old \in Seq(Server) /\ DOMAIN old = DOMAIN servers
    <2>1. \A i \in DOMAIN servers : old[i] \in Server
        BY <1>4
    <2> HIDE DEF Server
    <2>2. old \in [1..Len(servers) -> Server]
        BY <1>2, <2>1
    <2> QED BY <1>2, <2>2
<1>6. kept \in Seq(Server) /\ ToSet(kept) = {old[i] : i \in K \cap DOMAIN old}
    <2> HIDE DEF old, K, Server
    <2> QED BY <1>5, FilterIs
<1>8. new \in Seq(Keys) /\ ToSet(new) = {keys[i] : i \in N \cap DOMAIN keys}
    <2> HIDE DEF N
    <2> QED BY <1>3, FilterIs
<1>9. /\ born \in Seq(Server) /\ DOMAIN born = DOMAIN new
      /\ \A i \in DOMAIN born : /\ born[i].source = source /\ Key(born[i]) = new[i]
                                /\ ~born[i].stale /\ born[i].misses = 0
    <2>1. Len(new) \in Nat /\ DOMAIN new = 1..Len(new) /\ \A i \in DOMAIN new : new[i] \in Keys
        <3> HIDE DEF new
        <3> QED BY <1>8
    <2> HIDE DEF new
    <2>2. \A i \in DOMAIN new : /\ born[i] \in Server /\ born[i].source = source
                                /\ Key(born[i]) = new[i]
                                /\ ~born[i].stale /\ born[i].misses = 0
        <3>1. \A i \in DOMAIN new : new[i] = [name |-> new[i].name, addr |-> new[i].addr]
            BY <2>1 DEF Keys
        <3> QED BY <2>1, <3>1 DEF Server, Keys, ServerID, ServerIds, Key
    <2>3. born \in [1..Len(new) -> Server] /\ DOMAIN born = DOMAIN new
        <3> HIDE DEF Server
        <3> QED BY <2>1, <2>2
    <2> QED BY <2>1, <2>2, <2>3
<1> DEFINE list == kept \o born
<1>10. list \in Seq(Server) /\ ToSet(list) = ToSet(kept) \cup ToSet(born)
    <2> HIDE DEF kept, born
    <2> QED BY <1>6, <1>9, ConcatIs
<1> HIDE DEF list
<1>11. ASSUME NEW v \in ToSet(list)
       PROVE  \/ v.source = source
              \/ \E i \in DOMAIN servers : v.source = servers[i].source
    <2>1. CASE v \in ToSet(kept)
        <3> HIDE DEF kept, K, old
        <3>1. PICK i \in DOMAIN old : old[i] = v
            BY <1>6, <2>1
        <3> QED BY <1>4, <1>5, <3>1
    <2>2. CASE v \in ToSet(born)
        <3> HIDE DEF born
        <3> QED BY <1>9, <2>2 DEF ToSet
    <2> QED BY <1>10, <2>1, <2>2
<1>12. ASSUME NEW i \in DOMAIN servers
       PROVE  \/ servers[i].id \in Ids(list)
              \/ /\ servers[i].source = source
                 /\ ~Contains(keys, Key(servers[i]))
                 /\ servers[i].misses + 1 >= StaleAfterUpdates
    <2> HIDE DEF kept, K, old
    <2>1. CASE i \in K
        <3>1. old[i] \in ToSet(list)
            BY <1>5, <1>6, <1>10, <2>1
        <3>2. \E k \in DOMAIN list : list[k] = old[i]
            BY <3>1 DEF ToSet
        <3> QED BY <1>4, <3>2 DEF Ids
    <2>2. CASE i \notin K
        BY <1>4, <2>2
    <2> QED BY <2>1, <2>2
<1>13. ASSUME NEW a, a # source PROVE Of(list, a) = Of(servers, a)
    <2>1. ASSUME NEW i \in DOMAIN servers
          PROVE  IF servers[i].source = a THEN i \in K /\ old[i] = servers[i]
                 ELSE old[i].source # a
        BY <1>4, <1>13
    <2>2. servers \in Seq(Server)
        BY DEF servers
    <2>3. Len(old) = Len(servers)
        BY <1>2, <1>5
    <2>4. Of(kept, a) = Of(servers, a)
        <3> HIDE DEF old, K, N, new, born, servers, keys, list, kept
        <3>1. old \in Seq(Server)
            BY <1>5
        <3> HIDE DEF Server
        <3>2. Of(Filter(old, K), a) = Of(servers, a)
            BY <2>1, <2>2, <2>3, <3>1, OfFilter
        <3> QED BY <3>2 DEF kept
    <2> HIDE DEF old, K, N, new
    <2>5. /\ Len(kept) <= Len(list)
          /\ \A i \in DOMAIN kept : list[i] = kept[i]
          /\ \A i \in DOMAIN list \ DOMAIN kept : list[i].source # a
        <3> HIDE DEF kept, born
        <3>1. /\ Len(kept) \in Nat /\ Len(born) \in Nat
              /\ DOMAIN kept = 1..Len(kept) /\ DOMAIN born = 1..Len(born)
              /\ Len(list) = Len(kept) + Len(born) /\ DOMAIN list = 1..Len(list)
              /\ \A k \in 1..(Len(kept) + Len(born)) :
                    list[k] = IF k <= Len(kept) THEN kept[k] ELSE born[k - Len(kept)]
            BY <1>6, <1>9, <1>10, ConcatProperties, LenProperties DEF list
        <3>2. ASSUME NEW i \in DOMAIN list \ DOMAIN kept PROVE list[i].source # a
            <4>1. i - Len(kept) \in DOMAIN born /\ list[i] = born[i - Len(kept)]
                BY <3>1
            <4> QED BY <1>9, <1>13, <4>1
        <3> QED BY <3>1, <3>2
    <2>6. Of(list, a) = Of(kept, a)
        <3> HIDE DEF kept, born
        <3>1. \A i \in DOMAIN kept : IF kept[i].source = a THEN list[i] = kept[i]
                                     ELSE list[i].source # a
            BY <2>5
        <3>2. kept \in Seq(Server) /\ list \in Seq(Server)
            BY <1>6, <1>10
        <3> HIDE DEF Server
        <3> QED BY <2>5, <3>1, <3>2, OfSame
    <2> QED BY <2>4, <2>6
<1>14. ASSUME NEW k \in ToSet(keys)
       PROVE  \E v \in ToSet(list) :
                 v.source = source /\ Key(v) = k /\ ~v.stale /\ v.misses = 0
    <2> DEFINE M == Matches(servers, source, k)
    <2>1. PICK n \in DOMAIN keys : keys[n] = k
        BY DEF ToSet
    <2>2. CASE M = {}
        <3>1. k \in ToSet(new)
            <4>1. n \in N
                BY <2>1, <2>2
            <4> HIDE DEF N, new
            <4> QED BY <1>8, <2>1, <4>1
        <3> HIDE DEF new, born
        <3>2. PICK i \in DOMAIN new : new[i] = k
            BY <3>1 DEF ToSet
        <3>3. born[i] \in ToSet(list)
            BY <1>9, <1>10, <3>2 DEF ToSet
        <3> QED BY <1>9, <3>2, <3>3
    <2>3. CASE M # {}
        <3>1. Max(M) \in M
            <4>1. M \in SUBSET Nat /\ \A i \in M : i <= Len(servers)
                BY <1>2 DEF Matches
            <4> HIDE DEF M
            <4> QED BY <1>2, <2>3, <4>1, GreatestIs
        <3> DEFINE i == Max(M)
        <3>2. i \in DOMAIN servers /\ servers[i].source = source /\ Key(servers[i]) = k
            BY <3>1 DEF Matches
        <3>3. Contains(keys, Key(servers[i]))
            BY <1>3, <2>1, <3>2 DEF Contains
        <3>4. i = Max(Matches(servers, source, Key(servers[i])))
            BY <3>2
        <3> HIDE DEF i
        <3>5. old[i] = Refreshed(servers[i])
            BY <3>2, <3>3, <3>4 DEF Aged
        <3>6. ~Refreshed(servers[i]).stale /\ Refreshed(servers[i]).misses = 0
            BY <1>2, <3>2, AgedIs
        <3> HIDE DEF kept, K, old
        <3>7. /\ ~old[i].stale /\ old[i].misses = 0
              /\ old[i].source = source /\ Key(old[i]) = k /\ i \in K
            BY <1>4, <3>2, <3>3, <3>5, <3>6
        <3>8. old[i] \in ToSet(list)
            BY <1>5, <1>6, <1>10, <3>2, <3>7
        <3> QED BY <3>7, <3>8
    <2> QED BY <2>2, <2>3
<1>15. Merge(s, source, offer) = [s EXCEPT !.servers = list]
    BY <1>1 DEF list
<1> QED
    <2> HIDE DEF kept, born, old, K, N, new
    <2>1. list \in MergedLists(s, source, offer)
        BY <1>10, <1>11, <1>12, <1>13, <1>14, <1>15 DEF servers, keys, MergedLists
    <2> QED BY <2>1
=============================================================================
