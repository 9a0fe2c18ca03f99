----------------------------- MODULE ListsProofs -----------------------------
(* What Without returns, for any list.  The library's principles of induction *)
(* take an operator, which the provers cannot supply; UpTo takes a set, and   *)
(* the lemmas about recursive functions rest on it: the recursion has a       *)
(* solution, and what is to be shown holds of every prefix of the list.       *)
EXTENDS Lists, SequencesExt, SequenceTheorems, WellFoundedInduction,
        FiniteSetTheorems, TLAPS

\* Induction up to a number: a set that holds 0 and, below n, the successor
\* of whatever it holds, holds 0..n.
LEMMA UpTo ==
    ASSUME NEW n \in Nat, NEW S, 0 \in S, \A i \in 0..(n - 1) : i \in S => i + 1 \in S
    PROVE  0..n \subseteq S
  <1> DEFINE T == {i \in 0..n : i \notin S}
  <1>1. SUFFICES ASSUME T # {} PROVE FALSE
    OBVIOUS
  <1>2. PICK x \in T : \A y \in T : ~(<<y, x>> \in OpToRel(<, Nat))
    <2>1. T \subseteq Nat OBVIOUS
    <2> HIDE DEF T
    <2> QED BY <1>1, <2>1, NatLessThanWellFounded, WFMin
  <1>3. x \in 0..n /\ x \notin S /\ x # 0
    BY <1>2
  <1>4. x - 1 \in 0..(n - 1) /\ (x - 1) + 1 = x /\ x - 1 \in 0..n /\ x - 1 < x
    BY <1>3
  <1>5. <<x - 1, x>> \in OpToRel(<, Nat)
    <2>1. <<x - 1, x>> \in Nat \X Nat BY <1>3, <1>4
    <2>2. <<x - 1, x>>[1] < <<x - 1, x>>[2] BY <1>4
    <2> QED BY <2>1, <2>2, Zenon DEF OpToRel
  <1>6. x - 1 \in S
    BY <1>2, <1>4, <1>5
  <1> QED BY <1>3, <1>4, <1>6

\* g takes a value of D to the next one, at each step of n; f are the values
\* from x on.
Stepping(g, n, D) == g \in [(1..n) \X D -> D]

Stepped(f, g, n, D, x) ==
    f \in [0..n -> D] /\ f[0] = x /\ \A i \in 1..n : f[i] = g[<<i, f[i - 1]>>]

\* A recursion over 1..n in a set D of values has a solution.
LEMMA Recursion ==
    ASSUME NEW n \in Nat, NEW D, NEW x \in D, NEW g, Stepping(g, n, D)
    PROVE  \E f : Stepped(f, g, n, D, x)
  <1> USE DEF Stepping
  <1> DEFINE Solves(f, m) == f[0] = x /\ \A i \in 1..m : f[i] = g[<<i, f[i - 1]>>]
             S == {m \in 0..n : \E f \in [0..m -> D] : Solves(f, m)}
  <1>1. 0 \in S
    <2> DEFINE f == [i \in 0..0 |-> x]
    <2>1. f \in [0..0 -> D] /\ f[0] = x OBVIOUS
    <2>2. Solves(f, 0) BY <2>1
    <2>3. 0 \in 0..n OBVIOUS
    <2> HIDE DEF f
    <2> QED BY <2>1, <2>2, <2>3
  <1>2. ASSUME NEW m \in 0..(n - 1), m \in S PROVE m + 1 \in S
    <2>1. PICK f \in [0..m -> D] : Solves(f, m) BY <1>2
    <2> DEFINE h == [i \in 0..(m + 1) |-> IF i <= m THEN f[i] ELSE g[<<m + 1, f[m]>>]]
    <2>2. f[m] \in D /\ <<m + 1, f[m]>> \in (1..n) \X D BY <2>1
    <2>3. g[<<m + 1, f[m]>>] \in D BY <2>2
    <2>4. h \in [0..(m + 1) -> D] BY <2>1, <2>3
    <2>5. h[m + 1] = g[<<m + 1, f[m]>>] /\ \A i \in 0..m : h[i] = f[i] OBVIOUS
    <2> HIDE DEF h
    <2>6. ASSUME NEW i \in 1..(m + 1) PROVE h[i] = g[<<i, h[i - 1]>>]
      <3>1. CASE i <= m
        <4>1. i \in 1..m /\ i \in 0..m /\ i - 1 \in 0..m BY <3>1
        <4>2. f[i] = g[<<i, f[i - 1]>>] BY <2>1, <4>1
        <4> QED BY <2>5, <4>1, <4>2
      <3>2. CASE i = m + 1
        <4>1. i - 1 = m /\ m \in 0..m BY <3>2
        <4> QED BY <2>5, <3>2, <4>1
      <3> QED BY <3>1, <3>2
    <2>7. h[0] = x BY <2>1, <2>5
    <2>8. Solves(h, m + 1) BY <2>6, <2>7
    <2>9. m + 1 \in 0..n OBVIOUS
    <2> QED BY <2>4, <2>8, <2>9
  <1>3. 0..n \subseteq S
    <2> HIDE DEF S
    <2> QED BY <1>1, <1>2, UpTo
  <1>4. n \in 0..n OBVIOUS
  <1>5. n \in S
    <2> HIDE DEF S
    <2> QED BY <1>3, <1>4
  <1> QED BY <1>5 DEF Stepped

-----------------------------------------------------------------------------
(* Without.                                                                *)

\* f is what is kept of the prefixes of s up to m, when gone is removed.
Keeps(f, s, gone, m) ==
    f = [i \in 0..m |->
           IF i = 0 THEN <<>>
           ELSE IF s[i] \in gone THEN f[i - 1] ELSE Append(f[i - 1], s[i])]

\* The recursion of Without has a solution.
LEMMA KeepsExists ==
    ASSUME NEW U, NEW s \in Seq(U), NEW gone
    PROVE  \E f : Keeps(f, s, gone, Len(s))
  <1> DEFINE n == Len(s)
             S == {m \in 0..n : \E f : Keeps(f, s, gone, m)}
  <1>1. n \in Nat OBVIOUS
  <1> HIDE DEF n
  <1>2. 0 \in S
    <2>1. Keeps([i \in 0..0 |-> <<>>], s, gone, 0) BY DEF Keeps
    <2>2. 0 \in 0..n BY <1>1
    <2> QED BY <2>1, <2>2
  <1>3. ASSUME NEW m \in 0..(n - 1), m \in S PROVE m + 1 \in S
    <2>1. PICK f : Keeps(f, s, gone, m) BY <1>3
    <2> DEFINE g == [i \in 0..(m + 1) |->
                       IF i <= m THEN f[i]
                       ELSE IF s[m + 1] \in gone THEN f[m] ELSE Append(f[m], s[m + 1])]
    <2>2. m \in Nat BY <1>1
    <2>3. \A i \in 0..m : g[i] = f[i] BY <2>2
    <2>4. g[m + 1] = IF s[m + 1] \in gone THEN f[m] ELSE Append(f[m], s[m + 1])
      BY <2>2
    <2>5. \A i \in 0..m : f[i] = IF i = 0 THEN <<>>
                                 ELSE IF s[i] \in gone THEN f[i - 1] ELSE Append(f[i - 1], s[i])
      BY <2>1 DEF Keeps
    <2>6. g = [i \in 0..(m + 1) |-> g[i]] OBVIOUS
    <2> HIDE DEF g
    <2>7. ASSUME NEW i \in 0..(m + 1)
          PROVE  g[i] = IF i = 0 THEN <<>>
                        ELSE IF s[i] \in gone THEN g[i - 1] ELSE Append(g[i - 1], s[i])
      <3>1. CASE i \in 0..m
        <4>1. i # 0 => i - 1 \in 0..m BY <2>2
        <4> QED BY <2>3, <2>5, <3>1, <4>1
      <3>2. CASE i = m + 1
        <4>1. i # 0 /\ i - 1 = m /\ m \in 0..m BY <2>2, <3>2
        <4> QED BY <2>3, <2>4, <3>2, <4>1
      <3> QED BY <2>2, <3>1, <3>2
    <2>8. Keeps(g, s, gone, m + 1) BY <2>6, <2>7 DEF Keeps
    <2>9. m + 1 \in 0..n BY <1>1
    <2> QED BY <2>8, <2>9
  <1>4. 0..n \subseteq S
    <2> HIDE DEF S
    <2> QED BY <1>1, <1>2, <1>3, UpTo
  <1>5. n \in S BY <1>1, <1>4
  <1> QED BY <1>5 DEF n

\* Without is the last of the prefixes' values.
LEMMA WithoutKeeps ==
    ASSUME NEW U, NEW s \in Seq(U), NEW gone
    PROVE  \E f : Keeps(f, s, gone, Len(s)) /\ Without(s, gone) = f[Len(s)]
  <1> DEFINE kept == CHOOSE f : f = [i \in 0..Len(s) |->
                         IF i = 0 THEN <<>>
                         ELSE IF s[i] \in gone THEN f[i - 1] ELSE Append(f[i - 1], s[i])]
  <1>1. \E f : f = [i \in 0..Len(s) |->
                         IF i = 0 THEN <<>>
                         ELSE IF s[i] \in gone THEN f[i - 1] ELSE Append(f[i - 1], s[i])]
    <2>1. PICK f : Keeps(f, s, gone, Len(s)) BY KeepsExists
    <2> QED BY <2>1, Zenon DEF Keeps
  <1>2. kept = [i \in 0..Len(s) |->
                  IF i = 0 THEN <<>>
                  ELSE IF s[i] \in gone THEN kept[i - 1] ELSE Append(kept[i - 1], s[i])]
    BY <1>1, Zenon
  <1>3. Without(s, gone) = kept[Len(s)]
    BY Zenon DEF Without
  <1> HIDE DEF kept
  <1> QED BY <1>2, <1>3 DEF Keeps

\* What is left of a list has the elements of the list but those removed.
LEMMA WithoutElements ==
    ASSUME NEW U, NEW s \in Seq(U), NEW gone
    PROVE  /\ Without(s, gone) \in Seq(U)
           /\ Len(Without(s, gone)) <= Len(s)
           /\ ToSet(Without(s, gone)) = ToSet(s) \ gone
  <1> DEFINE n == Len(s)
  <1>1. n \in Nat OBVIOUS
  <1>2. PICK f : Keeps(f, s, gone, n) /\ Without(s, gone) = f[n] BY WithoutKeeps
  <1> DEFINE Kept(m) == /\ f[m] \in Seq(U) /\ Len(f[m]) <= m
                        /\ {f[m][i] : i \in 1..Len(f[m])} = {s[i] : i \in 1..m} \ gone
             S == {m \in 0..n : Kept(m)}
  <1>3. \A i \in 0..n : f[i] = IF i = 0 THEN <<>>
                                ELSE IF s[i] \in gone THEN f[i - 1] ELSE Append(f[i - 1], s[i])
    BY <1>2 DEF Keeps
  <1>4. \A i \in 1..n : s[i] \in U OBVIOUS
  <1> HIDE DEF n
  <1>5. 0 \in S
    <2>1. 0 \in 0..n BY <1>1
    <2>2. f[0] = <<>> BY <1>3, <2>1
    <2>3. Kept(0) BY <2>2
    <2> HIDE DEF Kept
    <2> QED BY <2>1, <2>3
  <1>6. ASSUME NEW m \in 0..(n - 1), m \in S PROVE m + 1 \in S
    <2>1. /\ m \in Nat /\ m + 1 \in 0..n /\ m + 1 \in 1..n /\ m + 1 # 0 /\ (m + 1) - 1 = m
          /\ f[m] \in Seq(U) /\ Len(f[m]) <= m
          /\ {f[m][i] : i \in 1..Len(f[m])} = {s[i] : i \in 1..m} \ gone
      <3>1. Kept(m)
        <4> HIDE DEF Kept
        <4> QED BY <1>6
      <3>2. m \in Nat /\ m + 1 \in 0..n /\ m + 1 \in 1..n /\ m + 1 # 0 /\ (m + 1) - 1 = m
        BY <1>1
      <3> QED BY <3>1, <3>2, Zenon
    <2>2. f[m + 1] = IF s[m + 1] \in gone THEN f[m] ELSE Append(f[m], s[m + 1])
      BY <1>3, <2>1
    <2>3. {s[i] : i \in 1..(m + 1)} = {s[i] : i \in 1..m} \cup {s[m + 1]}
      BY <2>1
    <2>4. CASE s[m + 1] \in gone
      <3>1. f[m + 1] = f[m] BY <2>2, <2>4
      <3>2. {s[i] : i \in 1..(m + 1)} \ gone = {s[i] : i \in 1..m} \ gone BY <2>3, <2>4
      <3>3. Kept(m + 1) BY <2>1, <3>1, <3>2
      <3> HIDE DEF Kept
      <3> QED BY <2>1, <3>3
    <2>5. CASE s[m + 1] \notin gone
      <3> DEFINE k == Len(f[m])
      <3>1. f[m + 1] = Append(f[m], s[m + 1]) BY <2>2, <2>5
      <3>2. /\ f[m + 1] \in Seq(U) /\ Len(f[m + 1]) = k + 1 /\ k \in Nat
            /\ \A i \in 1..k : f[m + 1][i] = f[m][i]
            /\ f[m + 1][k + 1] = s[m + 1]
        BY <1>4, <2>1, <3>1, AppendProperties
      <3> HIDE DEF k
      <3>3. {f[m + 1][i] : i \in 1..(k + 1)} = {f[m][i] : i \in 1..k} \cup {s[m + 1]}
        BY <3>2
      <3>4. {s[i] : i \in 1..(m + 1)} \ gone = ({s[i] : i \in 1..m} \ gone) \cup {s[m + 1]}
        BY <2>3, <2>5
      <3>5. {f[m + 1][i] : i \in 1..(k + 1)} = {s[i] : i \in 1..(m + 1)} \ gone
        BY <2>1, <3>3, <3>4 DEF k
      <3>6. k + 1 <= m + 1 BY <2>1, <3>2 DEF k
      <3>7. Kept(m + 1) BY <3>2, <3>5, <3>6
      <3> HIDE DEF Kept
      <3> QED BY <2>1, <3>7
    <2> QED BY <2>4, <2>5
  <1>7. 0..n \subseteq S
    <2> HIDE DEF S
    <2> QED BY <1>1, <1>5, <1>6, UpTo
  <1>8. Kept(n)
    <2> HIDE DEF Kept
    <2> QED BY <1>1, <1>7
  <1>9. \A t \in Seq(U) : ToSet(t) = {t[i] : i \in 1..Len(t)} BY DEF ToSet
  <1> QED BY <1>2, <1>8, <1>9 DEF n

\* A node is put at the head of a list.
LEMMA ConsElements ==
    ASSUME NEW U, NEW s \in Seq(U), NEW e \in U
    PROVE  /\ <<e>> \o s \in Seq(U) /\ Len(<<e>> \o s) = Len(s) + 1
           /\ (<<e>> \o s)[1] = e
           /\ \A i \in 1..Len(s) : (<<e>> \o s)[i + 1] = s[i]
           /\ ToSet(<<e>> \o s) = {e} \cup ToSet(s)
  <1> DEFINE t == <<e>> \o s
             n == Len(s)
  <1>1. n \in Nat /\ <<e>> \in Seq(U) /\ Len(<<e>>) = 1 /\ <<e>>[1] = e OBVIOUS
  <1>2. /\ t \in Seq(U) /\ Len(t) = 1 + n
        /\ \A i \in 1..(1 + n) : t[i] = IF i <= 1 THEN <<e>>[i] ELSE s[i - 1]
    BY <1>1, ConcatProperties
  <1>3. ToSet(t) = {t[i] : i \in 1..(1 + n)} /\ ToSet(s) = {s[i] : i \in 1..n}
    <2>1. \A r \in Seq(U) : ToSet(r) = {r[i] : i \in 1..Len(r)} BY DEF ToSet
    <2> HIDE DEF t
    <2> QED BY <1>2, <2>1
  <1> HIDE DEF t, n
  <1>4. t[1] = e BY <1>1, <1>2
  <1>5. \A i \in 1..n : i + 1 \in 1..(1 + n) /\ t[i + 1] = s[i]
    <2> TAKE i \in 1..n
    <2>1. i + 1 \in 1..(1 + n) /\ ~(i + 1 <= 1) /\ (i + 1) - 1 = i BY <1>1
    <2> QED BY <1>2, <2>1
  <1>6. \A i \in 1..(1 + n) : i = 1 \/ (i - 1 \in 1..n /\ t[i] = s[i - 1])
    BY <1>1, <1>2
  <1>7. ToSet(t) = {e} \cup ToSet(s)
    <2>1. ASSUME NEW x \in ToSet(t) PROVE x \in {e} \cup ToSet(s)
      BY <1>3, <1>4, <1>6, <2>1
    <2>2. ASSUME NEW x \in {e} \cup ToSet(s) PROVE x \in ToSet(t)
      <3>1. 1 \in 1..(1 + n) BY <1>1
      <3>2. CASE x = e BY <1>3, <1>4, <3>1, <3>2
      <3>3. CASE x \in ToSet(s)
        <4>1. PICK i \in 1..n : x = s[i] BY <1>3, <3>3
        <4> QED BY <1>3, <1>5, <4>1
      <3> QED BY <2>2, <3>2, <3>3
    <2> QED BY <2>1, <2>2
  <1>8. 1 + n = n + 1 BY <1>1
  <1> QED BY <1>2, <1>4, <1>5, <1>7, <1>8 DEF t, n

\* Nothing is on a list twice.
Distinct(s) == \A i, j \in 1..Len(s) : s[i] = s[j] => i = j

\* What is left of a list without doubles has none.
LEMMA WithoutDistinct ==
    ASSUME NEW U, NEW s \in Seq(U), NEW gone, Distinct(s)
    PROVE  Distinct(Without(s, gone))
  <1> DEFINE n == Len(s)
  <1>1. n \in Nat OBVIOUS
  <1>2. PICK f : Keeps(f, s, gone, n) /\ Without(s, gone) = f[n] BY WithoutKeeps
  <1> DEFINE Kept(m) == /\ f[m] \in Seq(U) /\ Distinct(f[m])
                        /\ \A i \in 1..Len(f[m]) : \E k \in 1..m : f[m][i] = s[k]
             S == {m \in 0..n : Kept(m)}
  <1>3. \A i \in 0..n : f[i] = IF i = 0 THEN <<>>
                                ELSE IF s[i] \in gone THEN f[i - 1] ELSE Append(f[i - 1], s[i])
    BY <1>2 DEF Keeps
  <1>4. /\ \A i \in 1..n : s[i] \in U
        /\ \A i, j \in 1..n : s[i] = s[j] => i = j
    BY DEF Distinct
  <1> HIDE DEF n
  <1>5. 0 \in S
    <2>1. 0 \in 0..n BY <1>1
    <2>2. f[0] = <<>> BY <1>3, <2>1
    <2>3. Kept(0) BY <2>2 DEF Distinct
    <2> HIDE DEF Kept
    <2> QED BY <2>1, <2>3
  <1>6. ASSUME NEW m \in 0..(n - 1), m \in S PROVE m + 1 \in S
    <2>0. Kept(m)
      <3> HIDE DEF Kept
      <3> QED BY <1>6
    <2>1. /\ m \in Nat /\ m + 1 \in 0..n /\ m + 1 \in 1..n /\ m + 1 # 0 /\ (m + 1) - 1 = m
          /\ \A k \in 1..m : k \in 1..n /\ k \in 1..(m + 1) /\ k # m + 1
      BY <1>1
    <2>2. f[m + 1] = IF s[m + 1] \in gone THEN f[m] ELSE Append(f[m], s[m + 1])
      BY <1>3, <2>1
    <2>3. \A k \in 1..m : s[k] # s[m + 1] BY <1>4, <2>1
    <2>4. CASE s[m + 1] \in gone
      <3>1. f[m + 1] = f[m] BY <2>2, <2>4
      <3>2. Kept(m + 1) BY <2>0, <2>1, <3>1
      <3> HIDE DEF Kept
      <3> QED BY <2>1, <3>2
    <2>5. CASE s[m + 1] \notin gone
      <3> DEFINE k == Len(f[m])
                 g == f[m + 1]
      <3>1. g = Append(f[m], s[m + 1]) BY <2>2, <2>5
      <3>2. /\ g \in Seq(U) /\ Len(g) = k + 1 /\ k \in Nat
            /\ \A i \in 1..k : g[i] = f[m][i]
            /\ g[k + 1] = s[m + 1]
        BY <1>4, <2>0, <2>1, <3>1, AppendProperties
      <3>3. /\ \A i \in 1..k : \E j \in 1..m : f[m][i] = s[j]
            /\ \A i, j \in 1..k : f[m][i] = f[m][j] => i = j
        BY <2>0 DEF Distinct
      <3> HIDE DEF k, g
      <3>4. \A i \in 1..(k + 1) : i \in 1..k \/ i = k + 1 BY <3>2
      <3>5. \A i \in 1..(k + 1) : \E j \in 1..(m + 1) : g[i] = s[j]
        BY <2>1, <3>2, <3>3, <3>4
      <3>6. \A i \in 1..k : g[i] # s[m + 1] BY <2>3, <3>2, <3>3
      <3>7. \A i, j \in 1..(k + 1) : g[i] = g[j] => i = j
        BY <3>2, <3>3, <3>4, <3>6
      <3>8. Distinct(g) BY <3>2, <3>7 DEF Distinct
      <3>9. Kept(m + 1) BY <3>2, <3>5, <3>8 DEF g
      <3> HIDE DEF Kept
      <3> QED BY <2>1, <3>9
    <2> QED BY <2>4, <2>5
  <1>7. 0..n \subseteq S
    <2> HIDE DEF S
    <2> QED BY <1>1, <1>5, <1>6, UpTo
  <1>8. Kept(n)
    <2> HIDE DEF Kept
    <2> QED BY <1>1, <1>7
  <1> QED BY <1>2, <1>8

\* A new node at the head of a list without doubles.
LEMMA ConsDistinct ==
    ASSUME NEW U, NEW s \in Seq(U), NEW e \in U, Distinct(s), e \notin ToSet(s)
    PROVE  Distinct(<<e>> \o s)
  <1> DEFINE t == <<e>> \o s
             n == Len(s)
  <1>1. /\ n \in Nat /\ Len(t) = n + 1 /\ t[1] = e
        /\ \A i \in 1..n : t[i + 1] = s[i]
    BY ConsElements
  <1>2. /\ \A i \in 1..n : s[i] # e
        /\ \A i, j \in 1..n : s[i] = s[j] => i = j
    BY DEF ToSet, Distinct
  <1> HIDE DEF t, n
  <1>3. \A i \in 1..(n + 1) : i = 1 \/ \E j \in 1..n : i = j + 1
    <2>1. ASSUME NEW i \in 1..(n + 1), i # 1 PROVE \E j \in 1..n : i = j + 1
      <3>1. (i - 1) \in 1..n /\ i = (i - 1) + 1 BY <1>1, <2>1
      <3> QED BY <3>1
    <2> QED BY <2>1
  <1>4. \A i, j \in 1..(n + 1) : t[i] = t[j] => i = j
    <2>1. ASSUME NEW i \in 1..(n + 1), NEW j \in 1..(n + 1), t[i] = t[j] PROVE i = j
      <3>1. CASE i = 1 /\ j = 1 BY <3>1
      <3>2. CASE i = 1 /\ j # 1
        <4>1. PICK k \in 1..n : j = k + 1 BY <1>3, <3>2
        <4> QED BY <1>1, <1>2, <2>1, <3>2, <4>1
      <3>3. CASE i # 1 /\ j = 1
        <4>1. PICK k \in 1..n : i = k + 1 BY <1>3, <3>3
        <4> QED BY <1>1, <1>2, <2>1, <3>3, <4>1
      <3>4. CASE i # 1 /\ j # 1
        <4>1. PICK k \in 1..n : i = k + 1 BY <1>3, <3>4
        <4>2. PICK l \in 1..n : j = l + 1 BY <1>3, <3>4
        <4>3. s[k] = s[l] BY <1>1, <2>1, <4>1, <4>2
        <4> QED BY <1>2, <4>1, <4>2, <4>3
      <3> QED BY <3>1, <3>2, <3>3, <3>4
    <2> QED BY <2>1
  <1> QED BY <1>1, <1>4 DEF Distinct, t

\* A list is its first node and the rest.
LEMMA HeadAndTail ==
    ASSUME NEW U, NEW s \in Seq(U), s # <<>>
    PROVE  /\ Head(s) \in U /\ Tail(s) \in Seq(U) /\ Len(Tail(s)) = Len(s) - 1
           /\ ToSet(s) = {Head(s)} \cup ToSet(Tail(s))
           /\ Distinct(s) => Distinct(Tail(s)) /\ Head(s) \notin ToSet(Tail(s))
  <1> DEFINE t == Tail(s)
             n == Len(s)
  <1>1. /\ n \in Nat /\ n >= 1 /\ Head(s) = s[1] /\ t \in Seq(U) /\ Len(t) = n - 1
        /\ \A i \in 1..n : s[i] \in U
        /\ \A i \in 1..(n - 1) : t[i] = s[i + 1]
    OBVIOUS
  <1>2. ToSet(s) = {s[i] : i \in 1..n} /\ ToSet(t) = {t[i] : i \in 1..(n - 1)}
    <2>1. DOMAIN s = 1..n /\ DOMAIN t = 1..Len(t) BY <1>1
    <2> HIDE DEF t, n
    <2> QED BY <1>1, <2>1 DEF ToSet
  <1>3. Distinct(s) <=> \A i, j \in 1..n : s[i] = s[j] => i = j
    BY DEF Distinct
  <1>4. Distinct(t) <=> \A i, j \in 1..(n - 1) : t[i] = t[j] => i = j
    BY <1>1 DEF Distinct
  <1> HIDE DEF t, n
  <1>5. \A i \in 1..n : i = 1 \/ (i - 1 \in 1..(n - 1) /\ s[i] = t[i - 1])
    <2>1. ASSUME NEW i \in 1..n, i # 1 PROVE i - 1 \in 1..(n - 1) /\ s[i] = t[i - 1]
      <3>1. i - 1 \in 1..(n - 1) /\ (i - 1) + 1 = i BY <1>1, <2>1
      <3> QED BY <1>1, <3>1
    <2> QED BY <2>1
  <1>6. 1 \in 1..n /\ \A i \in 1..(n - 1) : i + 1 \in 1..n /\ i + 1 # 1 BY <1>1
  <1>7. ToSet(s) = {s[1]} \cup ToSet(t)
    <2>1. \A x \in ToSet(s) : x \in {s[1]} \cup ToSet(t) BY <1>2, <1>5
    <2>2. \A x \in ToSet(t) : x \in ToSet(s) BY <1>1, <1>2, <1>6
    <2>3. s[1] \in ToSet(s) BY <1>2, <1>6
    <2> QED BY <2>1, <2>2, <2>3
  <1>8. ASSUME Distinct(s) PROVE Distinct(t) /\ s[1] \notin ToSet(t)
    <2>1. ASSUME NEW i \in 1..(n - 1), NEW j \in 1..(n - 1), t[i] = t[j] PROVE i = j
      <3>1. s[i + 1] = s[j + 1] BY <1>1, <2>1
      <3>2. i + 1 = j + 1 BY <1>3, <1>6, <1>8, <3>1
      <3> QED BY <1>1, <3>2
    <2>2. ASSUME NEW i \in 1..(n - 1) PROVE t[i] # s[1]
      BY <1>1, <1>3, <1>6, <1>8
    <2> QED BY <1>2, <1>4, <2>1, <2>2
  <1> QED BY <1>1, <1>7, <1>8 DEF t, n

\* One list after another.
LEMMA Concatenated ==
    ASSUME NEW U, NEW s \in Seq(U), NEW t \in Seq(U)
    PROVE  /\ s \o t \in Seq(U) /\ ToSet(s \o t) = ToSet(s) \cup ToSet(t)
           /\ Distinct(s) /\ Distinct(t) /\ ToSet(s) \cap ToSet(t) = {} => Distinct(s \o t)
  <1> DEFINE c == s \o t
             m == Len(s)
             n == Len(t)
  <1>1. /\ m \in Nat /\ n \in Nat /\ c \in Seq(U) /\ Len(c) = m + n
        /\ \A i \in 1..m : c[i] = s[i]
        /\ \A i \in 1..(m + n) : i > m => c[i] = t[i - m]
    OBVIOUS
  <1>2. /\ ToSet(s) = {s[i] : i \in 1..m} /\ ToSet(t) = {t[i] : i \in 1..n}
        /\ ToSet(c) = {c[i] : i \in 1..(m + n)}
    <2>1. DOMAIN s = 1..m /\ DOMAIN t = 1..n /\ DOMAIN c = 1..Len(c) BY <1>1
    <2> HIDE DEF c, m, n
    <2> QED BY <1>1, <2>1 DEF ToSet
  <1>3. /\ Distinct(s) <=> \A i, j \in 1..m : s[i] = s[j] => i = j
        /\ Distinct(t) <=> \A i, j \in 1..n : t[i] = t[j] => i = j
        /\ Distinct(c) <=> \A i, j \in 1..(m + n) : c[i] = c[j] => i = j
    BY <1>1 DEF Distinct
  <1> HIDE DEF c, m, n
  <1>4. \A i \in 1..(m + n) : \/ i \in 1..m /\ c[i] = s[i]
                              \/ i > m /\ i - m \in 1..n /\ c[i] = t[i - m]
    <2>1. ASSUME NEW i \in 1..(m + n), i \notin 1..m PROVE i > m /\ i - m \in 1..n BY <1>1, <2>1
    <2> QED BY <1>1, <2>1
  <1>5. /\ \A i \in 1..m : i \in 1..(m + n) /\ c[i] = s[i]
        /\ \A i \in 1..n : m + i \in 1..(m + n) /\ c[m + i] = t[i]
    <2>1. ASSUME NEW i \in 1..n PROVE m + i \in 1..(m + n) /\ m + i > m /\ (m + i) - m = i BY <1>1
    <2> QED BY <1>1, <2>1
  <1>6. ToSet(c) = ToSet(s) \cup ToSet(t)
    <2>1. \A x \in ToSet(c) : x \in ToSet(s) \cup ToSet(t) BY <1>2, <1>4
    <2>2. \A x \in ToSet(s) : x \in ToSet(c) BY <1>2, <1>5
    <2>3. ASSUME NEW x \in ToSet(t) PROVE x \in ToSet(c)
      <3>1. PICK i \in 1..n : x = t[i] BY <1>2
      <3>2. m + i \in 1..(m + n) /\ c[m + i] = x BY <1>5, <3>1
      <3> QED BY <1>2, <3>2
    <2> QED BY <2>1, <2>2, <2>3
  <1>7. ASSUME Distinct(s), Distinct(t), ToSet(s) \cap ToSet(t) = {}
        PROVE  Distinct(c)
    <2>1. ASSUME NEW i \in 1..(m + n), NEW j \in 1..(m + n), c[i] = c[j] PROVE i = j
      <3>1. \A k \in 1..m : \A l \in 1..n : s[k] # t[l] BY <1>2, <1>7
      <3>2. CASE i \in 1..m /\ j \in 1..m BY <1>1, <1>3, <1>7, <2>1, <3>2
      <3>3. CASE i \in 1..m /\ j \notin 1..m
        <4>1. j - m \in 1..n /\ c[j] = t[j - m] BY <1>4, <3>3
        <4>2. c[i] = s[i] BY <1>1, <3>3
        <4> QED BY <2>1, <3>1, <3>3, <4>1, <4>2
      <3>4. CASE i \notin 1..m /\ j \in 1..m
        <4>1. i - m \in 1..n /\ c[i] = t[i - m] BY <1>4, <3>4
        <4>2. c[j] = s[j] BY <1>1, <3>4
        <4> QED BY <2>1, <3>1, <3>4, <4>1, <4>2
      <3>5. CASE i \notin 1..m /\ j \notin 1..m
        <4>1. /\ i - m \in 1..n /\ j - m \in 1..n /\ c[i] = t[i - m] /\ c[j] = t[j - m]
          BY <1>4, <3>5
        <4>2. i - m = j - m BY <1>3, <1>7, <2>1, <4>1
        <4> QED BY <1>1, <4>2
      <3> QED BY <3>2, <3>3, <3>4, <3>5
    <2> QED BY <1>3, <2>1
  <1> QED BY <1>1, <1>6, <1>7 DEF c

\* A list without doubles is as long as the set of its elements is large.
LEMMA DistinctLength ==
    ASSUME NEW U, NEW s \in Seq(U), Distinct(s)
    PROVE  IsFiniteSet(ToSet(s)) /\ Cardinality(ToSet(s)) = Len(s)
  <1> DEFINE n == Len(s)
             S == ToSet(s)
  <1>1. n \in Nat /\ s \in [1..n -> U] OBVIOUS
  <1>2. S = {s[i] : i \in 1..n} BY <1>1 DEF ToSet
  <1>3. \A i, j \in 1..n : s[i] = s[j] => i = j BY DEF Distinct
  <1> HIDE DEF n, S
  <1>4. s \in [1..n -> S] BY <1>1, <1>2
  <1>5. ExistsBijection(1..n, S)
    <2>1. s \in Surjection(1..n, S) BY <1>2, <1>4 DEF Surjection
    <2>2. s \in Injection(1..n, S) BY <1>3, <1>4 DEF Injection, IsInjective
    <2> QED BY <2>1, <2>2 DEF ExistsBijection, Bijection
  <1>6. IsFiniteSet(S) BY <1>1, <1>5, FS_NatBijection
  <1> QED BY <1>1, <1>5, <1>6, FS_CountingElements DEF n, S

============================================================================
