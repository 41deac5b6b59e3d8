----------------------------- MODULE ListsProofs -----------------------------
(***************************************************************************)
(* What the operations on lists compute, for lists of any length.          *)
(*                                                                         *)
(* Induction is not taken from the library, whose theorems have an         *)
(* operator as a parameter: a set of natural numbers that is not empty has *)
(* a least element, because < is well founded on them, and all else        *)
(* follows from that.                                                      *)
(***************************************************************************)
EXTENDS Lists, WellFoundedInduction, TLAPS

\* A set of natural numbers that is not empty has a least element.
LEMMA LeastNumber ==
  ASSUME NEW T \in SUBSET Nat, T # {}
  PROVE  \E n \in T : \A m \in T : n <= m
<1> DEFINE Less == {p \in Nat \X Nat : p[1] < p[2]}
<1>1. IsWellFoundedOn(Less, Nat)
  BY NatLessThanWellFounded, Zenon DEF OpToRel
<1>2. \A i, j \in Nat : <<i, j>> \in Less <=> i < j
  OBVIOUS
<1> HIDE DEF Less
<1>3. \E n \in T : \A m \in T : <<m, n>> \notin Less
  BY <1>1, WFMin, Zenon
<1>4. PICK n \in T : \A m \in T : <<m, n>> \notin Less
  BY <1>3, Zenon
<1>5. \A m \in T : ~(m < n)
  BY <1>2, <1>4, Zenon
<1> QED
  BY <1>5

\* Two lists, one behind the other
LEMMA InARow ==
  ASSUME NEW T, NEW a \in Seq(T), NEW b \in Seq(T)
  PROVE  /\ a \o b \in Seq(T) /\ Len(a \o b) = Len(a) + Len(b)
         /\ \A i \in 1..Len(a) + Len(b) : (a \o b)[i] = IF i <= Len(a) THEN a[i] ELSE b[i - Len(a)]
OBVIOUS

\* Two lists with the same elements in the same places are one.
LEMMA SameLists ==
  ASSUME NEW T, NEW a \in Seq(T), NEW b \in Seq(T), Len(a) = Len(b),
         \A i \in 1..Len(a) : a[i] = b[i]
  PROVE  a = b
OBVIOUS

\* A set of natural numbers with 0 and the successor of each member has them all.
LEMMA Induction ==
  ASSUME NEW G \in SUBSET Nat, 0 \in G, \A n \in G : n + 1 \in G
  PROVE  \A n \in Nat : n \in G
<1> SUFFICES ASSUME Nat \ G # {} PROVE FALSE
  OBVIOUS
<1>1. PICK n \in Nat \ G : \A m \in Nat \ G : n <= m
  BY LeastNumber, Zenon
<1>2. n - 1 \in G
  BY <1>1
<1> QED
  BY <1>1, <1>2

\* f goes from c to the next value by step, n times.
Recurs(f, n, V, c, step) ==
  f \in [0..n -> V] /\ f[0] = c /\ \A i \in 1..n : f[i] = step[<<f[i - 1], i>>]

\* A value and a step from one value to the next define such a function.
LEMMA Recursion ==
  ASSUME NEW n \in Nat, NEW V, NEW c \in V, NEW step \in [V \X Nat -> V]
  PROVE  \E f : Recurs(f, n, V, c, step)
<1> DEFINE Rec(f, m) == f[0] = c /\ \A i \in 1..m : f[i] = step[<<f[i - 1], i>>]
           G == {m \in Nat : \E f \in [0..m -> V] : Rec(f, m)}
<1>1. 0 \in G
  <2>1. [i \in 0..0 |-> c] \in [0..0 -> V] /\ Rec([i \in 0..0 |-> c], 0)
    OBVIOUS
  <2> QED
    BY <2>1, Zenon
<1>2. ASSUME NEW m \in G PROVE m + 1 \in G
  <2>1. m \in Nat
    OBVIOUS
  <2>2. PICK f \in [0..m -> V] : Rec(f, m)
    OBVIOUS
  <2> DEFINE g == [i \in 0..(m + 1) |-> IF i = m + 1 THEN step[<<f[m], i>>] ELSE f[i]]
  <2>3. <<f[m], m + 1>> \in V \X Nat
    BY <2>1
  <2>4. g \in [0..(m + 1) -> V]
    BY <2>1, <2>3
  <2>5. g[0] = c
    BY <2>1, <2>2
  <2>6. ASSUME NEW i \in 1..(m + 1) PROVE g[i] = step[<<g[i - 1], i>>]
    <3>1. g[i - 1] = f[i - 1] /\ i - 1 \in 0..m
      BY <2>1
    <3>2. CASE i = m + 1
      BY <2>1, <3>1, <3>2
    <3>3. CASE i # m + 1
      BY <2>1, <2>2, <3>1, <3>3
    <3> QED
      BY <3>2, <3>3, Zenon
  <2> HIDE DEF g
  <2>7. \E h \in [0..(m + 1) -> V] : Rec(h, m + 1)
    BY <2>4, <2>5, <2>6, Zenon
  <2> QED
    BY <2>1, <2>7
<1>3. n \in G
  <2> HIDE DEF G
  <2>1. G \in SUBSET Nat
    BY Zenon DEF G
  <2> QED
    BY <1>1, <1>2, <2>1, Induction, Zenon
<1> QED
  BY <1>3, Zenon DEF Recurs

\* Queueing one more
LEMMA AppendFacts ==
  ASSUME NEW T, NEW q \in Seq(T), NEW x \in T
  PROVE  /\ Append(q, x) \in Seq(T) /\ Len(Append(q, x)) = Len(q) + 1 /\ Append(q, x) # <<>>
         /\ Elems(Append(q, x)) = Elems(q) \cup {x}
         /\ Once(q) /\ x \notin Elems(q) => Once(Append(q, x))
         /\ q # <<>> => Append(q, x)[1] = q[1]
         /\ q = <<>> => Append(q, x)[1] = x
<1> DEFINE t == Append(q, x)
<1>1. /\ t \in Seq(T) /\ Len(q) \in Nat /\ Len(t) = Len(q) + 1 /\ t # <<>>
      /\ \A i \in 1..Len(q) : t[i] = q[i]
      /\ t[Len(q) + 1] = x
  OBVIOUS
<1>2. q # <<>> => 1 \in 1..Len(q)
  OBVIOUS
<1> HIDE DEF t
<1>3. Elems(t) = Elems(q) \cup {x}
  <2>1. 1..(Len(q) + 1) = 1..Len(q) \cup {Len(q) + 1}
    BY <1>1
  <2>2. Elems(t) = {t[i] : i \in 1..Len(q)} \cup {t[Len(q) + 1]}
    BY <1>1, <2>1, Zenon DEF Elems
  <2> QED
    BY <1>1, <2>2, Zenon DEF Elems
<1>4. Once(q) /\ x \notin Elems(q) => Once(t)
  BY <1>1 DEF Once, Elems
<1> QED
  BY <1>1, <1>2, <1>3, <1>4 DEF t

\* The first n
LEMMA UptoFacts ==
  ASSUME NEW T, NEW q \in Seq(T), NEW n \in 0..Len(q)
  PROVE  Upto(q, n) \in Seq(T) /\ Len(Upto(q, n)) = n /\ \A i \in 1..n : Upto(q, n)[i] = q[i]
<1>1. \A i \in 1..n : q[i] \in T
  OBVIOUS
<1> QED
  BY <1>1 DEF Upto

\* Omit keeps the order, and everything but the members of S: what is left is
\* where it was relative to the rest.
LEMMA OmitFacts ==
  ASSUME NEW T, NEW q \in Seq(T), NEW S
  PROVE  /\ Omit(q, S) \in Seq(T) /\ Len(Omit(q, S)) <= Len(q)
         /\ Elems(Omit(q, S)) = Elems(q) \ S
         /\ Once(q) => Once(Omit(q, S))
         /\ q # <<>> /\ q[1] \notin S => Omit(q, S) # <<>> /\ Omit(q, S)[1] = q[1]
<1> DEFINE Rec(f) == [i \in 0..Len(q) |->
                        IF i = 0 THEN <<>>
                        ELSE IF q[i] \in S THEN f[i - 1] ELSE Append(f[i - 1], q[i])]
           left == CHOOSE f : f = Rec(f)
<1>1. left = Rec(left)
  <2> DEFINE step == [p \in Seq(T) \X Nat |->
                        IF p[2] \in 1..Len(q) /\ q[p[2]] \notin S THEN Append(p[1], q[p[2]]) ELSE p[1]]
  <2>1. step \in [Seq(T) \X Nat -> Seq(T)]
    OBVIOUS
  <2>2. \A x \in Seq(T), i \in 1..Len(q) :
          step[<<x, i>>] = IF q[i] \in S THEN x ELSE Append(x, q[i])
    OBVIOUS
  <2> DEFINE V == Seq(T)  c == <<>>  n == Len(q)
  <2>3. c \in V /\ n \in Nat /\ step \in [V \X Nat -> V]
    BY <2>1
  <2> HIDE DEF step, V, c, n
  <2>4. \E f : Recurs(f, n, V, c, step)
    BY <2>3, Recursion, Zenon
  <2> USE DEF V, c, n
  <2>5. PICK f \in [0..Len(q) -> Seq(T)] :
          f[0] = <<>> /\ \A i \in 1..Len(q) : f[i] = step[<<f[i - 1], i>>]
    BY <2>4, Zenon DEF Recurs
  <2>6. ASSUME NEW i \in 0..Len(q) PROVE f[i] = Rec(f)[i]
    <3>1. CASE i = 0
      BY <2>5, <3>1, Zenon
    <3>2. CASE i # 0
      <4>1. f[i - 1] \in Seq(T) /\ i \in 1..Len(q)
        BY <3>2
      <4>2. f[i] = step[<<f[i - 1], i>>]
        BY <2>5, <4>1, Zenon
      <4>3. f[i] = IF q[i] \in S THEN f[i - 1] ELSE Append(f[i - 1], q[i])
        BY <2>2, <4>1, <4>2, Zenon
      <4> QED
        BY <3>2, <4>3, Zenon
    <3> QED
      BY <3>1, <3>2, Zenon
  <2>7. f = Rec(f)
    BY <2>6, Zenon
  <2> QED
    BY <2>7, Zenon
<1>2. Omit(q, S) = left[Len(q)]
  BY Zenon DEF Omit
<1> HIDE DEF left
<1>3. /\ left[0] = <<>>
      /\ \A i \in 1..Len(q) : left[i] = IF q[i] \in S THEN left[i - 1] ELSE Append(left[i - 1], q[i])
  <2>1. \A i \in 0..Len(q) : left[i] = Rec(left)[i]
    BY <1>1, Zenon
  <2>2. ASSUME NEW i \in 0..Len(q)
        PROVE  Rec(left)[i] = IF i = 0 THEN <<>>
                 ELSE IF q[i] \in S THEN left[i - 1] ELSE Append(left[i - 1], q[i])
    BY Zenon
  <2> HIDE DEF Rec
  <2> QED
    BY <2>1, <2>2
<1> DEFINE Right(x, n) ==
             /\ x \in Seq(T) /\ Len(x) <= n
             /\ Elems(x) = {q[i] : i \in 1..n} \ S
             /\ Once(q) => Once(x)
             /\ n > 0 /\ q[1] \notin S => x # <<>> /\ x[1] = q[1]
           G == {n \in Nat : n <= Len(q) => Right(left[n], n)}
<1>4. 0 \in G
  <2>1. Right(<<>>, 0)
    BY DEF Elems, Once
  <2> QED
    BY <1>3, <2>1, Zenon
<1>5. ASSUME NEW n \in G PROVE n + 1 \in G
  <2> SUFFICES ASSUME n + 1 <= Len(q) PROVE Right(left[n + 1], n + 1)
    OBVIOUS
  <2> DEFINE x == left[n]  e == q[n + 1]
  <2>1. n \in Nat /\ Right(x, n) /\ e \in T
    OBVIOUS
  <2>2. left[n + 1] = IF e \in S THEN x ELSE Append(x, e)
    BY <1>3, <2>1
  <2>3. {q[i] : i \in 1..(n + 1)} = {q[i] : i \in 1..n} \cup {e}
    BY <2>1
  <2> HIDE DEF x
  <2>4. CASE e \in S
    BY <2>1, <2>2, <2>3, <2>4
  <2>5. CASE e \notin S
    <3> DEFINE y == Append(x, e)
    <3>1. /\ y \in Seq(T) /\ Len(y) = Len(x) + 1 /\ Elems(y) = Elems(x) \cup {e} /\ y # <<>>
          /\ Once(x) /\ e \notin Elems(x) => Once(y)
          /\ x # <<>> => y[1] = x[1]
          /\ x = <<>> => y[1] = e
      <4>1. x \in Seq(T) /\ e \in T
        BY <2>1, Zenon
      <4> HIDE DEF e, G, Right
      <4>2. /\ Append(x, e) \in Seq(T) /\ Len(Append(x, e)) = Len(x) + 1 /\ Append(x, e) # <<>>
            /\ Elems(Append(x, e)) = Elems(x) \cup {e}
            /\ Once(x) /\ e \notin Elems(x) => Once(Append(x, e))
            /\ x # <<>> => Append(x, e)[1] = x[1]
            /\ x = <<>> => Append(x, e)[1] = e
        BY <4>1, AppendFacts
      <4> QED
        BY <4>2, Zenon
    <3>2. ASSUME Once(q) PROVE e \notin Elems(x)
      <4> SUFFICES ASSUME e \in Elems(x) PROVE FALSE
        OBVIOUS
      <4>1. PICK i \in 1..n : e = q[i]
        BY <2>1, Zenon
      <4>2. n + 1 \in 1..Len(q) /\ i \in 1..Len(q) /\ i # n + 1
        BY <2>1
      <4> QED
        BY <3>2, <4>1, <4>2, Zenon DEF Once
    <3>3. n = 0 => x = <<>> /\ e = q[1]
      BY <2>1
    <3> HIDE DEF y
    <3>4. Right(y, n + 1)
      BY <2>1, <2>3, <2>5, <3>1, <3>2, <3>3, SMTT(30)
    <3> QED
      BY <2>2, <2>5, <3>4, Zenon DEF y
  <2> QED
    BY <2>4, <2>5, Zenon
<1>6. Len(q) \in G
  <2>1. G \in SUBSET Nat
    OBVIOUS
  <2> HIDE DEF G
  <2> QED
    BY <1>4, <1>5, <2>1, Induction
<1> QED
  BY <1>2, <1>6, SMTT(30) DEF Elems


\* Lists in a row.  The provers rearrange them better under a name.
Then(a, b) == a \o b

Joins(T) ==
  /\ <<>> \in Seq(T)
  /\ \A x, y \in Seq(T) : Then(x, y) \in Seq(T)
  /\ \A x \in Seq(T) : Then(x, <<>>) = x /\ Then(<<>>, x) = x
  /\ \A x, y, z \in Seq(T) : Then(Then(x, y), z) = Then(x, Then(y, z))

\* The empty list is a unit, and where the brackets are does not matter.
LEMMA JoinFacts == ASSUME NEW T PROVE Joins(T)
<1>1. <<>> \in Seq(T)
  OBVIOUS
<1>2. ASSUME NEW a \in Seq(T), NEW b \in Seq(T) PROVE a \o b \in Seq(T)
  OBVIOUS
<1>3. ASSUME NEW a \in Seq(T) PROVE a \o <<>> = a /\ <<>> \o a = a
  OBVIOUS
<1>4. ASSUME NEW a \in Seq(T), NEW b \in Seq(T), NEW c \in Seq(T)
      PROVE  (a \o b) \o c = a \o (b \o c)
  BY SMTT(30)
<1> QED
  BY <1>1, <1>2, <1>3, <1>4, Zenon DEF Joins, Then

\* A list is its first n elements, and the others.
LEMMA CutFacts ==
  ASSUME NEW T, NEW q \in Seq(T), NEW n \in 0..Len(q)
  PROVE  /\ From(q, n) \in Seq(T) /\ Then(Upto(q, n), From(q, n)) = q
         /\ Elems(From(q, n)) \subseteq Elems(q)
<1>1. n + 1 \in Int /\ Len(q) \in Int /\ \A i \in (n + 1)..Len(q) : q[i] \in T
  OBVIOUS
<1>2. /\ From(q, n) \in Seq(T)
      /\ Len(From(q, n)) = IF n + 1 <= Len(q) THEN Len(q) - (n + 1) + 1 ELSE 0
      /\ \A i \in 1..(Len(q) - (n + 1) + 1) : From(q, n)[i] = q[n + 1 + i - 1]
  BY <1>1 DEF From
<1>5. ASSUME NEW i \in 1..Len(From(q, n)) PROVE From(q, n)[i] \in Elems(q)
  <2>1. n + 1 + i - 1 \in 1..Len(q) /\ From(q, n)[i] = q[n + 1 + i - 1]
    BY <1>2
  <2> QED
    BY <2>1, Zenon DEF Elems
<1>3. SubSeq(q, 1, n) \o SubSeq(q, n + 1, Len(q)) = q
  <2> DEFINE a == SubSeq(q, 1, n)  b == SubSeq(q, n + 1, Len(q))
  <2>1. a \in Seq(T) /\ Len(a) = n /\ \A i \in 1..n : a[i] = q[i]
    OBVIOUS
  <2>2. b \in Seq(T) /\ Len(b) = Len(q) - n /\ \A i \in 1..Len(q) - n : b[i] = q[n + i]
    OBVIOUS
  <2> HIDE DEF a, b
  <2> DEFINE c == a \o b
  <2>3. /\ c \in Seq(T) /\ Len(c) = Len(a) + Len(b)
        /\ \A i \in 1..Len(a) + Len(b) : c[i] = IF i <= Len(a) THEN a[i] ELSE b[i - Len(a)]
    BY <2>1, <2>2, InARow, Zenon
  <2> HIDE DEF c
  <2>4. Len(c) = Len(q) /\ \A i \in 1..Len(q) : c[i] = q[i]
    <3>1. Len(c) = Len(q) /\ Len(q) \in Nat /\ Len(a) = n /\ n \in Nat /\ Len(a) + Len(b) = Len(q)
      BY <2>1, <2>2, <2>3
    <3>2. ASSUME NEW i \in 1..Len(q), i <= n PROVE c[i] = q[i]
      BY <2>1, <2>3, <3>1, <3>2
    <3>3. ASSUME NEW i \in 1..Len(q), ~(i <= n) PROVE c[i] = q[i]
      <4>1. i - n \in 1..Len(q) - n /\ n + (i - n) = i
        BY <3>1, <3>3
      <4> QED
        BY <2>2, <2>3, <3>1, <3>3, <4>1, Zenon
    <3> QED
      BY <3>1, <3>2, <3>3, Zenon
  <2>5. c \in Seq(T) /\ q \in Seq(T) /\ \A i \in 1..Len(c) : c[i] = q[i]
    BY <2>3, <2>4, Zenon
  <2>6. c = q
    BY <2>4, <2>5, SameLists, Zenon
  <2> QED
    BY <2>6, Zenon DEF a, b, c
<1>6. Elems(From(q, n)) \subseteq Elems(q)
  BY <1>5, Zenon DEF Elems
<1> QED
  BY <1>2, <1>3, <1>6, Zenon DEF Upto, From, Then

\* What is left of two lists in a row when the first is gone
LEMMA FromConcat ==
  ASSUME NEW T, NEW a \in Seq(T), NEW b \in Seq(T)
  PROVE  /\ From(Then(a, b), Len(a)) = b /\ Len(a) <= Len(Then(a, b))
         /\ \A i \in 1..Len(a) : Then(a, b)[i] = a[i]
<1> DEFINE q == a \o b  n == Len(a)
<1>1. /\ q \in Seq(T) /\ Len(q) = n + Len(b) /\ n \in Nat /\ Len(b) \in Nat
      /\ \A i \in 1..(n + Len(b)) : q[i] = IF i <= n THEN a[i] ELSE b[i - n]
  OBVIOUS
<1> HIDE DEF q, n
<1>2. \A i \in (n + 1)..Len(q) : q[i] \in T
  BY <1>1
<1> DEFINE t == SubSeq(q, n + 1, Len(q))
<1>3. /\ t \in Seq(T)
      /\ Len(t) = IF n + 1 <= Len(q) THEN Len(q) - (n + 1) + 1 ELSE 0
      /\ \A i \in 1..(Len(q) - (n + 1) + 1) : t[i] = q[n + 1 + i - 1]
  <2>1. n + 1 \in Int /\ Len(q) \in Int
    BY <1>1
  <2> QED
    BY <1>2, <2>1
<1> HIDE DEF t
<1>4. Len(t) = Len(b)
  BY <1>1, <1>3
<1>5. ASSUME NEW i \in 1..Len(b) PROVE t[i] = b[i]
  <2>1. t[i] = q[n + i]
    BY <1>1, <1>3
  <2>2. q[n + i] = b[(n + i) - n]
    BY <1>1
  <2> QED
    BY <1>1, <2>1, <2>2
<1>6. t = b
  BY <1>3, <1>4, <1>5
<1> QED
  BY <1>1, <1>6 DEF t, From, q, n, Then

\* Taking one element out of a sequence.
LEMMA WithoutAtFacts ==
  ASSUME NEW T, NEW s \in Seq(T), NEW i \in 1..Len(s)
  PROVE  /\ WithoutAt(s, i) \in Seq(T)
         /\ Len(WithoutAt(s, i)) = Len(s) - 1
         /\ \A j \in 1..Len(s) - 1 : WithoutAt(s, i)[j] = IF j < i THEN s[j] ELSE s[j + 1]
<1>0. Len(s) \in Nat /\ \A j \in 1..Len(s) : s[j] \in T
  OBVIOUS
<1> DEFINE a == SubSeq(s, 1, i - 1)
           b == SubSeq(s, i + 1, Len(s))
<1>1. a \in Seq(T) /\ Len(a) = i - 1 /\ \A j \in 1..i - 1 : a[j] = s[j]
  <2>1. \A j \in 1..i - 1 : s[j] \in T
    BY <1>0
  <2> QED
    BY <1>0, <2>1
<1>2. b \in Seq(T) /\ Len(b) = Len(s) - i /\ \A j \in 1..Len(s) - i : b[j] = s[i + j]
  <2>1. \A j \in i + 1..Len(s) : s[j] \in T
    BY <1>0
  <2> QED
    BY <1>0, <2>1
<1>3. /\ a \o b \in Seq(T)
      /\ Len(a \o b) = Len(s) - 1
      /\ \A j \in 1..Len(s) - 1 : (a \o b)[j] = IF j <= i - 1 THEN a[j] ELSE b[j - (i - 1)]
  <2> HIDE DEF a, b
  <2>1. /\ a \o b \in Seq(T)
        /\ Len(a \o b) = Len(a) + Len(b)
        /\ \A j \in 1..Len(a) + Len(b) :
             (a \o b)[j] = IF j <= Len(a) THEN a[j] ELSE b[j - Len(a)]
    BY <1>1, <1>2, InARow, Zenon
  <2>2. Len(a) + Len(b) = Len(s) - 1
    BY <1>0, <1>1, <1>2
  <2> QED
    BY <1>1, <2>1, <2>2, Zenon
<1>4. WithoutAt(s, i) = a \o b
  BY Zenon DEF WithoutAt, Upto, From
<1> HIDE DEF a, b
<1> QED
  BY <1>0, <1>1, <1>2, <1>3, <1>4

\* t has some of the elements of s, in the order they have in s.
SubList(t, s) ==
  \A i, j \in 1..Len(t) : i < j =>
    \E k, l \in 1..Len(s) : k < l /\ t[i] = s[k] /\ t[j] = s[l]

\* Unlinking an element, wherever it is.
LEMMA UnlinkedFacts ==
  ASSUME NEW T, NEW s \in Seq(T), NEW x, NEW t, Once(s), Unlinked(s, x, t)
  PROVE  t \in Seq(T) /\ Once(t) /\ Elems(t) = Elems(s) \ {x} /\ SubList(t, s)
<1>0. Len(s) \in Nat
  OBVIOUS
<1>1. CASE x \notin Elems(s) /\ t = s
  <2>1. SubList(s, s)
    BY Zenon DEF SubList
  <2> QED
    BY <1>1, <2>1, Zenon
<1>2. ASSUME NEW k \in 1..Len(s), s[k] = x, t = WithoutAt(s, k)
      PROVE  t \in Seq(T) /\ Once(t) /\ Elems(t) = Elems(s) \ {x} /\ SubList(t, s)
  <2> DEFINE Was(m) == IF m < k THEN m ELSE m + 1
  <2>1. t \in Seq(T) /\ Len(t) = Len(s) - 1
        /\ \A j \in 1..Len(s) - 1 : t[j] = IF j < k THEN s[j] ELSE s[j + 1]
    BY <1>2, WithoutAtFacts, Zenon
  <2>2. \A j \in 1..Len(t) : t[j] = s[Was(j)] /\ Was(j) \in 1..Len(s) /\ Was(j) # k
    BY <1>0, <2>1
  <2>3. \A i, j \in 1..Len(t) : /\ i < j => Was(i) < Was(j)
                                /\ Was(i) = Was(j) => i = j
    BY <1>0, <2>1
  <2>4. ASSUME NEW m \in 1..Len(s), m # k PROVE \E j \in 1..Len(t) : Was(j) = m
    <3>1. CASE m < k
      <4>1. m \in 1..Len(t) /\ Was(m) = m
        BY <1>0, <2>1, <3>1
      <4> QED
        BY <4>1, Zenon
    <3>2. CASE m > k
      <4>1. m - 1 \in 1..Len(t) /\ Was(m - 1) = m
        BY <1>0, <2>1, <3>2
      <4> QED
        BY <4>1, Zenon
    <3> QED
      BY <1>0, <2>4, <3>1, <3>2
  <2> HIDE DEF Was
  <2>5. Once(t)
    <3> SUFFICES ASSUME NEW i \in 1..Len(t), NEW j \in 1..Len(t), t[i] = t[j] PROVE i = j
      BY Zenon DEF Once
    <3>1. s[Was(i)] = s[Was(j)] /\ Was(i) \in 1..Len(s) /\ Was(j) \in 1..Len(s)
      BY <2>2, Zenon
    <3>2. Was(i) = Was(j)
      BY <3>1, Zenon DEF Once
    <3> QED
      BY <2>3, <3>2, Zenon
  <2>6. SubList(t, s)
    <3> SUFFICES ASSUME NEW i \in 1..Len(t), NEW j \in 1..Len(t), i < j
                 PROVE  \E m, l \in 1..Len(s) : m < l /\ t[i] = s[m] /\ t[j] = s[l]
      BY Zenon DEF SubList
    <3>1. /\ Was(i) < Was(j) /\ t[i] = s[Was(i)] /\ t[j] = s[Was(j)]
          /\ Was(i) \in 1..Len(s) /\ Was(j) \in 1..Len(s)
      BY <2>2, <2>3, Zenon
    <3> QED
      BY <3>1, Zenon
  <2>7. Elems(t) = Elems(s) \ {x}
    <3>1. ASSUME NEW y \in Elems(t) PROVE y \in Elems(s) /\ y # x
      <4>1. PICK i \in 1..Len(t) : y = t[i]
        BY <3>1, Zenon DEF Elems
      <4>2. y = s[Was(i)] /\ Was(i) \in 1..Len(s) /\ Was(i) # k
        BY <2>2, <4>1, Zenon
      <4>3. y # x
        BY <1>2, <4>2, Zenon DEF Once
      <4> QED
        BY <4>2, <4>3, Zenon DEF Elems
    <3>2. ASSUME NEW y \in Elems(s), y # x PROVE y \in Elems(t)
      <4>1. PICK m \in 1..Len(s) : y = s[m]
        BY <3>2, Zenon DEF Elems
      <4>2. PICK j \in 1..Len(t) : Was(j) = m
        BY <1>2, <2>4, <3>2, <4>1, Zenon
      <4> QED
        BY <2>2, <4>1, <4>2, Zenon DEF Elems
    <3> QED
      BY <3>1, <3>2, Zenon
  <2> QED
    BY <2>1, <2>5, <2>6, <2>7, Zenon
<1> QED
  BY <1>1, <1>2, Zenon DEF Unlinked

\* Popping the first n elements.
LEMMA FromFacts ==
  ASSUME NEW T, NEW s \in Seq(T), NEW n \in 0..Len(s), Once(s)
  PROVE  /\ From(s, n) \in Seq(T) /\ Once(From(s, n)) /\ SubList(From(s, n), s)
         /\ Elems(Upto(s, n)) \subseteq Elems(s)
         /\ Elems(From(s, n)) = Elems(s) \ Elems(Upto(s, n))
         /\ n = Len(s) => From(s, n) = <<>>
         /\ n < Len(s) => From(s, n) # <<>> /\ Head(From(s, n)) = s[n + 1]
<1> DEFINE t == From(s, n)
           u == Upto(s, n)
<1>0. Len(s) \in Nat /\ \A i \in 1..Len(s) : s[i] \in T
  OBVIOUS
<1>1. t \in Seq(T) /\ Len(t) = Len(s) - n /\ \A i \in 1..Len(s) - n : t[i] = s[n + i]
  <2>1. \A i \in n + 1..Len(s) : s[i] \in T
    BY <1>0
  <2> QED
    BY <1>0, <2>1 DEF From
<1>2. u \in Seq(T) /\ Len(u) = n /\ \A i \in 1..n : u[i] = s[i]
  <2>1. \A i \in 1..n : s[i] \in T
    BY <1>0
  <2> QED
    BY <1>0, <2>1 DEF Upto
<1> HIDE DEF t, u
<1>3. Elems(u) = {s[i] : i \in 1..n}
  BY <1>2, Zenon DEF Elems
<1>4. Once(t)
  <2> SUFFICES ASSUME NEW i \in 1..Len(t), NEW j \in 1..Len(t), t[i] = t[j] PROVE i = j
    BY Zenon DEF Once
  <2>1. t[i] = s[n + i] /\ t[j] = s[n + j] /\ n + i \in 1..Len(s) /\ n + j \in 1..Len(s)
    BY <1>0, <1>1
  <2>2. n + i = n + j
    BY <2>1, Zenon DEF Once
  <2> QED
    BY <1>0, <1>1, <2>2
<1>5. SubList(t, s)
  <2> SUFFICES ASSUME NEW i \in 1..Len(t), NEW j \in 1..Len(t), i < j
               PROVE  \E k, l \in 1..Len(s) : k < l /\ t[i] = s[k] /\ t[j] = s[l]
    BY Zenon DEF SubList
  <2>1. t[i] = s[n + i] /\ t[j] = s[n + j] /\ n + i \in 1..Len(s) /\ n + j \in 1..Len(s)
        /\ n + i < n + j
    BY <1>0, <1>1
  <2> QED
    BY <2>1, Zenon
<1>6. Elems(t) = Elems(s) \ Elems(u)
  <2>1. ASSUME NEW y \in Elems(t) PROVE y \in Elems(s) /\ y \notin Elems(u)
    <3>1. PICK i \in 1..Len(t) : y = t[i]
      BY <2>1, Zenon DEF Elems
    <3>2. n + i \in 1..Len(s) /\ y = s[n + i] /\ \A j \in 1..n : j # n + i /\ j \in 1..Len(s)
      <4>1. i \in 1..Len(s) - n /\ n + i \in 1..Len(s)
        BY <1>0, <1>1
      <4>2. y = s[n + i]
        BY <1>1, <3>1, <4>1, Zenon
      <4>3. \A j \in 1..n : j # n + i /\ j \in 1..Len(s)
        BY <1>0, <4>1
      <4> QED
        BY <4>1, <4>2, <4>3, Zenon
    <3>3. \A j \in 1..n : s[j] # y
      BY <3>2, Zenon DEF Once
    <3>4. y \notin Elems(u)
      BY <1>3, <3>3, Zenon
    <3> QED
      BY <3>2, <3>4, Zenon DEF Elems
  <2>2. ASSUME NEW y \in Elems(s), y \notin Elems(u) PROVE y \in Elems(t)
    <3>1. PICK i \in 1..Len(s) : y = s[i]
      BY <2>2, Zenon DEF Elems
    <3>2. ~(i <= n)
      BY <1>0, <1>3, <2>2, <3>1
    <3>3. i - n \in 1..Len(t) /\ n + (i - n) = i
      BY <1>0, <1>1, <3>2
    <3>4. t[i - n] = s[i]
      BY <1>0, <1>1, <3>3, Zenon
    <3> QED
      BY <3>1, <3>3, <3>4, Zenon DEF Elems
  <2> QED
    BY <2>1, <2>2, Zenon
<1>7. Elems(u) \subseteq Elems(s)
  <2>1. \A i \in 1..n : i \in 1..Len(s)
    BY <1>0
  <2> QED
    BY <1>3, <2>1, Zenon DEF Elems
<1>8. ASSUME n = Len(s) PROVE t = <<>>
  BY <1>0, <1>1, <1>8
<1>9. ASSUME n < Len(s) PROVE t # <<>> /\ Head(t) = s[n + 1]
  <2>1. Len(t) # 0 /\ t[1] = s[n + 1]
    BY <1>0, <1>1, <1>9
  <2>2. t # <<>>
    BY <2>1
  <2> QED
    BY <1>1, <2>1, <2>2
<1> QED
  BY <1>1, <1>4, <1>5, <1>6, <1>7, <1>8, <1>9, Zenon DEF t, u

-----------------------------------------------------------------------------
(* Sums *)

\* f[i] is the sum of the first i numbers of v.
Sums(f, v) ==
  /\ f \in [0..Len(v) -> Nat] /\ f[0] = 0
  /\ \A i \in 1..Len(v) : f[i] = f[i - 1] + v[i]

\* Total(v) is the last of such sums.
LEMMA SumsExist ==
  ASSUME NEW v \in Seq(Nat)
  PROVE  \E f : Sums(f, v) /\ Total(v) = f[Len(v)]
<1> DEFINE Rec(f) == [i \in 0..Len(v) |-> IF i = 0 THEN 0 ELSE f[i - 1] + v[i]]
           sum == CHOOSE f : f = Rec(f)
<1>1. PICK f : Sums(f, v)
  <2> DEFINE step == [p \in Nat \X Nat |-> IF p[2] \in 1..Len(v) THEN p[1] + v[p[2]] ELSE p[1]]
             n == Len(v)  V == Nat  c == 0
  <2>1. step \in [V \X Nat -> V] /\ n \in Nat /\ c \in V
    OBVIOUS
  <2>2. \A x \in Nat, i \in 1..Len(v) : step[<<x, i>>] = x + v[i]
    OBVIOUS
  <2> HIDE DEF step, n, V, c
  <2>3. PICK f : Recurs(f, n, V, c, step)
    BY <2>1, Recursion, Zenon
  <2> USE DEF n, V, c
  <2>4. /\ f \in [0..Len(v) -> Nat] /\ f[0] = 0
        /\ \A i \in 1..Len(v) : f[i] = step[<<f[i - 1], i>>]
    BY <2>3, Zenon DEF Recurs
  <2>5. ASSUME NEW i \in 1..Len(v) PROVE f[i] = f[i - 1] + v[i]
    <3>1. i - 1 \in 0..Len(v)
      OBVIOUS
    <3>2. f[i - 1] \in Nat
      BY <2>4, <3>1, Zenon
    <3> QED
      BY <2>2, <2>4, <3>2, Zenon
  <2> QED
    BY <2>4, <2>5, Zenon DEF Sums
<1>2. f = Rec(f)
  <2>1. ASSUME NEW i \in 0..Len(v) PROVE f[i] = IF i = 0 THEN 0 ELSE f[i - 1] + v[i]
    BY <1>1 DEF Sums
  <2>2. f \in [0..Len(v) -> Nat]
    BY <1>1, Zenon DEF Sums
  <2> QED
    BY <2>1, <2>2, Zenon
<1>3. sum = Rec(sum)
  BY <1>2, Zenon
<1>4. Total(v) = sum[Len(v)]
  BY Zenon DEF Total
<1> HIDE DEF sum
<1>5. ASSUME NEW i \in 0..Len(v) PROVE sum[i] = IF i = 0 THEN 0 ELSE sum[i - 1] + v[i]
  <2>1. sum[i] = Rec(sum)[i]
    BY <1>3, Zenon
  <2>2. Rec(sum)[i] = IF i = 0 THEN 0 ELSE sum[i - 1] + v[i]
    BY Zenon
  <2> QED
    BY <2>1, <2>2, Zenon
<1> DEFINE G == {n \in Nat : n <= Len(v) => sum[n] = f[n]}
<1>6. 0 \in G
  BY <1>1, <1>5 DEF Sums
<1>7. ASSUME NEW n \in G PROVE n + 1 \in G
  <2> SUFFICES ASSUME n + 1 <= Len(v) PROVE sum[n + 1] = f[n + 1]
    OBVIOUS
  <2>1. n \in Nat /\ n + 1 \in 0..Len(v) /\ n + 1 \in 1..Len(v) /\ (n + 1) - 1 = n /\ n + 1 # 0
    OBVIOUS
  <2>2. sum[n] = f[n]
    BY <2>1
  <2>3. sum[n + 1] = sum[n] + v[n + 1]
    BY <1>5, <2>1, Zenon
  <2>4. f[n + 1] = f[n] + v[n + 1]
    BY <1>1, <2>1, Zenon DEF Sums
  <2> QED
    BY <2>2, <2>3, <2>4, Zenon
<1>8. Len(v) \in G
  <2>1. G \in SUBSET Nat /\ Len(v) \in Nat
    OBVIOUS
  <2> HIDE DEF G
  <2> QED
    BY <1>6, <1>7, <2>1, Induction, Zenon
<1> QED
  BY <1>1, <1>4, <1>8

\* There is one sum.
LEMMA SumsAgree ==
  ASSUME NEW v \in Seq(Nat), NEW f, NEW g, Sums(f, v), Sums(g, v), NEW n \in 0..Len(v)
  PROVE  f[n] = g[n]
<1> DEFINE G == {m \in Nat : m <= Len(v) => f[m] = g[m]}
<1>1. 0 \in G
  BY Zenon DEF Sums
<1>2. ASSUME NEW m \in G PROVE m + 1 \in G
  BY DEF Sums
<1>3. n \in G
  <2>1. G \in SUBSET Nat /\ n \in Nat
    OBVIOUS
  <2> HIDE DEF G
  <2> QED
    BY <1>1, <1>2, <2>1, Induction, Zenon
<1> QED
  BY <1>3

\* The total of the first n is the sum at n.
LEMMA TotalIs ==
  ASSUME NEW v \in Seq(Nat), NEW f, Sums(f, v)
  PROVE  /\ Total(v) = f[Len(v)]
         /\ \A n \in 0..Len(v) : Total(Upto(v, n)) = f[n]
<1>1. ASSUME NEW u \in Seq(Nat), NEW h, Sums(h, u) PROVE Total(u) = h[Len(u)]
  <2>1. PICK g : Sums(g, u) /\ Total(u) = g[Len(u)]
    BY SumsExist, Zenon
  <2>2. Len(u) \in 0..Len(u)
    OBVIOUS
  <2> QED
    BY <1>1, <2>1, <2>2, SumsAgree
<1>2. ASSUME NEW n \in 0..Len(v) PROVE Total(Upto(v, n)) = f[n]
  <2> DEFINE u == Upto(v, n)  h == [i \in 0..n |-> f[i]]
  <2>1. u \in Seq(Nat) /\ Len(u) = n /\ \A i \in 1..n : u[i] = v[i]
    BY UptoFacts, Zenon
  <2> HIDE DEF u
  <2>2. Sums(h, u)
    <3>1. n \in Nat /\ n <= Len(v) /\ Len(v) \in Nat
      OBVIOUS
    <3>2. h \in [0..Len(u) -> Nat] /\ h[0] = 0
      BY <2>1, <3>1 DEF Sums
    <3>3. ASSUME NEW i \in 1..Len(u) PROVE h[i] = h[i - 1] + u[i]
      <4>1. i \in 1..Len(v) /\ i \in 0..n /\ i - 1 \in 0..n /\ u[i] = v[i]
        BY <2>1, <3>1
      <4>2. f[i] = f[i - 1] + v[i]
        BY <4>1, Zenon DEF Sums
      <4> QED
        BY <4>1, <4>2, Zenon
    <3> QED
      BY <3>2, <3>3, Zenon DEF Sums
  <2> HIDE DEF h
  <2>3. Total(u) = h[n]
    BY <1>1, <2>1, <2>2, Zenon
  <2> QED
    BY <2>3 DEF u, h
<1> QED
  BY <1>1, <1>2, Zenon

-----------------------------------------------------------------------------
(* How often *)

\* A list marked where x is.
LEMMA MarksFacts ==
  ASSUME NEW T, NEW s \in Seq(T), NEW x
  PROVE  /\ Marks(s, x) \in Seq(Nat) /\ Len(Marks(s, x)) = Len(s)
         /\ \A i \in 1..Len(s) : Marks(s, x)[i] = IF s[i] = x THEN 1 ELSE 0
<1>1. Marks(s, x) \in [1..Len(s) -> Nat] /\ Len(s) \in Nat
  BY DEF Marks
<1>2. Marks(s, x) \in Seq(Nat) /\ Len(Marks(s, x)) = Len(s)
  BY <1>1
<1> QED
  BY <1>2, Zenon DEF Marks

\* x is on a list a number of times, and none if it is not there.
LEMMA CountFacts ==
  ASSUME NEW T, NEW s \in Seq(T), NEW x
  PROVE  Count(s, x) \in Nat /\ (x \notin Elems(s) => Count(s, x) = 0)
<1> DEFINE v == Marks(s, x)
<1>1. v \in Seq(Nat) /\ Len(v) = Len(s) /\ \A i \in 1..Len(s) : v[i] = IF s[i] = x THEN 1 ELSE 0
  BY MarksFacts, Zenon
<1>2. Count(s, x) = Total(v)
  BY Zenon DEF Count
<1> HIDE DEF v
<1>3. PICK f : Sums(f, v) /\ Total(v) = f[Len(v)]
  BY <1>1, SumsExist, Zenon
<1>4. /\ Len(s) \in Nat /\ f \in [0..Len(s) -> Nat] /\ f[0] = 0
      /\ \A i \in 1..Len(s) : f[i] = f[i - 1] + v[i]
  BY <1>1, <1>3 DEF Sums
<1>5. ASSUME x \notin Elems(s) PROVE f[Len(s)] = 0
  <2> DEFINE G == {m \in Nat : m <= Len(s) => f[m] = 0}
  <2>1. 0 \in G
    BY <1>4, Zenon
  <2>2. ASSUME NEW m \in G, m + 1 <= Len(s) PROVE f[m + 1] = 0
    <3>1. m + 1 \in 1..Len(s) /\ (m + 1) - 1 = m /\ f[m] = 0
      BY <2>2
    <3>2. v[m + 1] = 0
      BY <1>1, <1>5, <3>1, Zenon DEF Elems
    <3> QED
      BY <1>4, <3>1, <3>2
  <2>3. G \in SUBSET Nat /\ \A m \in G : m + 1 \in G
    BY <2>2
  <2> HIDE DEF G
  <2>4. Len(s) \in G
    BY <1>4, <2>1, <2>3, Induction, Zenon
  <2> QED
    BY <1>4, <2>4 DEF G
<1> QED
  BY <1>1, <1>2, <1>3, <1>4, <1>5

\* t is s with n times w at the end.
Longer(s, n, w, t) ==
  Len(t) = Len(s) + n /\ \A i \in 1..Len(t) : t[i] = IF i <= Len(s) THEN s[i] ELSE w

\* n more of w at the end of a list change the count of w only.
LEMMA CountMore ==
  ASSUME NEW T, NEW s \in Seq(T), NEW t \in Seq(T), NEW n \in Nat, NEW w, Longer(s, n, w, t),
         NEW x
  PROVE  /\ x = w => Count(t, x) = Count(s, x) + n
         /\ x # w => Count(t, x) = Count(s, x)
<1> DEFINE u == Marks(s, x)  v == Marks(t, x)  k == Len(s)
<1>1. /\ u \in Seq(Nat) /\ Len(u) = k /\ \A i \in 1..k : u[i] = IF s[i] = x THEN 1 ELSE 0
      /\ v \in Seq(Nat) /\ Len(v) = Len(t) /\ \A i \in 1..Len(t) : v[i] = IF t[i] = x THEN 1 ELSE 0
      /\ k \in Nat
  BY MarksFacts
<1>2. Count(s, x) = Total(u) /\ Count(t, x) = Total(v)
  BY Zenon DEF Count
<1> HIDE DEF u, v, k
<1>3. Len(t) = k + n /\ \A i \in 1..k + n : t[i] = IF i <= k THEN s[i] ELSE w
  BY Zenon DEF k, Longer
<1>4. PICK f : Sums(f, v) /\ Total(v) = f[Len(v)]
  BY <1>1, SumsExist, Zenon
<1>5. /\ f \in [0..k + n -> Nat]
      /\ \A i \in 1..k + n : f[i] = f[i - 1] + v[i]
  BY <1>1, <1>3, <1>4, Zenon DEF Sums
<1>6. Total(u) = f[k]
  <2>1. k \in 0..Len(v)
    BY <1>1, <1>3
  <2>2. Upto(v, k) \in Seq(Nat) /\ Len(Upto(v, k)) = k /\ \A i \in 1..k : Upto(v, k)[i] = v[i]
    BY <1>1, <2>1, UptoFacts, Zenon
  <2>3. ASSUME NEW i \in 1..k PROVE v[i] = u[i]
    <3>1. i \in 1..Len(t) /\ t[i] = s[i]
      BY <1>1, <1>3
    <3> QED
      BY <1>1, <3>1, Zenon
  <2>4. Upto(v, k) = u
    BY <1>1, <2>2, <2>3, SameLists, ZenonT(30)
  <2>5. Total(Upto(v, k)) = f[k]
    BY <1>1, <1>4, <2>1, TotalIs, Zenon
  <2> QED
    BY <2>4, <2>5, Zenon
<1> DEFINE G == {m \in Nat : m <= n => f[k + m] = f[k] + IF x = w THEN m ELSE 0}
<1>7. 0 \in G /\ f[k] \in Nat
  BY <1>1, <1>5
<1>8. ASSUME NEW m \in G, m + 1 <= n PROVE f[k + (m + 1)] = f[k] + IF x = w THEN m + 1 ELSE 0
  <2>1. /\ k + (m + 1) \in 1..k + n /\ (k + (m + 1)) - 1 = k + m
        /\ f[k + m] = f[k] + IF x = w THEN m ELSE 0
    BY <1>1, <1>8
  <2>2. v[k + (m + 1)] = IF x = w THEN 1 ELSE 0
    BY <1>1, <1>3, <2>1
  <2>3. f[k + (m + 1)] = f[k + m] + v[k + (m + 1)]
    BY <1>5, <2>1, Zenon
  <2>4. m \in Nat /\ f[k] \in Nat
    BY <1>7, Zenon
  <2> HIDE DEF G
  <2>5. CASE x = w
    <3>1. f[k + m] = f[k] + m /\ f[k + (m + 1)] = f[k + m] + 1
      BY <2>1, <2>2, <2>3, <2>5, Zenon
    <3>2. \A a \in Nat : (a + m) + 1 = a + (m + 1)
      BY <2>4
    <3>3. f[k + (m + 1)] = f[k] + (m + 1)
      BY <2>4, <3>1, <3>2, Zenon
    <3> QED
      BY <2>5, <3>3, Zenon
  <2>6. CASE x # w
    <3>1. f[k + m] = f[k] + 0 /\ f[k + (m + 1)] = f[k + m] + 0
      BY <2>1, <2>2, <2>3, <2>6, Zenon
    <3>2. f[k + (m + 1)] = f[k] + 0
      BY <2>4, <3>1
    <3> QED
      BY <2>6, <3>2, Zenon
  <2> QED
    BY <2>5, <2>6, Zenon
<1>9. G \in SUBSET Nat /\ \A m \in G : m + 1 \in G
  BY <1>8
<1> HIDE DEF G
<1>10. n \in G
  BY <1>7, <1>9, Induction, Zenon
<1>11. f[k + n] = f[k] + IF x = w THEN n ELSE 0
  BY <1>10 DEF G
<1>12. Count(s, x) = f[k] /\ Count(t, x) = f[k + n]
  BY <1>1, <1>2, <1>3, <1>4, <1>6, Zenon
<1> QED
  BY <1>7, <1>11, <1>12
=============================================================================
