------------------------------- MODULE Lists -------------------------------
(***************************************************************************)
(* The few operations on queues and intrusive lists that the components    *)
(* share.                                                                  *)
(***************************************************************************)
EXTENDS Integers, Sequences

Upto(s, n) == SubSeq(s, 1, n)
From(s, n) == SubSeq(s, n + 1, Len(s))
Elems(s) == {s[i] : i \in 1..Len(s)}

\* No element is on the list twice.
Once(s) == \A i, j \in 1..Len(s) : s[i] = s[j] => i = j

WithoutAt(s, i) == Upto(s, i - 1) \o From(s, i)

\* t is s without x, which s may or may not hold: an element unlinks itself.
Unlinked(s, x, t) ==
  \/ \E i \in 1..Len(s) : s[i] = x /\ t = WithoutAt(s, i)
  \/ x \notin Elems(s) /\ t = s

\* s without the members of S
Omit(s, S) ==
  LET left[i \in 0..Len(s)] ==
        IF i = 0 THEN <<>> ELSE IF s[i] \in S THEN left[i - 1] ELSE Append(left[i - 1], s[i])
  IN  left[Len(s)]

\* The sum of a sequence of numbers, and n times the same element
Total(s) ==
  LET sum[i \in 0..Len(s)] == IF i = 0 THEN 0 ELSE sum[i - 1] + s[i] IN sum[Len(s)]
Times(n, x) == [i \in 1..n |-> x]

\* How often x is on the list
Marks(s, x) == [i \in 1..Len(s) |-> IF s[i] = x THEN 1 ELSE 0]
Count(s, x) == Total(Marks(s, x))

\* S has n members: there is a list of that length with each of them once.
Numbered(S, n) == \E f \in [1..n -> S] : Once(f) /\ Elems(f) = S
=============================================================================
