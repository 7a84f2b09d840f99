-------------------------------- MODULE Lists --------------------------------
(***************************************************************************)
(* Selections from lists, as the comprehensions of archolith_proxy make     *)
(* them: [x for x in s if ...].  SelectSeq of the Sequences module says the *)
(* same, but nothing can be proved about it here; ListsProofs has what the  *)
(* proofs need of this one.  So do the lists that are sorted.               *)
(***************************************************************************)
EXTENDS Integers, Sequences, FiniteSets

\* The elements of s that are in T, in their order.
Only(s, T) ==
  LET only[n \in 0..Len(s)] ==
        IF n = 0 THEN <<>>
        ELSE IF s[n] \in T THEN Append(only[n - 1], s[n]) ELSE only[n - 1]
  IN  only[Len(s)]

\* The elements of s, but those that are like one kept before them: R has the
\* pairs of an element and a later one like it.
FirstOnly(s, R) ==
  LET first[n \in 0..Len(s)] ==
        IF n = 0 THEN <<>>
        ELSE IF \E k \in 1..Len(first[n - 1]) : <<first[n - 1][k], s[n]>> \in R
          THEN first[n - 1] ELSE Append(first[n - 1], s[n])
  IN  first[Len(s)]

\* The elements of a set, sorted: R has the pairs of an element and one that
\* comes after it.
InOrderOf(S, R) ==
  [k \in 1..Cardinality(S) |->
     CHOOSE e \in S : Cardinality({x \in S : <<x, e>> \in R}) = k - 1]

\* How a list is sorted by a number of each place, the highest first, as
\* sorted(..., reverse=True) does: places of equal numbers stay in their order.
HighestFirst(places, number) ==
  {p \in places \X places :
     \/ number[p[1]] > number[p[2]]
     \/ number[p[1]] = number[p[2]] /\ p[1] < p[2]}
==============================================================================
