---------------------------- MODULE Subsequences ----------------------------
(***************************************************************************)
(* Sequences made of the elements of others, and sums.                     *)
(***************************************************************************)
EXTENDS Integers, SequencesExt

\* The sequence itself, of which TLC then has the elements.
Listed(seq) == SubSeq(seq, 1, Len(seq))

\* The n-th of the numbers of a set.
Nth(set, n) == CHOOSE i \in set : Cardinality({j \in set : j <= i}) = n

\* The elements at these places, in their order.
Pick(seq, at) == Listed([n \in 1 .. Cardinality(at) |-> seq[Nth(at, n)]])

\* The elements in another order: ahead has the pairs of places of which the
\* first goes in front.
Sorted(seq, ahead) ==
  LET place(n) == CHOOSE i \in DOMAIN seq :
                    Cardinality({j \in DOMAIN seq : <<j, i>> \in ahead}) = n - 1
  IN Listed([n \in DOMAIN seq |-> seq[place(n)]])

\* The sum of the first n numbers of a sequence, and of all.
Sums(numbers) ==
  LET sum[n \in 0 .. Len(numbers)] == IF n = 0 THEN 0 ELSE sum[n - 1] + numbers[n]
  IN sum

Total(numbers) == Sums(numbers)[Len(numbers)]
=============================================================================
