---------------------------- MODULE Selections ----------------------------
(***************************************************************************)
(* Which elements of a sequence are of a kind, and which of them comes     *)
(* first, second, third: what the properties of Session and Login say of   *)
(* the lines in a stream of bytes.  A place is counted by its rank rather  *)
(* than selected by a recursion, so that it can be reasoned about.         *)
(***************************************************************************)
EXTENDS Naturals, Sequences, FiniteSets

(* The places of a sequence where an element of T is, and how many.        *)
Places(s, T) == {i \in DOMAIN s : s[i] \in T}
Count(s, T) == Cardinality(Places(s, T))

(* How many elements of S are no later than i: 1 for the first of S, 2 for *)
(* the second.                                                             *)
Rank(S, i) == Cardinality({j \in S : j <= i})
=============================================================================
