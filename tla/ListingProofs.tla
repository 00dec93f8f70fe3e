--------------------------- MODULE ListingProofs ---------------------------
(***************************************************************************)
(* Proofs about Listing.                                                   *)
(*                                                                         *)
(* wildcmp accepts exactly the names that the wildcard matches, for every  *)
(* wildcard and every name (LoopsMatch): the position of its loops carries *)
(* a claim that every turn keeps.  The four invariants follow from Held,   *)
(* which says of a listing that runs what it has answered so far.          *)
(***************************************************************************)
EXTENDS Listing, TLAPS, WellFoundedInduction, SequenceTheorems

----------------------------------------------------------------------------
(* Least and greatest *)

\* A set of naturals that is not empty has a least element.
LEMMA LeastIs ==
    ASSUME NEW S, S \subseteq Nat, S # {}
    PROVE  Least(S) \in S /\ \A k \in S : Least(S) <= k
<1>1. PICK n \in S : \A k \in S : ~(<<k, n>> \in OpToRel(<, Nat))
  BY NatLessThanWellFounded, WFMin
<1>2. \A k \in S : n <= k
  <2> SUFFICES ASSUME NEW k \in S, k < n PROVE FALSE
    OBVIOUS
  <2>1. <<k, n>> \in OpToRel(<, Nat)
    BY DEF OpToRel
  <2> QED BY <1>1, <2>1
<1> QED BY <1>2 DEF Least

\* And a greatest one, if it has a bound.
LEMMA GreatestIs ==
    ASSUME NEW S, NEW K \in Nat, S \subseteq 0..K, S # {}
    PROVE  Greatest(S) \in S /\ \A k \in S : Greatest(S) >= k
<1> DEFINE D == {K - k : k \in S}
<1>1. D \subseteq Nat /\ D # {}
  <2>1. \A k \in S : K - k \in Nat
    OBVIOUS
  <2> QED BY <2>1
<1>2. Least(D) \in D /\ \A k \in D : Least(D) <= k
  <2> HIDE DEF D
  <2> QED BY <1>1, LeastIs
<1>3. PICK n \in S : Least(D) = K - n
  BY <1>2
<1>4. \A k \in S : n >= k
  <2> SUFFICES ASSUME NEW k \in S PROVE n >= k
    OBVIOUS
  <2>1. K - k \in D
    OBVIOUS
  <2>2. K - n <= K - k
    BY <2>1, <1>2, <1>3
  <2> QED BY <2>2
<1> QED BY <1>4 DEF Greatest

----------------------------------------------------------------------------
(* What a wildcard means, from any place on *)

\* The piece that the wildcard's character k stands for.
Piece(w, s, cut, k) ==
    IF w[k] = "*" THEN cut[k] >= cut[k - 1]
    ELSE cut[k] = cut[k - 1] + 1 /\ w[k] \in {"?", s[cut[k]]}

\* A way to cut string[j], string[j + 1], ... into pieces for wild[i],
\* wild[i + 1], ...
IsCut(w, s, i, j, cut) ==
    /\ cut \in [(i - 1)..Len(w) -> 0..Len(s)]
    /\ cut[i - 1] = j - 1 /\ cut[Len(w)] = Len(s)
    /\ \A k \in i..Len(w) : Piece(w, s, cut, k)
Rest(w, s, i, j) == \E cut : IsCut(w, s, i, j, cut)

Stars(w, i) == \A k \in i..Len(w) : w[k] = "*"

LEMMA RestIsMatch ==
    ASSUME NEW w \in Text, NEW s \in Text
    PROVE  Matches(w, s) <=> Rest(w, s, 1, 1)
BY DEF Matches, Rest, IsCut, Piece, Text

LEMMA RestAtEnd ==
    ASSUME NEW w \in Text, NEW s \in Text, NEW j \in 1..(Len(s) + 1)
    PROVE  Rest(w, s, Len(w) + 1, j) <=> j = Len(s) + 1
<1>1. ASSUME Rest(w, s, Len(w) + 1, j) PROVE j = Len(s) + 1
  BY <1>1 DEF Rest, IsCut, Text
<1>2. ASSUME j = Len(s) + 1 PROVE Rest(w, s, Len(w) + 1, j)
  <2> DEFINE cut == [k \in Len(w)..Len(w) |-> Len(s)]
  <2>1. IsCut(w, s, Len(w) + 1, j, cut)
    BY <1>2 DEF IsCut, Text
  <2> QED BY <2>1 DEF Rest
<1> QED BY <1>1, <1>2

\* One piece is taken off the front of a cut.
LEMMA CutFirst ==
    ASSUME NEW w \in Text, NEW s \in Text, NEW i \in 1..Len(w),
           NEW j \in 1..(Len(s) + 1), Rest(w, s, i, j)
    PROVE  \E n \in 1..(Len(s) + 1) :
             /\ Rest(w, s, i + 1, n)
             /\ IF w[i] = "*" THEN n >= j ELSE n = j + 1 /\ w[i] \in {"?", s[j]}
<1> PICK cut : IsCut(w, s, i, j, cut)
  BY DEF Rest
<1> DEFINE c == [k \in i..Len(w) |-> cut[k]]
<1>0. Len(w) \in Nat /\ Len(s) \in Nat
  BY DEF Text
<1>1. cut \in [(i - 1)..Len(w) -> 0..Len(s)]
  BY DEF IsCut
<1>2. c \in [i..Len(w) -> 0..Len(s)] /\ (i + 1) - 1 = i
  BY <1>0, <1>1
<1>3. c[i] = (cut[i] + 1) - 1 /\ c[Len(w)] = Len(s)
  BY <1>0, <1>1 DEF IsCut
<1>4. \A k \in (i + 1)..Len(w) : Piece(w, s, c, k)
  BY <1>0 DEF IsCut, Piece
<1>5. IsCut(w, s, i + 1, cut[i] + 1, c)
  <2> HIDE DEF c
  <2> QED BY <1>2, <1>3, <1>4 DEF IsCut
<1>6. cut[i - 1] = j - 1 /\ Piece(w, s, cut, i)
  BY <1>0 DEF IsCut
<1>7. IF w[i] = "*" THEN cut[i] + 1 >= j
      ELSE cut[i] + 1 = j + 1 /\ w[i] \in {"?", s[j]}
  <2>1. cut[i] \in 0..Len(s)
    BY <1>0, <1>1
  <2>2. CASE w[i] = "*"
    BY <1>6, <2>1, <2>2 DEF Piece
  <2>3. CASE w[i] # "*"
    <3>1. cut[i] = j
      BY <1>6, <2>1, <2>3 DEF Piece
    <3> QED BY <1>6, <2>3, <3>1 DEF Piece
  <2> QED BY <2>2, <2>3
<1>8. cut[i] + 1 \in 1..(Len(s) + 1) /\ Rest(w, s, i + 1, cut[i] + 1)
  <2>1. Rest(w, s, i + 1, cut[i] + 1)
    <3> HIDE DEF c
    <3> QED BY <1>5 DEF Rest
  <2> QED BY <1>0, <1>1, <2>1
<1> HIDE DEF c
<1> QED BY <1>7, <1>8

\* And put in front of one.
LEMMA CutWith ==
    ASSUME NEW w \in Text, NEW s \in Text, NEW i \in 1..Len(w),
           NEW j \in 1..(Len(s) + 1), NEW n \in 1..(Len(s) + 1), NEW cut,
           IsCut(w, s, i + 1, n, cut),
           IF w[i] = "*" THEN n >= j ELSE n = j + 1 /\ w[i] \in {"?", s[j]}
    PROVE  Rest(w, s, i, j)
<1> DEFINE c == [k \in (i - 1)..Len(w) |-> IF k = i - 1 THEN j - 1 ELSE cut[k]]
<1>0. Len(w) \in Nat /\ Len(s) \in Nat
  BY DEF Text
<1>1. cut \in [i..Len(w) -> 0..Len(s)] /\ cut[i] = n - 1 /\ cut[Len(w)] = Len(s)
  BY DEF IsCut
<1>2. c \in [(i - 1)..Len(w) -> 0..Len(s)]
  BY <1>0, <1>1
<1>3. c[i - 1] = j - 1 /\ c[Len(w)] = Len(s) /\ c[i] = n - 1
  BY <1>0, <1>1
<1>4. \A k \in (i + 1)..Len(w) : Piece(w, s, c, k)
  BY <1>0 DEF IsCut, Piece
<1>5. Piece(w, s, c, i)
  <2> HIDE DEF c
  <2> QED BY <1>0, <1>3 DEF Piece
<1>6. IsCut(w, s, i, j, c)
  <2> HIDE DEF c
  <2> QED BY <1>0, <1>2, <1>3, <1>4, <1>5 DEF IsCut
<1> QED BY <1>6 DEF Rest

LEMMA RestAtStar ==
    ASSUME NEW w \in Text, NEW s \in Text, NEW i \in 1..Len(w), w[i] = "*",
           NEW j \in 1..(Len(s) + 1)
    PROVE  Rest(w, s, i, j) <=> \E n \in j..(Len(s) + 1) : Rest(w, s, i + 1, n)
<1>0. Len(w) \in Nat /\ Len(s) \in Nat
  BY DEF Text
<1>1. ASSUME Rest(w, s, i, j)
      PROVE  \E n \in j..(Len(s) + 1) : Rest(w, s, i + 1, n)
  <2>1. PICK n \in 1..(Len(s) + 1) : n >= j /\ Rest(w, s, i + 1, n)
    BY <1>1, CutFirst
  <2> QED BY <1>0, <2>1
<1>2. ASSUME NEW n \in j..(Len(s) + 1), Rest(w, s, i + 1, n)
      PROVE  Rest(w, s, i, j)
  <2>1. PICK cut : IsCut(w, s, i + 1, n, cut)
    BY <1>2 DEF Rest
  <2>2. n \in 1..(Len(s) + 1) /\ n >= j
    BY <1>0
  <2> QED BY <2>1, <2>2, CutWith
<1> QED BY <1>1, <1>2

LEMMA RestAtChar ==
    ASSUME NEW w \in Text, NEW s \in Text, NEW i \in 1..Len(w), w[i] # "*",
           NEW j \in 1..(Len(s) + 1)
    PROVE  Rest(w, s, i, j) <=>
             j <= Len(s) /\ w[i] \in {"?", s[j]} /\ Rest(w, s, i + 1, j + 1)
<1>0. Len(w) \in Nat /\ Len(s) \in Nat
  BY DEF Text
<1>1. ASSUME Rest(w, s, i, j)
      PROVE  j <= Len(s) /\ w[i] \in {"?", s[j]} /\ Rest(w, s, i + 1, j + 1)
  <2>1. PICK n \in 1..(Len(s) + 1) :
          n = j + 1 /\ w[i] \in {"?", s[j]} /\ Rest(w, s, i + 1, n)
    BY <1>1, CutFirst
  <2> QED BY <1>0, <2>1
<1>2. ASSUME j <= Len(s), w[i] \in {"?", s[j]}, Rest(w, s, i + 1, j + 1)
      PROVE  Rest(w, s, i, j)
  <2>1. PICK cut : IsCut(w, s, i + 1, j + 1, cut)
    BY <1>2 DEF Rest
  <2>2. j + 1 \in 1..(Len(s) + 1)
    BY <1>0, <1>2
  <2> QED BY <1>2, <2>1, <2>2, CutWith
<1> QED BY <1>1, <1>2

\* At the end of the string only stars may be left.
LEMMA RestOfNothing ==
    ASSUME NEW w \in Text, NEW s \in Text, NEW i \in 1..(Len(w) + 1)
    PROVE  Rest(w, s, i, Len(s) + 1) <=> Stars(w, i)
<1>0. Len(w) \in Nat /\ Len(s) \in Nat
  BY DEF Text
<1>1. ASSUME Stars(w, i) PROVE Rest(w, s, i, Len(s) + 1)
  <2> DEFINE cut == [k \in (i - 1)..Len(w) |-> Len(s)]
  <2>1. \A k \in i..Len(w) : Piece(w, s, cut, k)
    BY <1>0, <1>1 DEF Piece, Stars
  <2>2. IsCut(w, s, i, Len(s) + 1, cut)
    BY <1>0, <2>1 DEF IsCut
  <2> QED BY <2>2 DEF Rest
<1>2. ASSUME Rest(w, s, i, Len(s) + 1) PROVE Stars(w, i)
  <2>1. PICK cut : IsCut(w, s, i, Len(s) + 1, cut)
    BY <1>2 DEF Rest
  <2>2. /\ cut \in [(i - 1)..Len(w) -> 0..Len(s)]
        /\ cut[i - 1] = Len(s)
        /\ \A k \in i..Len(w) : Piece(w, s, cut, k)
    BY <1>0, <2>1 DEF IsCut
  <2> DEFINE Less == {k \in (i - 1)..Len(w) : cut[k] # Len(s)}
  <2>3. Less = {}
    <3> SUFFICES ASSUME Less # {} PROVE FALSE
      OBVIOUS
    <3>1. Less \subseteq Nat
      BY <1>0
    <3>2. Least(Less) \in Less /\ \A k \in Less : Least(Less) <= k
      <4> HIDE DEF Less
      <4> QED BY <3>1, LeastIs
    <3>3. PICK k \in Less : \A m \in Less : k <= m
      BY <3>2
    <3>4. k \in i..Len(w) /\ k - 1 \in (i - 1)..Len(w)
      BY <1>0, <2>2
    <3>5. cut[k - 1] = Len(s)
      BY <1>0, <3>3, <3>4
    <3>6. cut[k] \in 0..Len(s) /\ Piece(w, s, cut, k)
      BY <2>2, <3>4
    <3>7. cut[k] = Len(s)
      BY <1>0, <3>5, <3>6 DEF Piece
    <3> QED BY <3>7
  <2>4. \A k \in i..Len(w) : w[k] = "*"
    <3> SUFFICES ASSUME NEW k \in i..Len(w), w[k] # "*" PROVE FALSE
      OBVIOUS
    <3>1. k - 1 \in (i - 1)..Len(w) /\ k \in (i - 1)..Len(w)
      BY <1>0
    <3>2. cut[k - 1] = Len(s) /\ cut[k] = Len(s)
      BY <2>3, <3>1
    <3> QED BY <1>0, <2>2, <3>2 DEF Piece
  <2> QED BY <2>4 DEF Stars
<1> QED BY <1>1, <1>2

\* Characters that are no stars take one each.
LEMMA RestBehind ==
    ASSUME NEW w \in Text, NEW s \in Text,
           NEW m \in 1..(Len(w) + 1), NEW i \in m..(Len(w) + 1),
           \A k \in m..(i - 1) : w[k] # "*",
           NEW n \in 1..(Len(s) + 1), Rest(w, s, m, n)
    PROVE  n + (i - m) <= Len(s) + 1 /\ Rest(w, s, i, n + (i - m))
<1>0. Len(w) \in Nat /\ Len(s) \in Nat
  BY DEF Text
<1> DEFINE Good(k) == n + (k - m) <= Len(s) + 1 /\ Rest(w, s, k, n + (k - m))
           Bad == {k \in m..i : ~Good(k)}
<1>1. SUFFICES Bad = {}
  <2>1. i \in m..i
    BY <1>0
  <2>2. ASSUME Bad = {} PROVE Good(i)
    <3> HIDE DEF Good
    <3> QED BY <2>1, <2>2
  <2> QED BY <2>2
<1>2. SUFFICES ASSUME Bad # {} PROVE FALSE
  OBVIOUS
<1>3. Bad \subseteq Nat
  BY <1>0
<1>4. Least(Bad) \in Bad /\ \A k \in Bad : Least(Bad) <= k
  <2> HIDE DEF Bad
  <2> QED BY <1>2, <1>3, LeastIs
<1>5. PICK k \in Bad : \A h \in Bad : k <= h
  BY <1>4
<1>6. Good(m)
  BY <1>0
<1>7. k \in (m + 1)..i
  <2> HIDE DEF Good
  <2> QED BY <1>0, <1>5, <1>6
<1>8. Good(k - 1)
  <2> HIDE DEF Good
  <2> QED BY <1>0, <1>5, <1>7
<1> DEFINE j == n + ((k - 1) - m)
<1>9. /\ k - 1 \in 1..Len(w) /\ w[k - 1] # "*"
      /\ j \in 1..(Len(s) + 1) /\ Rest(w, s, k - 1, j)
  BY <1>0, <1>7, <1>8
<1>10. j <= Len(s) /\ Rest(w, s, (k - 1) + 1, j + 1)
  <2> HIDE DEF j
  <2> QED BY <1>9, RestAtChar
<1>11. (k - 1) + 1 = k /\ j + 1 = n + (k - m)
  BY <1>0, <1>7
<1>12. Good(k)
  <2>1. n + (k - m) <= Len(s) + 1
    BY <1>0, <1>7, <1>10
  <2> QED BY <1>10, <1>11, <2>1
<1> QED BY <1>12

----------------------------------------------------------------------------
(* The loops of wildcmp *)

\* One turn of the loops from position p, when from says how it goes on.
Turn(w, s, from, p) ==
    \/ p.j > Len(s) /\ \A k \in p.i..Len(w) : w[k] = "*"
    \/ /\ p.j <= Len(s) /\ At(w, p.i) = "*"
       /\ p.i = Len(w) \/ from[AfterStar(p)]
    \/ /\ p.j <= Len(s) /\ At(w, p.i) # "*" /\ At(w, p.i) \in {s[p.j], "?"}
       /\ from[AfterBoth(p)]
    \/ /\ p.j <= Len(s) /\ At(w, p.i) \notin {"*", "?", s[p.j]}
       /\ p.mp # 0 /\ from[NextTry(p)]

\* What a position stands for: the rest matches, or it would from string[cp] or
\* a later place on, with the last "*" taking what is before.
Later(w, s, m, c) == \E n \in c..(Len(s) + 1) : Rest(w, s, m, n)
Claim(w, s, p) == Rest(w, s, p.i, p.j) \/ (p.mp # 0 /\ Later(w, s, p.mp, p.cp))

AtStar(w, s, p) == p.j <= Len(s) /\ At(w, p.i) = "*" /\ p.i # Len(w)
AtBoth(w, s, p) == p.j <= Len(s) /\ At(w, p.i) # "*" /\ At(w, p.i) \in {s[p.j], "?"}
AtMiss(w, s, p) == p.j <= Len(s) /\ At(w, p.i) \notin {"*", "?", s[p.j]} /\ p.mp # 0

\* What is known of a position.
LEMMA PositionIs ==
    ASSUME NEW w \in Text, NEW s \in Text, NEW p \in Positions(w, s)
    PROVE  /\ Len(w) \in Nat /\ Len(s) \in Nat
           /\ p.i \in 1..(Len(w) + 1) /\ p.j \in 1..(Len(s) + 1)
           /\ p.mp \in 0..(Len(w) + 1) /\ p.cp \in 0..(Len(s) + 2)
           /\ p.mp # 0 =>
                /\ p.mp \in 1..(Len(w) + 1) /\ p.i \in p.mp..(Len(w) + 1)
                /\ p.cp \in 1..(Len(s) + 2)
                /\ p.i - p.mp = p.j - (p.cp - 1)
                /\ \A k \in p.mp..(p.i - 1) : w[k] # "*"
<1>1. Len(w) \in Nat /\ Len(s) \in Nat
  BY DEF Text
<1>2. p \in [i : 1..(Len(w) + 1), j : 1..(Len(s) + 1), mp : 0..(Len(w) + 1), cp : 0..(Len(s) + 2)]
  BY DEF Positions
<1>3. p.mp # 0 =>
        /\ p.mp <= p.i /\ p.cp >= 1 /\ p.i - p.mp = p.j - (p.cp - 1)
        /\ \A k \in p.mp..(p.i - 1) : w[k] # "*"
  BY DEF Positions
<1>4. /\ p.i \in 1..(Len(w) + 1) /\ p.j \in 1..(Len(s) + 1)
      /\ p.mp \in 0..(Len(w) + 1) /\ p.cp \in 0..(Len(s) + 2)
  BY <1>2
<1>5. ASSUME p.mp # 0
      PROVE  /\ p.mp \in 1..(Len(w) + 1) /\ p.i \in p.mp..(Len(w) + 1)
             /\ p.cp \in 1..(Len(s) + 2)
  BY <1>1, <1>3, <1>4, <1>5
<1> QED BY <1>1, <1>3, <1>4, <1>5

LEMMA CharacterIs ==
    ASSUME NEW w \in Text, NEW s \in Text, NEW p \in Positions(w, s)
    PROVE  /\ At(w, p.i) = "*" => p.i \in 1..Len(w) /\ w[p.i] = "*"
           /\ p.j <= Len(s) /\ At(w, p.i) \in {s[p.j], "?"} => p.i \in 1..Len(w)
           /\ p.i \in 1..Len(w) => At(w, p.i) = w[p.i]
<1>1. /\ Len(w) \in Nat /\ Len(s) \in Nat
      /\ p.i \in 1..(Len(w) + 1) /\ p.j \in 1..(Len(s) + 1)
  BY PositionIs
<1>2. p.j <= Len(s) => s[p.j] # "NUL"
  BY <1>1, CharactersAssumption DEF Text
<1> QED BY <1>1, <1>2 DEF At

LEMMA StarTurns ==
    ASSUME NEW w \in Text, NEW s \in Text, NEW p \in Positions(w, s), AtStar(w, s, p)
    PROVE  AfterStar(p) \in Positions(w, s)
<1>1. p.i \in 1..Len(w) /\ p.j \in 1..Len(s)
  BY PositionIs, CharacterIs DEF AtStar
<1>2. Len(w) \in Nat /\ Len(s) \in Nat
  BY PositionIs
<1> DEFINE q == [i |-> p.i + 1, j |-> p.j, mp |-> p.i + 1, cp |-> p.j + 1]
<1>3. q \in [i : 1..(Len(w) + 1), j : 1..(Len(s) + 1), mp : 0..(Len(w) + 1), cp : 0..(Len(s) + 2)]
  BY <1>1, <1>2
<1>4. q.mp <= q.i /\ q.cp >= 1 /\ q.i - q.mp = q.j - (q.cp - 1)
  BY <1>1, <1>2
<1>5. \A k \in q.mp..(q.i - 1) : w[k] # "*"
  BY <1>1, <1>2
<1>6. q \in Positions(w, s)
  BY <1>3, <1>4, <1>5 DEF Positions
<1> QED BY <1>6 DEF AfterStar

LEMMA BothTurns ==
    ASSUME NEW w \in Text, NEW s \in Text, NEW p \in Positions(w, s), AtBoth(w, s, p)
    PROVE  AfterBoth(p) \in Positions(w, s)
<1> DEFINE q == [i |-> p.i + 1, j |-> p.j + 1, mp |-> p.mp, cp |-> p.cp]
<1>1. p.i \in 1..Len(w) /\ p.j \in 1..Len(s) /\ w[p.i] # "*"
  BY PositionIs, CharacterIs DEF AtBoth
<1>2. AfterBoth(p) = q
  BY DEF AfterBoth
<1>3. ASSUME p.mp # 0
      PROVE  /\ p.mp <= p.i + 1 /\ p.cp >= 1 /\ (p.i + 1) - p.mp = (p.j + 1) - (p.cp - 1)
             /\ \A k \in p.mp..((p.i + 1) - 1) : w[k] # "*"
  <2>1. /\ p.mp \in 1..(Len(w) + 1) /\ p.i \in p.mp..(Len(w) + 1)
        /\ p.cp \in 1..(Len(s) + 2)
        /\ p.i - p.mp = p.j - (p.cp - 1)
        /\ \A k \in p.mp..(p.i - 1) : w[k] # "*"
    BY <1>3, PositionIs
  <2>2. Len(w) \in Nat
    BY PositionIs
  <2>3. p.mp <= p.i + 1 /\ p.cp >= 1 /\ (p.i + 1) - p.mp = (p.j + 1) - (p.cp - 1)
    <3> DEFINE i == p.i
               j == p.j
               m == p.mp
               c == p.cp
    <3>1. i \in Nat /\ j \in Nat /\ m \in Nat /\ c \in Nat
      BY <1>1, <2>1, <2>2
    <3>2. i >= m /\ c >= 1 /\ i - m = j - (c - 1)
      BY <2>1, <2>2
    <3>3. m <= i + 1 /\ c >= 1 /\ (i + 1) - m = (j + 1) - (c - 1)
      <4> HIDE DEF i, j, m, c
      <4> QED BY <3>1, <3>2
    <3> QED BY <3>3
  <2>4. ASSUME NEW k \in p.mp..((p.i + 1) - 1) PROVE w[k] # "*"
    <3>1. k = p.i \/ k \in p.mp..(p.i - 1)
      BY <1>1, <2>1, <2>2
    <3> QED BY <1>1, <2>1, <3>1
  <2> QED BY <2>3, <2>4
<1>4. q \in Positions(w, s)
  <2>1. q \in [i : 1..(Len(w) + 1), j : 1..(Len(s) + 1), mp : 0..(Len(w) + 1), cp : 0..(Len(s) + 2)]
    BY <1>1, PositionIs
  <2> QED BY <1>3, <2>1 DEF Positions
<1> QED BY <1>2, <1>4

LEMMA MissTurns ==
    ASSUME NEW w \in Text, NEW s \in Text, NEW p \in Positions(w, s), AtMiss(w, s, p)
    PROVE  NextTry(p) \in Positions(w, s)
<1> DEFINE q == [i |-> p.mp, j |-> p.cp, mp |-> p.mp, cp |-> p.cp + 1]
<1>1. /\ p.j \in 1..Len(s) /\ p.mp \in 1..(Len(w) + 1)
      /\ p.i \in p.mp..(Len(w) + 1)
      /\ p.cp \in 1..(Len(s) + 2) /\ p.i - p.mp = p.j - (p.cp - 1)
      /\ Len(w) \in Nat /\ Len(s) \in Nat
  BY PositionIs DEF AtMiss
<1>2. NextTry(p) = q
  BY DEF NextTry
<1>3. p.cp \in 1..(Len(s) + 1)
  BY <1>1
<1>4. q \in Positions(w, s)
  <2>1. q \in [i : 1..(Len(w) + 1), j : 1..(Len(s) + 1), mp : 0..(Len(w) + 1), cp : 0..(Len(s) + 2)]
    BY <1>1, <1>3
  <2>2. q.mp <= q.i /\ q.cp >= 1 /\ q.i - q.mp = q.j - (q.cp - 1)
    BY <1>1, <1>3
  <2>3. \A k \in q.mp..(q.i - 1) : w[k] # "*"
    BY <1>1
  <2> QED BY <2>1, <2>2, <2>3 DEF Positions
<1> QED BY <1>2, <1>4

\* A turn keeps the claim, if what it goes on with does.
LEMMA ClaimTurns ==
    ASSUME NEW w \in Text, NEW s \in Text, NEW p \in Positions(w, s), NEW f,
           AtStar(w, s, p) => (f[AfterStar(p)] <=> Claim(w, s, AfterStar(p))),
           AtBoth(w, s, p) => (f[AfterBoth(p)] <=> Claim(w, s, AfterBoth(p))),
           AtMiss(w, s, p) => (f[NextTry(p)] <=> Claim(w, s, NextTry(p)))
    PROVE  Turn(w, s, f, p) <=> Claim(w, s, p)
<1> DEFINE i == p.i
           j == p.j
           L == p.mp # 0 /\ Later(w, s, p.mp, p.cp)
<1>1. /\ Len(w) \in Nat /\ Len(s) \in Nat
      /\ i \in 1..(Len(w) + 1) /\ j \in 1..(Len(s) + 1)
  BY PositionIs
<1>2. Claim(w, s, p) <=> Rest(w, s, i, j) \/ L
  BY DEF Claim
<1>3. ASSUME L
      PROVE  \E n \in (j + 1)..(Len(s) + 1) : Rest(w, s, i, n)
  <2>1. PICK n \in p.cp..(Len(s) + 1) : Rest(w, s, p.mp, n)
    BY <1>3 DEF Later
  <2>2. /\ p.mp \in 1..(Len(w) + 1) /\ i \in p.mp..(Len(w) + 1)
        /\ p.cp \in 1..(Len(s) + 2)
        /\ i - p.mp = j - (p.cp - 1)
        /\ \A k \in p.mp..(i - 1) : w[k] # "*"
    BY <1>3, PositionIs
  <2>3. n \in 1..(Len(s) + 1)
    BY <1>1, <2>1, <2>2
  <2>4. n + (i - p.mp) <= Len(s) + 1 /\ Rest(w, s, i, n + (i - p.mp))
    <3> HIDE DEF i
    <3> QED BY <2>1, <2>2, <2>3, RestBehind
  <2>5. n + (i - p.mp) \in (j + 1)..(Len(s) + 1)
    <3> HIDE DEF i, j
    <3> QED BY <1>1, <2>1, <2>2, <2>3, <2>4
  <2> QED BY <2>4, <2>5
<1>4. CASE j > Len(s)
  <2>1. j = Len(s) + 1
    BY <1>1, <1>4
  <2>2. ~L
    BY <1>1, <1>3, <2>1
  <2>3. Rest(w, s, i, j) <=> Stars(w, i)
    <3> HIDE DEF i, j
    <3> QED BY <1>1, <2>1, RestOfNothing
  <2>4. Turn(w, s, f, p) <=> Stars(w, i)
    BY <1>1, <1>4 DEF Turn, Stars
  <2> HIDE DEF L
  <2> QED BY <1>2, <2>2, <2>3, <2>4
<1>5. CASE j <= Len(s) /\ At(w, i) = "*"
  <2>1. i \in 1..Len(w) /\ w[i] = "*"
    BY <1>5, CharacterIs
  <2>2. Rest(w, s, i, j) <=> \E n \in j..(Len(s) + 1) : Rest(w, s, i + 1, n)
    <3> HIDE DEF i, j
    <3> QED BY <1>1, <2>1, RestAtStar
  <2>3. L => Rest(w, s, i, j)
    <3> SUFFICES ASSUME L PROVE Rest(w, s, i, j)
      OBVIOUS
    <3>1. PICK n \in (j + 1)..(Len(s) + 1) : Rest(w, s, i, n)
      BY <1>3
    <3>2. n \in 1..(Len(s) + 1)
      BY <1>1
    <3>3. PICK m \in n..(Len(s) + 1) : Rest(w, s, i + 1, m)
      <4> HIDE DEF i, j, L
      <4> QED BY <2>1, <3>1, <3>2, RestAtStar
    <3>4. m \in j..(Len(s) + 1)
      BY <1>1, <3>2
    <3> QED BY <2>2, <3>3, <3>4
  <2>4. CASE i = Len(w)
    <3>1. Rest(w, s, i + 1, Len(s) + 1)
      BY <1>1, <2>4, RestAtEnd
    <3>2. Rest(w, s, i, j)
      BY <1>1, <2>2, <3>1
    <3>3. Turn(w, s, f, p)
      BY <1>5, <2>4 DEF Turn
    <3> QED BY <1>2, <3>2, <3>3
  <2>5. CASE i # Len(w)
    <3>1. Turn(w, s, f, p) <=> f[AfterStar(p)]
      BY <1>1, <1>5, <2>5 DEF Turn
    <3>2. f[AfterStar(p)] <=> Claim(w, s, AfterStar(p))
      BY <1>5, <2>5 DEF AtStar
    <3>3. Claim(w, s, AfterStar(p)) <=>
            Rest(w, s, i + 1, j) \/ \E n \in (j + 1)..(Len(s) + 1) : Rest(w, s, i + 1, n)
      BY <1>1 DEF Claim, AfterStar, Later
    <3>4. Claim(w, s, AfterStar(p)) <=> Rest(w, s, i, j)
      <4> HIDE DEF i, j
      <4> QED BY <1>1, <2>2, <3>3
    <3> HIDE DEF L
    <3> QED BY <1>2, <2>3, <3>1, <3>2, <3>4
  <2> QED BY <2>4, <2>5
<1>6. CASE j <= Len(s) /\ At(w, i) # "*" /\ At(w, i) \in {s[j], "?"}
  <2>1. i \in 1..Len(w) /\ w[i] # "*" /\ w[i] \in {"?", s[j]}
    BY <1>6, CharacterIs
  <2>2. Rest(w, s, i, j) <=> Rest(w, s, i + 1, j + 1)
    <3> HIDE DEF i, j
    <3> QED BY <1>1, <1>6, <2>1, RestAtChar
  <2>3. Turn(w, s, f, p) <=> f[AfterBoth(p)]
    BY <1>1, <1>6 DEF Turn
  <2>4. f[AfterBoth(p)] <=> Claim(w, s, AfterBoth(p))
    BY <1>6 DEF AtBoth
  <2>5. AfterBoth(p) = [i |-> i + 1, j |-> j + 1, mp |-> p.mp, cp |-> p.cp]
    BY DEF AfterBoth
  <2>6. Claim(w, s, AfterBoth(p)) <=> Rest(w, s, i + 1, j + 1) \/ L
    BY <2>5 DEF Claim
  <2> HIDE DEF L
  <2> QED BY <1>2, <2>2, <2>3, <2>4, <2>6
<1>7. CASE j <= Len(s) /\ At(w, i) \notin {"*", "?", s[j]}
  <2>1. ~Rest(w, s, i, j)
    <3>1. CASE i = Len(w) + 1
      <4> HIDE DEF i, j
      <4> QED BY <1>1, <1>7, <3>1, RestAtEnd
    <3>2. CASE i \in 1..Len(w)
      <4>1. At(w, i) = w[i]
        BY <3>2, CharacterIs
      <4> HIDE DEF i, j
      <4> QED BY <1>1, <1>7, <3>2, <4>1, RestAtChar
    <3> QED BY <1>1, <3>1, <3>2
  <2>2. CASE p.mp = 0
    <3>1. ~Turn(w, s, f, p)
      BY <1>1, <1>7, <2>2 DEF Turn
    <3> QED BY <1>2, <2>1, <2>2, <3>1
  <2>3. CASE p.mp # 0
    <3>1. Turn(w, s, f, p) <=> f[NextTry(p)]
      BY <1>1, <1>7, <2>3 DEF Turn
    <3>2. f[NextTry(p)] <=> Claim(w, s, NextTry(p))
      BY <1>7, <2>3 DEF AtMiss
    <3>3. NextTry(p) = [i |-> p.mp, j |-> p.cp, mp |-> p.mp, cp |-> p.cp + 1]
      BY DEF NextTry
    <3>4. Claim(w, s, NextTry(p)) <=> Rest(w, s, p.mp, p.cp) \/ Later(w, s, p.mp, p.cp + 1)
      BY <2>3, <3>3 DEF Claim
    <3>5. p.cp \in 1..(Len(s) + 1)
      <4>1. p.cp \in 1..(Len(s) + 2) /\ i - p.mp = j - (p.cp - 1) /\ i >= p.mp /\ p.mp \in Nat
        BY <1>1, <2>3, PositionIs
      <4> HIDE DEF i, j
      <4> QED BY <1>1, <1>7, <4>1
    <3>6. Later(w, s, p.mp, p.cp) <=> Rest(w, s, p.mp, p.cp) \/ Later(w, s, p.mp, p.cp + 1)
      BY <1>1, <3>5 DEF Later
    <3> QED BY <1>2, <2>1, <2>3, <3>1, <3>2, <3>4, <3>6
  <2> QED BY <2>2, <2>3
<1> QED BY <1>1, <1>4, <1>5, <1>6, <1>7

\* The loops say something at every position: some function goes by their turns.
LEMMA CompareIs ==
    ASSUME NEW w \in Text, NEW s \in Text
    PROVE  Compare(w, s) = [p \in Positions(w, s) |-> Turn(w, s, Compare(w, s), p)]
<1> DEFINE P == Positions(w, s)
           f == [p \in P |-> Claim(w, s, p)]
<1>1. \A p \in P : Turn(w, s, f, p) <=> Claim(w, s, p)
  <2> SUFFICES ASSUME NEW p \in P PROVE Turn(w, s, f, p) <=> Claim(w, s, p)
    OBVIOUS
  <2>1. AtStar(w, s, p) => (f[AfterStar(p)] <=> Claim(w, s, AfterStar(p)))
    BY StarTurns
  <2>2. AtBoth(w, s, p) => (f[AfterBoth(p)] <=> Claim(w, s, AfterBoth(p)))
    BY BothTurns
  <2>3. AtMiss(w, s, p) => (f[NextTry(p)] <=> Claim(w, s, NextTry(p)))
    BY MissTurns
  <2> HIDE DEF f
  <2> QED BY <2>1, <2>2, <2>3, ClaimTurns
<1>2. \A p \in P : Turn(w, s, f, p) = Claim(w, s, p)
  <2>1. \A p \in P : Turn(w, s, f, p) \in BOOLEAN /\ Claim(w, s, p) \in BOOLEAN
    BY DEF Turn, Claim
  <2> QED BY <1>1, <2>1
<1>3. f = [p \in P |-> Turn(w, s, f, p)]
  <2> HIDE DEF P
  <2> QED BY <1>2
<1>4. Compare(w, s) = CHOOSE from : from = [p \in P |-> Turn(w, s, from, p)]
  BY DEF Compare, Turn
<1> HIDE DEF P, f
<1>5. \E from : from = [p \in P |-> Turn(w, s, from, p)]
  BY <1>3
<1> QED BY <1>4, <1>5 DEF P

\* And they say what the positions stand for.  Every turn gets on: the last star
\* moves, or the place to go back to does, or the string does.
LEMMA CompareClaims ==
    ASSUME NEW w \in Text, NEW s \in Text, NEW p \in Positions(w, s)
    PROVE  Compare(w, s)[p] <=> Claim(w, s, p)
<1> DEFINE P == Positions(w, s)
           f == Compare(w, s)
           W == Len(w) + 1
           S == Len(s) + 2
           Wrong == {q \in P : ~(f[q] <=> Claim(w, s, q))}
           Mps == {q.mp : q \in Wrong}
           mp == Greatest(Mps)
           Cps == {q.cp : q \in {r \in Wrong : r.mp = mp}}
           cp == Greatest(Cps)
           Js == {q.j : q \in {r \in Wrong : r.mp = mp /\ r.cp = cp}}
           j == Greatest(Js)
<1>1. SUFFICES ASSUME Wrong # {} PROVE FALSE
  OBVIOUS
<1>2. W \in Nat /\ S \in Nat /\ Wrong \subseteq P
  BY DEF Text
<1>3. \A q \in P : q.mp \in 0..W /\ q.cp \in 0..S /\ q.j \in 0..S
  <2> SUFFICES ASSUME NEW q \in P PROVE q.mp \in 0..W /\ q.cp \in 0..S /\ q.j \in 0..S
    OBVIOUS
  <2>1. /\ Len(s) \in Nat /\ q.j \in 1..(Len(s) + 1)
        /\ q.mp \in 0..(Len(w) + 1) /\ q.cp \in 0..(Len(s) + 2)
    BY PositionIs
  <2> QED BY <2>1
<1> HIDE DEF P, f, W, S, Wrong
<1>4. mp \in Mps /\ \A q \in Wrong : q.mp <= mp
  <2>1. Mps \subseteq 0..W /\ Mps # {}
    BY <1>1, <1>2, <1>3
  <2>2. mp \in Mps /\ \A k \in Mps : mp >= k
    <3> HIDE DEF Mps
    <3> QED BY <1>2, <2>1, GreatestIs
  <2>3. mp \in 0..W
    BY <2>1, <2>2
  <2>4. \A q \in Wrong : q.mp \in Mps
    OBVIOUS
  <2> HIDE DEF mp, Mps
  <2> QED BY <1>2, <1>3, <2>2, <2>3, <2>4
<1> HIDE DEF mp
<1>5. cp \in Cps /\ \A q \in Wrong : q.mp = mp => q.cp <= cp
  <2>1. Cps \subseteq 0..S /\ Cps # {}
    BY <1>2, <1>3, <1>4
  <2>2. cp \in Cps /\ \A k \in Cps : cp >= k
    <3> HIDE DEF Cps
    <3> QED BY <1>2, <2>1, GreatestIs
  <2>3. cp \in 0..S
    BY <2>1, <2>2
  <2>4. \A q \in Wrong : q.mp = mp => q.cp \in Cps
    OBVIOUS
  <2> HIDE DEF cp, Cps
  <2> QED BY <1>2, <1>3, <2>2, <2>3, <2>4
<1> HIDE DEF cp
<1>6. j \in Js /\ \A q \in Wrong : q.mp = mp /\ q.cp = cp => q.j <= j
  <2>1. Js \subseteq 0..S /\ Js # {}
    BY <1>2, <1>3, <1>5
  <2>2. j \in Js /\ \A k \in Js : j >= k
    <3> HIDE DEF Js
    <3> QED BY <1>2, <2>1, GreatestIs
  <2>3. j \in 0..S
    BY <2>1, <2>2
  <2>4. \A q \in Wrong : q.mp = mp /\ q.cp = cp => q.j \in Js
    OBVIOUS
  <2> HIDE DEF j, Js
  <2> QED BY <1>2, <1>3, <2>2, <2>3, <2>4
<1>7. PICK q \in Wrong : q.mp = mp /\ q.cp = cp /\ q.j = j
  BY <1>6
<1>8. q \in P /\ q \in Positions(w, s) /\ ~(f[q] <=> Claim(w, s, q))
  BY <1>7 DEF Wrong, P
<1> HIDE DEF j
<1>9. \A r \in P : ~(f[r] <=> Claim(w, s, r)) => r \in Wrong
  BY DEF Wrong
<1>10. AtStar(w, s, q) => (f[AfterStar(q)] <=> Claim(w, s, AfterStar(q)))
  <2> SUFFICES ASSUME AtStar(w, s, q), AfterStar(q) \in Wrong PROVE FALSE
    BY <1>8, <1>9, StarTurns DEF P
  <2>1. AfterStar(q).mp = q.i + 1
    BY DEF AfterStar
  <2>2. q.i \in Nat /\ q.mp \in Nat /\ q.mp <= q.i
    <3>1. Len(w) \in Nat /\ q.i \in 1..(Len(w) + 1) /\ q.mp \in 0..(Len(w) + 1)
      BY <1>8, PositionIs
    <3>2. q.mp # 0 => q.i \in q.mp..(Len(w) + 1)
      BY <1>8, PositionIs
    <3> QED BY <3>1, <3>2
  <2>3. q.i + 1 <= q.mp
    BY <1>4, <1>7, <2>1
  <2> QED BY <2>2, <2>3
<1>11. AtBoth(w, s, q) => (f[AfterBoth(q)] <=> Claim(w, s, AfterBoth(q)))
  <2> SUFFICES ASSUME AtBoth(w, s, q), AfterBoth(q) \in Wrong PROVE FALSE
    BY <1>8, <1>9, BothTurns DEF P
  <2>1. AfterBoth(q).mp = q.mp /\ AfterBoth(q).cp = q.cp /\ AfterBoth(q).j = q.j + 1
    BY DEF AfterBoth
  <2>2. q.j + 1 <= q.j
    BY <1>6, <1>7, <2>1
  <2>3. q.j \in Nat
    BY <1>2, <1>3, <1>8
  <2> QED BY <2>2, <2>3
<1>12. AtMiss(w, s, q) => (f[NextTry(q)] <=> Claim(w, s, NextTry(q)))
  <2> SUFFICES ASSUME AtMiss(w, s, q), NextTry(q) \in Wrong PROVE FALSE
    BY <1>8, <1>9, MissTurns DEF P
  <2>1. NextTry(q).mp = q.mp /\ NextTry(q).cp = q.cp + 1
    BY DEF NextTry
  <2>2. q.cp + 1 <= q.cp
    BY <1>5, <1>7, <2>1
  <2>3. q.cp \in Nat
    BY <1>2, <1>3, <1>8
  <2> QED BY <2>2, <2>3
<1>13. Turn(w, s, f, q) <=> Claim(w, s, q)
  BY <1>8, <1>10, <1>11, <1>12, ClaimTurns
<1>14. f = [r \in P |-> Turn(w, s, f, r)]
  BY CompareIs DEF f, P
<1>15. f[q] = Turn(w, s, f, q)
  <2> DEFINE g == [r \in P |-> Turn(w, s, f, r)]
  <2>1. g[q] = Turn(w, s, f, q)
    BY <1>8
  <2>2. f = g
    BY <1>14
  <2> HIDE DEF g
  <2> QED BY <2>1, <2>2
<1> QED BY <1>8, <1>13, <1>15

\* wildcmp accepts exactly the names that the wildcard matches: wildcard.c:3 to
\* 47, its going back to the last star included.
THEOREM LoopsMatch ==
    \A w, s \in Text : wildcmp(w, s) <=> Matches(w, s)
<1> SUFFICES ASSUME NEW w \in Text, NEW s \in Text PROVE wildcmp(w, s) <=> Matches(w, s)
  OBVIOUS
<1>1. Start \in Positions(w, s)
  BY DEF Start, Positions, Text
<1>2. Claim(w, s, Start) <=> Rest(w, s, 1, 1)
  BY DEF Claim, Start
<1> QED BY <1>1, <1>2, CompareClaims, RestIsMatch DEF wildcmp

----------------------------------------------------------------------------
(* Paths and wildcards *)

WildsOf(s) == {n \in DOMAIN s : s[n] \in Wild}
SlashesOf(s) == {n \in DOMAIN s : s[n] = Slash /\ n < Least(WildsOf(s))}

LEMMA SplitIs ==
    ASSUME NEW s
    PROVE  Split(s) = IF WildsOf(s) = {} THEN [path |-> s, wild |-> <<"*">>]
                      ELSE IF SlashesOf(s) = {} THEN [path |-> <<>>, wild |-> s]
                      ELSE [path |-> SubSeq(s, 1, Greatest(SlashesOf(s)) - 1),
                            wild |-> SubSeq(s, Greatest(SlashesOf(s)) + 1, Len(s))]
BY DEF Split, WildsOf, SlashesOf

LEMMA LastSlash ==
    ASSUME NEW s \in Text, SlashesOf(s) # {}
    PROVE  /\ Greatest(SlashesOf(s)) \in SlashesOf(s)
           /\ Greatest(SlashesOf(s)) \in 1..Len(s)
           /\ \A n \in SlashesOf(s) : n <= Greatest(SlashesOf(s))
<1>1. Len(s) \in Nat /\ DOMAIN s = 1..Len(s)
  BY DEF Text
<1>2. SlashesOf(s) \subseteq 1..Len(s) /\ SlashesOf(s) \subseteq 0..Len(s)
  BY <1>1 DEF SlashesOf
<1>3. /\ Greatest(SlashesOf(s)) \in SlashesOf(s)
      /\ \A n \in SlashesOf(s) : Greatest(SlashesOf(s)) >= n
  BY <1>1, <1>2, GreatestIs
<1>4. Greatest(SlashesOf(s)) \in 1..Len(s)
  BY <1>2, <1>3
<1> QED BY <1>1, <1>2, <1>3, <1>4

LEMMA SplitWild ==
    ASSUME NEW s \in Text
    PROVE  Split(s).wild \in Text
<1>1. Len(s) \in Nat
  BY DEF Text
<1>2. CASE WildsOf(s) = {}
  <2>1. <<"*">> \in Text
    <3>1. "*" \in Characters
      BY CharactersAssumption
    <3>2. \A S, c : c \in S => <<c>> \in Seq(S)
      OBVIOUS
    <3> QED BY <3>1, <3>2, Zenon DEF Text
  <2> QED BY <1>2, <2>1, SplitIs
<1>3. CASE WildsOf(s) # {} /\ SlashesOf(s) = {}
  BY <1>3, SplitIs
<1>4. CASE WildsOf(s) # {} /\ SlashesOf(s) # {}
  <2> DEFINE g == Greatest(SlashesOf(s))
  <2>1. g \in 1..Len(s)
    BY <1>4, LastSlash
  <2>2. SubSeq(s, g + 1, Len(s)) \in Text
    <3> HIDE DEF g
    <3>1. s \in Seq(Characters)
      BY DEF Text
    <3>2. g + 1 \in 1..(Len(s) + 1) /\ Len(s) \in ((g + 1) - 1)..Len(s)
      BY <1>1, <2>1
    <3> QED BY <3>1, <3>2, SubSeqProperties DEF Text
  <2> QED BY <1>4, <2>2, SplitIs
<1> QED BY <1>2, <1>3, <1>4

\* What is kept of a wildcard: no more than WILD_LEN characters, and all of one
\* that fits.
LEMMA PatternIs ==
    ASSUME NEW s \in Text
    PROVE  /\ GetWildcard(s).path = Split(s).path
           /\ GetWildcard(s).wild \in Text
           /\ Len(GetWildcard(s).wild) <= WildLen
           /\ Len(Split(s).wild) <= WildLen => GetWildcard(s).wild = Split(s).wild
<1> DEFINE wild == Split(s).wild
           n == IF Len(wild) < WildLen THEN Len(wild) ELSE WildLen
<1>1. wild \in Seq(Characters) /\ Len(wild) \in Nat
  BY SplitWild DEF Text
<1>2. n \in 0..Len(wild) /\ n <= WildLen /\ (Len(wild) <= WildLen => n = Len(wild))
  <2> HIDE DEF wild
  <2> QED BY <1>1, SizesAssumption
<1>3. /\ GetWildcard(s).path = Split(s).path
      /\ GetWildcard(s).wild = SubSeq(wild, 1, n)
  <2>1. PICK p, q : Split(s) = [path |-> p, wild |-> q]
    BY SplitIs
  <2> QED BY <2>1 DEF GetWildcard
<1> HIDE DEF wild, n
<1>4. 1 \in 1..(Len(wild) + 1) /\ n \in (1 - 1)..Len(wild)
  BY <1>1, <1>2
<1>5. SubSeq(wild, 1, n) \in Seq(Characters) /\ Len(SubSeq(wild, 1, n)) = n
  BY <1>1, <1>2, <1>4, SubSeqProperties
<1>6. n = Len(wild) => SubSeq(wild, 1, n) = wild
  BY <1>1, SubSeqFull
<1> QED BY <1>2, <1>3, <1>5, <1>6 DEF Text, wild

\* The path that GetWildcard leaves names the directory that is meant.
LEMMA NamedIs ==
    ASSUME NEW s \in Text, NEW d, ~RootOnly(s)
    PROVE  follow_path(table, d, GetWildcard(s).path) = Named(s, d)
<1>1. Len(s) \in Nat /\ DOMAIN s = 1..Len(s)
  BY DEF Text
<1>2. IsWild(s) <=> WildsOf(s) # {}
  BY DEF IsWild, WildsOf
<1>3. GetWildcard(s).path = Split(s).path
  BY PatternIs
<1>4. CASE WildsOf(s) = {}
  BY <1>2, <1>3, <1>4, SplitIs DEF Named
<1>5. CASE WildsOf(s) # {}
  <2>1. /\ Least(WildsOf(s)) \in WildsOf(s)
        /\ \A n \in WildsOf(s) : Least(WildsOf(s)) <= n
    <3>1. WildsOf(s) \subseteq Nat
      BY <1>1 DEF WildsOf
    <3> QED BY <1>5, <3>1, LeastIs
  <2>2. Least(WildsOf(s)) \in 1..Len(s) /\ s[Least(WildsOf(s))] \in Wild
    BY <1>1, <2>1 DEF WildsOf
  <2>3. \A n \in 1..Len(s) : n \in SlashesOf(s) <=>
            s[n] = Slash /\ \A i \in 1..(n - 1) : s[i] \notin Wild
    <3> SUFFICES ASSUME NEW n \in 1..Len(s), s[n] = Slash
                 PROVE  n < Least(WildsOf(s)) <=> \A i \in 1..(n - 1) : s[i] \notin Wild
      BY <1>1 DEF SlashesOf
    <3>1. ASSUME n < Least(WildsOf(s)), NEW i \in 1..(n - 1)
          PROVE  s[i] \notin Wild
      <4>1. i \in 1..Len(s) /\ i < Least(WildsOf(s))
        BY <1>1, <2>2, <3>1
      <4>2. i \notin WildsOf(s)
        BY <2>1, <2>2, <4>1
      <4> QED BY <1>1, <4>1, <4>2 DEF WildsOf
    <3>2. ASSUME \A i \in 1..(n - 1) : s[i] \notin Wild
          PROVE  n < Least(WildsOf(s))
      <4>1. ~(Least(WildsOf(s)) \in 1..(n - 1))
        BY <2>2, <3>2
      <4>2. s[n] \notin Wild
        BY DEF Slash, Wild
      <4>3. Least(WildsOf(s)) # n
        BY <2>2, <4>2
      <4> QED BY <1>1, <2>2, <4>1, <4>3
    <3> QED BY <3>1, <3>2
  <2>4. \A k \in 0..(Len(s) - 1) : k \in PathEnds(s) <=> k + 1 \in SlashesOf(s)
    <3> SUFFICES ASSUME NEW k \in 0..(Len(s) - 1)
                 PROVE  k \in PathEnds(s) <=> k + 1 \in SlashesOf(s)
      OBVIOUS
    <3>1. k + 1 \in 1..Len(s) /\ (k + 1) - 1 = k
      BY <1>1
    <3> QED BY <2>3, <3>1 DEF PathEnds
  <2>5. PathEnds(s) \subseteq 0..(Len(s) - 1) /\ SlashesOf(s) \subseteq 1..Len(s)
    BY <1>1 DEF PathEnds, SlashesOf
  <2>6. \A n \in SlashesOf(s) : n - 1 \in PathEnds(s)
    <3> SUFFICES ASSUME NEW n \in SlashesOf(s) PROVE n - 1 \in PathEnds(s)
      OBVIOUS
    <3>1. n - 1 \in 0..(Len(s) - 1) /\ (n - 1) + 1 = n
      BY <1>1, <2>5
    <3> QED BY <2>4, <3>1
  <2>7. CASE SlashesOf(s) = {}
    <3>1. PathEnds(s) = {}
      BY <2>4, <2>5, <2>7
    <3>2. Split(s).path = <<>>
      BY <1>5, <2>7, SplitIs
    <3>3. follow_path(table, d, <<>>) = d
      BY DEF follow_path
    <3> QED BY <1>2, <1>3, <1>5, <3>1, <3>2, <3>3 DEF Named
  <2>8. CASE SlashesOf(s) # {}
    <3> DEFINE g == Greatest(SlashesOf(s))
               e == Greatest(PathEnds(s))
    <3>1. g \in SlashesOf(s) /\ g \in 1..Len(s) /\ \A n \in SlashesOf(s) : n <= g
      BY <2>8, LastSlash
    <3>2. PathEnds(s) # {}
      BY <2>6, <3>1
    <3>3. e \in PathEnds(s) /\ \A k \in PathEnds(s) : e >= k
      <4>1. PathEnds(s) \subseteq 0..Len(s)
        BY <1>1, <2>5
      <4> QED BY <1>1, <3>2, <4>1, GreatestIs
    <3>4. g - 1 \in PathEnds(s) /\ e + 1 \in SlashesOf(s)
      BY <2>4, <2>5, <2>6, <3>1, <3>3
    <3>5. e \in 0..(Len(s) - 1)
      BY <2>5, <3>3
    <3> HIDE DEF g, e
    <3>6. e = g - 1
      <4>1. e >= g - 1 /\ e + 1 <= g
        BY <3>1, <3>3, <3>4
      <4> QED BY <1>1, <3>1, <3>5, <4>1
    <3>7. Split(s).path = SubSeq(s, 1, g - 1)
      BY <1>5, <2>8, SplitIs DEF g
    <3>8. PathEnds(s) # {0}
      BY <1>2, <1>5 DEF RootOnly
    <3>9. Named(s, d) = follow_path(table, d, SubSeq(s, 1, e))
      BY <1>2, <1>5, <3>2, <3>8 DEF Named, e
    <3> QED BY <1>3, <3>6, <3>7, <3>9
  <2> QED BY <2>7, <2>8
<1> QED BY <1>4, <1>5

\* A path leads to a directory or to none.
LEMMA StepTo ==
    ASSUME NEW tables, NEW d, NEW name
    PROVE  Step(tables, d, name) \in Dirs \cup {NoDir}
BY DEF Step, Dirs

LEMMA PathTo ==
    ASSUME NEW tables, NEW d \in Dirs, NEW p
    PROVE  follow_path(tables, d, p) \in Dirs \cup {NoDir}
<1>1. ASSUME NEW c, NEW q PROVE Walk(tables, c, q) \in Dirs \cup {NoDir}
  BY StepTo DEF Walk
<1> QED BY <1>1 DEF follow_path, Dirs

----------------------------------------------------------------------------
(* Tables *)

LEMMA NamesAreText ==
    /\ Names \subseteq Text
    /\ Unused \in Entry /\ Deleted \in Entry
    /\ RootTable \in Seq(Entry) /\ SubTable \in Seq(Entry)
    /\ \A name \in HostNames :
          [name |-> name, dir |-> FALSE] \in Entry /\ Valid([name |-> name, dir |-> FALSE])
<1>1. <<>> \in Text /\ <<"E5">> \in Text
  <2>1. "E5" \in Characters
    BY CharactersAssumption
  <2>2. \A S, c : c \in S => <<c>> \in Seq(S) /\ <<>> \in Seq(S)
    OBVIOUS
  <2> QED BY <2>1, <2>2, Zenon DEF Text
<1>2. ASSUME NEW t, t \in Seq(Slot), NEW n \in DOMAIN t
      PROVE  t[n].name \in Text /\ t[n] = [name |-> t[n].name, dir |-> t[n].dir] /\ t[n].dir \in BOOLEAN
  <2>1. t[n] \in Slot
    BY <1>2
  <2> QED BY <2>1 DEF Slot
<1>3. Names \subseteq Text
  <2>1. {RootTable[n].name : n \in DOMAIN RootTable} \subseteq Text
    BY <1>2, TablesAssumption
  <2>2. {SubTable[n].name : n \in DOMAIN SubTable} \subseteq Text
    BY <1>2, TablesAssumption
  <2>3. HostNames \subseteq Text
    BY TablesAssumption
  <2> QED BY <1>1, <2>1, <2>2, <2>3 DEF Names
<1>4. Unused \in Entry /\ Deleted \in Entry
  BY DEF Unused, Deleted, Entry, Names
<1>5. ASSUME NEW t, t \in Seq(Slot), \A n \in DOMAIN t : t[n].name \in Names
      PROVE  t \in Seq(Entry)
  <2>1. \A n \in DOMAIN t : t[n] \in Entry
    BY <1>2, <1>5 DEF Entry
  <2>2. Len(t) \in Nat /\ DOMAIN t = 1..Len(t) /\ t = [n \in 1..Len(t) |-> t[n]]
    BY <1>5
  <2> QED BY <2>1, <2>2
<1>6. RootTable \in Seq(Entry) /\ SubTable \in Seq(Entry)
  <2>1. \A n \in DOMAIN RootTable : RootTable[n].name \in Names
    BY DEF Names
  <2>2. \A n \in DOMAIN SubTable : SubTable[n].name \in Names
    BY DEF Names
  <2> QED BY <1>5, <2>1, <2>2, TablesAssumption
<1>7. ASSUME NEW name \in HostNames
      PROVE  [name |-> name, dir |-> FALSE] \in Entry /\ Valid([name |-> name, dir |-> FALSE])
  <2>1. name # <<>> /\ name # <<"E5">> /\ name \in Names
    BY TablesAssumption DEF Names
  <2>2. [name |-> name, dir |-> FALSE] \in Entry
    BY <2>1 DEF Entry
  <2>3. \A a, b : [name |-> a, dir |-> FALSE] = [name |-> b, dir |-> FALSE] => a = b
    OBVIOUS
  <2> QED BY <2>1, <2>2, <2>3 DEF Valid, Unused, Deleted
<1> QED BY <1>3, <1>4, <1>6, <1>7

LEMMA InUseIs ==
    ASSUME NEW t \in Seq(Entry)
    PROVE  /\ InUse(t) \subseteq DOMAIN t /\ InUse(t) \subseteq Nat
           /\ \A k \in DOMAIN t : k \in InUse(t) <=> \A m \in 1..k : t[m] # Unused
<1> DEFINE ends == {n \in DOMAIN t : t[n] = Unused}
<1>1. Len(t) \in Nat /\ DOMAIN t = 1..Len(t)
  OBVIOUS
<1>2. CASE ends = {}
  <2>1. InUse(t) = 1..Len(t)
    BY <1>2 DEF InUse
  <2>2. \A m \in DOMAIN t : t[m] # Unused
    BY <1>2
  <2> QED BY <1>1, <2>1, <2>2
<1>3. CASE ends # {}
  <2> DEFINE e == Least(ends)
  <2>1. InUse(t) = 1..(e - 1)
    BY <1>3 DEF InUse
  <2>2. ends \subseteq Nat
    BY <1>1
  <2>3. e \in ends /\ \A k \in ends : e <= k
    <3> HIDE DEF ends
    <3> QED BY <1>3, <2>2, LeastIs
  <2>4. e \in 1..Len(t) /\ t[e] = Unused
    BY <1>1, <2>3
  <2>5. \A m \in 1..Len(t) : t[m] = Unused => e <= m
    BY <1>1, <2>3
  <2> HIDE DEF e, ends
  <2>6. ASSUME NEW k \in 1..Len(t), k < e PROVE \A m \in 1..k : t[m] # Unused
    BY <1>1, <2>4, <2>5, <2>6
  <2>7. ASSUME NEW k \in 1..Len(t), \A m \in 1..k : t[m] # Unused PROVE k < e
    BY <1>1, <2>4, <2>7
  <2> QED BY <1>1, <2>1, <2>4, <2>6, <2>7
<1> QED BY <1>2, <1>3

\* What a command may do to a table while it is listed: it changes slot n only,
\* and no slot goes out of use.
Keeps(t, new, n) ==
    /\ new \in Seq(Entry)
    /\ InUse(t) \subseteq InUse(new)
    /\ \A k \in InUse(t) : k # n => new[k] = t[k]

LEMMA KeepsIf ==
    ASSUME NEW t \in Seq(Entry), NEW new \in Seq(Entry), NEW n,
           DOMAIN t \subseteq DOMAIN new,
           \A k \in DOMAIN t : k # n => new[k] = t[k],
           n \in DOMAIN new => new[n] # Unused
    PROVE  Keeps(t, new, n)
<1>1. Len(t) \in Nat /\ DOMAIN t = 1..Len(t) /\ Len(new) \in Nat /\ DOMAIN new = 1..Len(new)
  OBVIOUS
<1>2. InUse(t) \subseteq DOMAIN t
  BY InUseIs
<1>3. ASSUME NEW k \in InUse(t) PROVE k \in InUse(new)
  <2>1. k \in DOMAIN t /\ k \in DOMAIN new /\ \A m \in 1..k : t[m] # Unused
    BY <1>2, InUseIs
  <2>2. ASSUME NEW m \in 1..k PROVE new[m] # Unused
    <3>1. m \in DOMAIN t /\ m \in DOMAIN new
      BY <1>1, <2>1
    <3> QED BY <2>1, <3>1
  <2> QED BY <2>1, <2>2, InUseIs
<1> QED BY <1>2, <1>3 DEF Keeps

LEMMA FreeSlotIs ==
    ASSUME NEW t \in Seq(Entry)
    PROVE  FreeSlot(t) \in 1..(Len(t) + 1)
<1> DEFINE free == {n \in DOMAIN t : ~Valid(t[n])}
<1>1. free \subseteq 1..Len(t) /\ free \subseteq Nat
  OBVIOUS
<1>2. free # {} => Least(free) \in free
  <2> HIDE DEF free
  <2> QED BY <1>1, LeastIs
<1>3. FreeSlot(t) = IF free = {} THEN Len(t) + 1 ELSE Least(free)
  BY DEF FreeSlot
<1>4. Len(t) \in Nat
  OBVIOUS
<1>5. CASE free = {}
  BY <1>3, <1>4, <1>5
<1>6. CASE free # {}
  <2> HIDE DEF free
  <2>1. Least(free) \in 1..Len(t)
    BY <1>1, <1>2, <1>6
  <2> QED BY <1>3, <1>4, <1>6, <2>1
<1> QED BY <1>5, <1>6

\* The entry an unfinished listing answers next.
LEMMA ReadOnIs ==
    ASSUME NEW t \in Seq(Entry), NEW n \in Nat
    PROVE  \/ /\ ReadOn(t, n) = 0
              /\ \A k \in Entries(t) : k >= n => ~wildcmp(WildPattern, t[k].name)
           \/ /\ ReadOn(t, n) \in Entries(t) /\ ReadOn(t, n) \in Nat \ {0} /\ ReadOn(t, n) >= n
              /\ wildcmp(WildPattern, t[ReadOn(t, n)].name)
              /\ \A k \in Entries(t) :
                    k >= n /\ wildcmp(WildPattern, t[k].name) => ReadOn(t, n) <= k
<1> DEFINE found == {k \in Entries(t) : k >= n /\ wildcmp(WildPattern, t[k].name)}
<1>1. ReadOn(t, n) = IF found = {} THEN 0 ELSE Least(found)
  BY DEF ReadOn
<1>2. Entries(t) \subseteq Nat \ {0}
  <2>1. InUse(t) \subseteq DOMAIN t /\ DOMAIN t \subseteq Nat \ {0}
    BY InUseIs
  <2> QED BY <2>1 DEF Entries
<1>3. CASE found = {}
  BY <1>1, <1>3
<1>4. CASE found # {}
  <2>1. Least(found) \in found /\ \A k \in found : Least(found) <= k
    <3>1. found \subseteq Nat
      BY <1>2
    <3> HIDE DEF found
    <3> QED BY <1>4, <3>1, LeastIs
  <2> QED BY <1>1, <1>2, <1>4, <2>1
<1> QED BY <1>3, <1>4

----------------------------------------------------------------------------
(* The invariant *)

Types ==
    /\ table \in [Dirs -> Seq(Entry)]
    /\ cdir \in Dirs /\ asked \in [s : Text, cdir : Dirs]
    /\ dj \in [dir : Dirs \cup {NoDir}, index : Nat, live : BOOLEAN]
    /\ WildPattern \in Text /\ Len(WildPattern) <= WildLen
    /\ answer \in [kind : {"opened", "entry", "complete", "error", "file"}, slot : Nat]
    /\ seen \in Seq(Nat) /\ steady \subseteq Nat

Increasing(list) == \A i, k \in DOMAIN list : i < k => list[i] < list[k]
Listed(n) == \E i \in DOMAIN seen : seen[i] = n

\* A listing that runs: what it has answered is in order and before its index,
\* and so is every wanted entry before the index that was there all the time;
\* the slots that have not changed are still in use.
Running ==
    dj.live =>
        /\ dj.dir \in Dirs /\ WildPattern = GetWildcard(asked.s).wild
        /\ steady \subseteq InUse(table[dj.dir])
        /\ Increasing(seen) /\ \A i \in DOMAIN seen : seen[i] < dj.index
        /\ WildFits =>
             \A n \in steady :
                n < dj.index /\ Valid(table[dj.dir][n]) /\ Wanted(table[dj.dir][n].name)
                    => Listed(n)

Answered == ListedIsWanted /\ ListingComplete /\ ListsNamed
Held == Types /\ Running /\ Answered

LEMMA InitHolds == Init => Held
<1> SUFFICES ASSUME Init PROVE Held
  OBVIOUS
<1>1. Types
  <2>1. table \in [Dirs -> Seq(Entry)]
    BY NamesAreText DEF Init
  <2>2. cdir \in Dirs /\ asked \in [s : Text, cdir : Dirs]
    BY DEF Init, Nothing, Dirs, Text
  <2>3. dj \in [dir : Dirs \cup {NoDir}, index : Nat, live : BOOLEAN]
    BY DEF Init, NoListing, Dirs
  <2>4. WildPattern \in Text /\ Len(WildPattern) <= WildLen
    BY SizesAssumption DEF Init, Text
  <2>5. answer \in [kind : {"opened", "entry", "complete", "error", "file"}, slot : Nat]
    BY DEF Init
  <2>6. seen \in Seq(Nat) /\ steady \subseteq Nat
    BY DEF Init
  <2> QED BY <2>1, <2>2, <2>3, <2>4, <2>5, <2>6 DEF Types
<1>2. Running
  BY DEF Init, NoListing, Running
<1>3. Answered
  BY DEF Init, Answered, ListedIsWanted, ListingComplete, ListsNamed
<1> QED BY <1>1, <1>2, <1>3 DEF Held

\* The wildcard in use tells the wanted names, if it was not cut.
LEMMA PatternTells ==
    ASSUME Types, Running, dj.live, NEW name \in Text, WildFits
    PROVE  wildcmp(WildPattern, name) <=> Wanted(name)
<1>1. asked.s \in Text /\ WildPattern \in Text
  BY DEF Types
<1>2. WildPattern = Split(asked.s).wild
  BY <1>1, PatternIs DEF Running, WildFits
<1> QED BY <1>1, <1>2, LoopsMatch DEF Wanted

LEMMA TableOf ==
    ASSUME Types, NEW d \in Dirs
    PROVE  /\ table[d] \in Seq(Entry)
           /\ \A n \in InUse(table[d]) : table[d][n] \in Entry /\ table[d][n].name \in Text
<1>1. table[d] \in Seq(Entry)
  BY DEF Types
<1>2. ASSUME NEW n \in InUse(table[d])
      PROVE  table[d][n] \in Entry /\ table[d][n].name \in Text
  <2>1. n \in DOMAIN table[d]
    BY <1>1, InUseIs
  <2>2. table[d][n] \in Entry
    BY <1>1, <2>1
  <2> QED BY <2>2, NamesAreText DEF Entry
<1> QED BY <1>1, <1>2

\* After a command that is not about the listing there is nothing to say of its
\* answer.
LEMMA OtherAnswer ==
    ASSUME Says("file", 0)
    PROVE  Answered'
BY DEF Says, Answered, ListedIsWanted, ListingComplete, ListsNamed

----------------------------------------------------------------------------
(* The steps *)

LEMMA OpenHolds ==
    ASSUME Held, NEW s \in Strings, DirectoryOpen(s)
    PROVE  Held'
<1> DEFINE d == follow_path(table, cdir, GetWildcard(s).path)
<1>1. s \in Text
  BY StringsAssumption
<1>2. d \in Dirs \cup {NoDir}
  BY PathTo DEF Held, Types
<1>3. /\ WildPattern' = GetWildcard(s).wild
      /\ asked' = [s |-> s, cdir |-> cdir]
      /\ dj' = [dir |-> d, index |-> 1, live |-> d # NoDir]
      /\ answer' = [kind |-> IF d = NoDir THEN "error" ELSE "opened", slot |-> 0]
      /\ seen' = <<>>
      /\ steady' = IF d = NoDir THEN {} ELSE InUse(table[d])
      /\ table' = table /\ cdir' = cdir
  BY DEF DirectoryOpen, Says, KeepTables
<1> HIDE DEF d
<1>4. d # NoDir => InUse(table[d]) \subseteq Nat \ {0}
  <2> SUFFICES ASSUME d # NoDir PROVE InUse(table[d]) \subseteq Nat \ {0}
    OBVIOUS
  <2>1. table[d] \in Seq(Entry)
    BY <1>2 DEF Held, Types
  <2>2. InUse(table[d]) \subseteq DOMAIN table[d]
    BY <2>1, InUseIs
  <2> QED BY <2>1, <2>2
<1>5. Types'
  <2>1. WildPattern' \in Text /\ Len(WildPattern') <= WildLen
    BY <1>1, <1>3, PatternIs
  <2>2. asked' \in [s : Text, cdir : Dirs]
    BY <1>1, <1>3 DEF Held, Types
  <2>3. dj' \in [dir : Dirs \cup {NoDir}, index : Nat, live : BOOLEAN]
    BY <1>2, <1>3
  <2>4. answer' \in [kind : {"opened", "entry", "complete", "error", "file"}, slot : Nat]
    BY <1>3
  <2>5. seen' \in Seq(Nat) /\ steady' \subseteq Nat
    BY <1>3, <1>4
  <2>6. table' \in [Dirs -> Seq(Entry)] /\ cdir' \in Dirs
    BY <1>3 DEF Held, Types
  <2> QED BY <2>1, <2>2, <2>3, <2>4, <2>5, <2>6 DEF Types
<1>6. Running'
  <2> SUFFICES ASSUME d # NoDir
               PROVE  /\ dj'.dir \in Dirs /\ WildPattern' = GetWildcard(asked'.s).wild
                      /\ steady' \subseteq InUse(table'[dj'.dir])
                      /\ Increasing(seen') /\ \A i \in DOMAIN seen' : seen'[i] < dj'.index
                      /\ \A n \in steady' : ~(n < dj'.index)
    BY <1>3 DEF Running
  <2>1. dj'.dir \in Dirs /\ WildPattern' = GetWildcard(asked'.s).wild
    BY <1>2, <1>3
  <2>2. steady' \subseteq InUse(table'[dj'.dir])
    BY <1>3
  <2>3. Increasing(seen') /\ \A i \in DOMAIN seen' : seen'[i] < dj'.index
    BY <1>3 DEF Increasing
  <2>4. \A n \in steady' : ~(n < dj'.index)
    BY <1>3, <1>4
  <2> QED BY <2>1, <2>2, <2>3, <2>4
<1>7. Answered'
  <2>1. ListedIsWanted' /\ ListingComplete'
    BY <1>3 DEF ListedIsWanted, ListingComplete
  <2>2. ListsNamed'
    <3> SUFFICES ASSUME ~RootOnly(s) PROVE d = Named(s, cdir)'
      BY <1>3 DEF ListsNamed
    <3>1. d = Named(s, cdir)
      BY <1>1, NamedIs DEF d
    <3>2. Named(s, cdir)' = Named(s, cdir)
      BY <1>3 DEF Named
    <3> QED BY <3>1, <3>2
  <2> QED BY <2>1, <2>2 DEF Answered
<1> QED BY <1>5, <1>6, <1>7 DEF Held

LEMMA ReadHolds ==
    ASSUME Held, DirectoryRead
    PROVE  Held'
<1> DEFINE t == table[dj.dir]
           k == ReadOn(t, dj.index)
<1>1. /\ Types /\ Running /\ dj.live /\ dj.dir \in Dirs /\ dj.index \in Nat
      /\ seen \in Seq(Nat) /\ steady \subseteq InUse(t)
  BY DEF Held, DirectoryRead, Running, Types
<1>2. UNCHANGED <<table, cdir, WildPattern, asked, steady>>
  BY DEF DirectoryRead, KeepTables
<1>3. /\ t \in Seq(Entry)
      /\ \A n \in InUse(t) : t[n] \in Entry /\ t[n].name \in Text
  BY <1>1, TableOf
<1>4. \/ /\ k = 0
         /\ \A m \in Entries(t) : m >= dj.index => ~wildcmp(WildPattern, t[m].name)
      \/ /\ k \in Entries(t) /\ k \in Nat \ {0} /\ k >= dj.index
         /\ wildcmp(WildPattern, t[k].name)
         /\ \A m \in Entries(t) :
               m >= dj.index /\ wildcmp(WildPattern, t[m].name) => k <= m
  <2> HIDE DEF t
  <2> QED BY <1>1, <1>3, ReadOnIs
<1>5. /\ k = 0 => /\ dj' = [dj EXCEPT !.live = FALSE]
                  /\ answer' = [kind |-> "complete", slot |-> 0]
                  /\ seen' = seen
      /\ k # 0 => /\ dj' = [dj EXCEPT !.index = k + 1]
                  /\ answer' = [kind |-> "entry", slot |-> k]
                  /\ seen' = Append(seen, k)
  BY DEF DirectoryRead, Says, Resume
<1>6. \A n \in InUse(t) : WildFits => (wildcmp(WildPattern, t[n].name) <=> Wanted(t[n].name))
  BY <1>1, <1>3, PatternTells
<1>7. (WildFits' <=> WildFits) /\ asked' = asked
  BY <1>2 DEF WildFits
<1>8. /\ Increasing(seen) /\ \A i \in DOMAIN seen : seen[i] < dj.index
      /\ WildFits => \A n \in steady : n < dj.index /\ Valid(t[n]) /\ Wanted(t[n].name) => Listed(n)
  BY <1>1 DEF Running
<1>9. \A n \in InUse(t) : n \in Nat /\ (Valid(t[n]) => n \in Entries(t))
  BY <1>3, InUseIs DEF Entries
<1>10. \A n \in Entries(t) : n \in InUse(t) /\ Valid(t[n])
  BY DEF Entries
<1>11. t' = t
  <2>1. dj'.dir = dj.dir
    BY <1>1, <1>4, <1>5 DEF Types
  <2> QED BY <1>2, <2>1
<1>12. CASE k = 0
  <2>1. /\ dj' = [dj EXCEPT !.live = FALSE]
        /\ answer' = [kind |-> "complete", slot |-> 0] /\ seen' = seen
    BY <1>5, <1>12
  <2>2. Types'
    BY <1>1, <1>2, <2>1 DEF Types
  <2>3. Running'
    <3>1. ~dj'.live
      BY <1>1, <2>1 DEF Types
    <3> QED BY <3>1 DEF Running
  <2>4. ListingComplete'
    <3>1. Increasing(seen')
      BY <1>8, <2>1
    <3>2. ASSUME WildFits, NEW n \in steady, Valid(t[n]), Wanted(t[n].name)
          PROVE  Listed(n)
      <4>1. n \in InUse(t) /\ n \in Nat /\ n \in Entries(t) /\ wildcmp(WildPattern, t[n].name)
        BY <1>1, <1>6, <1>9, <3>2
      <4>2. ~(n >= dj.index)
        BY <1>4, <1>12, <4>1
      <4>3. n < dj.index
        BY <1>1, <4>1, <4>2
      <4> QED BY <1>8, <3>2, <4>3
    <3>3. ASSUME WildFits', NEW n \in steady', Valid(t'[n]),
                 Matches(Split(asked'.s).wild, t'[n].name)
          PROVE  \E i \in DOMAIN seen' : seen'[i] = n
      <4>1. WildFits /\ n \in steady /\ Valid(t[n]) /\ Wanted(t[n].name)
        BY <1>2, <1>7, <1>11, <3>3 DEF Wanted
      <4> QED BY <2>1, <3>2, <4>1 DEF Listed
    <3> QED BY <3>1, <3>3 DEF ListingComplete, Increasing, Wanted
  <2>5. ListedIsWanted' /\ ListsNamed'
    BY <2>1 DEF ListedIsWanted, ListsNamed
  <2> QED BY <2>2, <2>3, <2>4, <2>5 DEF Held, Answered
<1>13. CASE k # 0
  <2>1. /\ dj' = [dj EXCEPT !.index = k + 1]
        /\ answer' = [kind |-> "entry", slot |-> k] /\ seen' = Append(seen, k)
    BY <1>5, <1>13
  <2>2. /\ k \in Entries(t) /\ k \in Nat \ {0} /\ k >= dj.index
        /\ wildcmp(WildPattern, t[k].name)
        /\ \A m \in Entries(t) :
              m >= dj.index /\ wildcmp(WildPattern, t[m].name) => k <= m
    BY <1>4, <1>13
  <2>3. dj'.index = k + 1 /\ dj'.dir = dj.dir
    BY <1>1, <2>1 DEF Types
  <2> HIDE DEF k
  <2>4. Types'
    <3>1. dj' \in [dir : Dirs \cup {NoDir}, index : Nat, live : BOOLEAN]
      <4>1. dj \in [dir : Dirs \cup {NoDir}, index : Nat, live : BOOLEAN] /\ k + 1 \in Nat
        BY <1>1, <2>2 DEF Types
      <4> QED BY <2>1, <4>1
    <3>2. seen' \in Seq(Nat)
      BY <1>1, <2>1, <2>2
    <3>3. answer' \in [kind : {"opened", "entry", "complete", "error", "file"}, slot : Nat]
      BY <2>1, <2>2
    <3> QED BY <1>1, <1>2, <3>1, <3>2, <3>3 DEF Types
  <2>5. Len(seen) \in Nat /\ Len(seen') = Len(seen) + 1 /\ DOMAIN seen = 1..Len(seen)
        /\ DOMAIN seen' = 1..(Len(seen) + 1)
    BY <1>1, <2>1
  <2>6. seen'[Len(seen) + 1] = k /\ \A i \in 1..Len(seen) : seen'[i] = seen[i] /\ seen[i] \in Nat
    BY <1>1, <2>1, <2>5
  <2>7. \A i \in 1..Len(seen) : seen[i] < k
    BY <1>1, <1>8, <2>2, <2>5, <2>6
  <2>8. Increasing(seen')
    <3> SUFFICES ASSUME NEW i \in 1..(Len(seen) + 1), NEW h \in 1..(Len(seen) + 1), i < h
                 PROVE  seen'[i] < seen'[h]
      BY <2>5 DEF Increasing
    <3>1. i \in 1..Len(seen)
      BY <2>5
    <3>2. CASE h \in 1..Len(seen)
      BY <1>8, <2>5, <2>6, <3>1, <3>2 DEF Increasing
    <3>3. CASE h = Len(seen) + 1
      BY <2>6, <2>7, <3>1, <3>3
    <3> QED BY <2>5, <3>2, <3>3
  <2>9. \A i \in DOMAIN seen' : seen'[i] < dj'.index
    <3> SUFFICES ASSUME NEW i \in 1..(Len(seen) + 1) PROVE seen'[i] < k + 1
      BY <2>3, <2>5
    <3>1. CASE i \in 1..Len(seen)
      BY <2>2, <2>6, <2>7, <3>1
    <3>2. CASE i = Len(seen) + 1
      BY <2>2, <2>6, <3>2
    <3> QED BY <2>5, <3>1, <3>2
  <2>10. \A n : Listed(n) \/ n = k => Listed(n)'
    BY <2>5, <2>6 DEF Listed
  <2>11. ASSUME WildFits, NEW n \in steady, n < k + 1, Valid(t[n]), Wanted(t[n].name)
         PROVE  Listed(n)'
    <3>1. n \in InUse(t) /\ n \in Nat /\ n \in Entries(t) /\ wildcmp(WildPattern, t[n].name)
      BY <1>1, <1>6, <1>9, <2>11
    <3>2. CASE n < dj.index
      BY <1>8, <2>10, <2>11, <3>2
    <3>3. CASE n >= dj.index
      <4>1. k <= n
        BY <2>2, <3>1, <3>3
      <4>2. n = k
        BY <2>2, <2>11, <3>1, <4>1
      <4> QED BY <2>10, <4>2
    <3> QED BY <1>1, <3>1, <3>2, <3>3
  <2>12. Running'
    <3>1. dj'.dir \in Dirs /\ WildPattern' = GetWildcard(asked'.s).wild
      BY <1>1, <1>2, <2>3 DEF Running
    <3>2. steady' \subseteq InUse(table'[dj'.dir])
      BY <1>1, <1>2, <2>3
    <3>3. ASSUME WildFits', NEW n \in steady', n < dj'.index, Valid(t'[n]),
                 Matches(Split(asked'.s).wild, t'[n].name)
          PROVE  Listed(n)'
      <4>1. WildFits /\ n \in steady /\ n < k + 1 /\ Valid(t[n]) /\ Wanted(t[n].name)
        BY <1>2, <1>7, <1>11, <2>3, <3>3 DEF Wanted
      <4> QED BY <2>11, <4>1
    <3> QED BY <2>8, <2>9, <3>1, <3>2, <3>3 DEF Running, Wanted
  <2>13. ListedIsWanted'
    <3>1. Valid(t[k]) /\ (WildFits => Wanted(t[k].name))
      BY <1>6, <1>10, <2>2
    <3>2. Valid(t'[k]) /\ (WildFits' => Matches(Split(asked'.s).wild, t'[k].name))
      BY <1>7, <1>11, <3>1 DEF Wanted
    <3> QED BY <2>1, <3>2 DEF ListedIsWanted, Wanted
  <2>14. ListingComplete' /\ ListsNamed'
    BY <2>1 DEF ListingComplete, ListsNamed
  <2> QED BY <2>4, <2>12, <2>13, <2>14 DEF Held, Answered
<1> QED BY <1>12, <1>13

\* A command that changes slot n of directory d leaves a running listing right:
\* the slot is no longer one that has not changed.
LEMMA DisturbHolds ==
    ASSUME Held, NEW d \in Dirs, NEW new, NEW n, Keeps(table[d], new, n),
           table' = [table EXCEPT ![d] = new], cdir' \in Dirs,
           Disturb(d, n), Says("file", 0), UNCHANGED WildPattern
    PROVE  Held'
<1>1. Types /\ Running
  BY DEF Held
<1>2. /\ table' \in [Dirs -> Seq(Entry)]
      /\ answer' = [kind |-> "file", slot |-> 0]
      /\ WildPattern' = WildPattern
  BY <1>1 DEF Types, Keeps, Says
<1>3. CASE dj.live
  <2>1. /\ steady' = IF d = dj.dir THEN steady \ {n} ELSE steady
        /\ dj' = dj /\ asked' = asked /\ seen' = seen
    BY <1>3 DEF Disturb
  <2>2. Types'
    BY <1>1, <1>2, <2>1 DEF Types
  <2>3. /\ dj.dir \in Dirs /\ WildPattern = GetWildcard(asked.s).wild
        /\ steady \subseteq InUse(table[dj.dir])
        /\ Increasing(seen) /\ \A i \in DOMAIN seen : seen[i] < dj.index
        /\ WildFits =>
             \A k \in steady :
                k < dj.index /\ Valid(table[dj.dir][k]) /\ Wanted(table[dj.dir][k].name)
                    => Listed(k)
    BY <1>1, <1>3 DEF Running
  <2>4. /\ steady' \subseteq steady
        /\ steady' \subseteq InUse(table'[dj.dir])
        /\ \A k \in steady' : table'[dj.dir][k] = table[dj.dir][k]
    <3>1. CASE d = dj.dir
      <4>1. table'[dj.dir] = new /\ steady' = steady \ {n}
        BY <1>1, <2>1, <3>1 DEF Types
      <4> QED BY <2>3, <3>1, <4>1 DEF Keeps
    <3>2. CASE d # dj.dir
      <4>1. table'[dj.dir] = table[dj.dir] /\ steady' = steady
        BY <1>1, <2>1, <2>3, <3>2 DEF Types
      <4> QED BY <2>3, <4>1
    <3> QED BY <3>1, <3>2
  <2>5. ASSUME WildFits', NEW k \in steady', k < dj'.index, Valid(table'[dj'.dir][k]),
               Matches(Split(asked'.s).wild, table'[dj'.dir][k].name)
        PROVE  Listed(k)'
    <3>1. /\ WildFits /\ k \in steady /\ k < dj.index /\ Valid(table[dj.dir][k])
          /\ Wanted(table[dj.dir][k].name)
      BY <2>1, <2>4, <2>5 DEF WildFits, Wanted
    <3>2. Listed(k)
      BY <2>3, <3>1
    <3> QED BY <2>1, <3>2 DEF Listed
  <2>6. Running'
    BY <1>2, <2>1, <2>3, <2>4, <2>5 DEF Running, Wanted
  <2> QED BY <2>2, <2>6, OtherAnswer DEF Held
<1>4. CASE ~dj.live
  <2>1. dj' = NoListing /\ asked' = Nothing /\ seen' = <<>> /\ steady' = {}
    BY <1>4 DEF Disturb, Forget
  <2>2. asked' \in [s : Text, cdir : Dirs]
    BY <2>1 DEF Nothing, Dirs, Text
  <2>3. dj' \in [dir : Dirs \cup {NoDir}, index : Nat, live : BOOLEAN] /\ ~dj'.live
    BY <2>1 DEF NoListing
  <2>4. Types'
    BY <1>1, <1>2, <2>1, <2>2, <2>3 DEF Types
  <2>5. Running'
    BY <2>3 DEF Running
  <2> QED BY <2>4, <2>5, OtherAnswer DEF Held
<1> QED BY <1>3, <1>4

LEMMA CreateHolds ==
    ASSUME Held, NEW name \in HostNames, CreateFile(name)
    PROVE  Held'
<1> DEFINE t == table[cdir]
           n == FreeSlot(t)
           entry == [name |-> name, dir |-> FALSE]
           longer == [k \in 1..(Len(t) + PerSector) |-> IF k <= Len(t) THEN t[k] ELSE Unused]
           base == IF n <= Len(t) THEN t ELSE longer
           new == [base EXCEPT ![n] = entry]
<1>1. cdir \in Dirs /\ t \in Seq(Entry)
  BY DEF Held, Types
<1>2. /\ table' = [table EXCEPT ![cdir] = new] /\ cdir' = cdir
      /\ Disturb(cdir, n) /\ Says("file", 0) /\ UNCHANGED WildPattern
  BY DEF CreateFile
<1>3. n \in 1..(Len(t) + 1) /\ Len(t) \in Nat
  <2> HIDE DEF t
  <2> QED BY <1>1, FreeSlotIs
<1>4. entry \in Entry /\ entry # Unused /\ Unused \in Entry
  <2>1. Valid(entry) /\ entry \in Entry
    BY NamesAreText
  <2> HIDE DEF entry
  <2> QED BY <2>1, NamesAreText DEF Valid
<1> HIDE DEF t, n, entry
<1>5. /\ base \in Seq(Entry) /\ n \in DOMAIN base /\ DOMAIN t \subseteq DOMAIN base
      /\ \A k \in DOMAIN t : base[k] = t[k]
  <2>1. CASE n <= Len(t)
    BY <1>1, <1>3, <2>1
  <2>2. CASE ~(n <= Len(t))
    <3>1. PerSector \in Nat \ {0}
      BY SizesAssumption
    <3>2. Len(t) + PerSector \in Nat /\ 1..Len(t) \subseteq 1..(Len(t) + PerSector)
      BY <1>3, <3>1
    <3>3. \A k \in 1..(Len(t) + PerSector) : (IF k <= Len(t) THEN t[k] ELSE Unused) \in Entry
      BY <1>1, <1>3, <1>4
    <3>4. longer \in [1..(Len(t) + PerSector) -> Entry]
      BY <3>3
    <3>5. longer \in Seq(Entry) /\ DOMAIN longer = 1..(Len(t) + PerSector)
      <4> HIDE DEF longer
      <4> QED BY <3>2, <3>4
    <3>6. n \in 1..(Len(t) + PerSector)
      BY <1>3, <3>1
    <3>7. \A k \in 1..Len(t) : longer[k] = t[k]
      BY <1>3, <3>2
    <3>8. base = longer /\ DOMAIN t = 1..Len(t)
      BY <1>1, <2>2
    <3> HIDE DEF longer, base
    <3> QED BY <3>2, <3>5, <3>6, <3>7, <3>8
  <2> QED BY <2>1, <2>2
<1> HIDE DEF base
<1>6. /\ new \in Seq(Entry) /\ DOMAIN new = DOMAIN base
      /\ new[n] = entry /\ \A k \in DOMAIN base : k # n => new[k] = base[k]
  BY <1>4, <1>5
<1> HIDE DEF new
<1>7. Keeps(t, new, n)
  <2>1. DOMAIN t \subseteq DOMAIN new /\ \A k \in DOMAIN t : k # n => new[k] = t[k]
    BY <1>5, <1>6
  <2>2. n \in DOMAIN new => new[n] # Unused
    BY <1>4, <1>6
  <2> QED BY <1>1, <1>6, <2>1, <2>2, KeepsIf
<1> QED BY <1>1, <1>2, <1>7, DisturbHolds DEF t

LEMMA DeleteHolds ==
    ASSUME Held, NEW name \in HostNames, DeleteFile(name)
    PROVE  Held'
<1> DEFINE t == table[cdir]
<1>1. cdir \in Dirs /\ t \in Seq(Entry)
  BY DEF Held, Types
<1>2. PICK n \in SlotOf(t, name) :
        /\ table' = [table EXCEPT ![cdir] = Remove(t, n)]
        /\ Disturb(cdir, n) /\ Says("file", 0)
        /\ cdir' = cdir /\ WildPattern' = WildPattern
  BY <1>1 DEF DeleteFile, Held, Types
<1> DEFINE new == [t EXCEPT ![n] = Deleted]
<1> HIDE DEF t
<1>3. n \in DOMAIN t
  BY <1>1, InUseIs DEF SlotOf
<1>4. Deleted \in Entry /\ Deleted # Unused
  <2>1. <<"E5">> # <<>>
    OBVIOUS
  <2> QED BY <2>1, NamesAreText DEF Deleted, Unused
<1>5. /\ new \in Seq(Entry) /\ DOMAIN new = DOMAIN t
      /\ new[n] = Deleted /\ \A k \in DOMAIN t : k # n => new[k] = t[k]
  BY <1>1, <1>3, <1>4
<1>6. new = Remove(t, n)
  BY DEF Remove
<1> HIDE DEF new
<1>7. Keeps(t, new, n)
  BY <1>1, <1>4, <1>5, KeepsIf
<1> QED BY <1>1, <1>2, <1>6, <1>7, DisturbHolds DEF t

LEMMA ChdirHolds ==
    ASSUME Held, NEW d \in Dirs, SetCWDirectory(d)
    PROVE  Held'
<1>1. cdir \in Dirs /\ table[cdir] \in Seq(Entry)
  BY DEF Held, Types
<1>2. table' = [table EXCEPT ![cdir] = table[cdir]]
  BY <1>1 DEF SetCWDirectory, Held, Types
<1>3. Keeps(table[cdir], table[cdir], 0)
  BY <1>1 DEF Keeps
<1>4. cdir' \in Dirs /\ Disturb(cdir, 0) /\ Says("file", 0) /\ UNCHANGED WildPattern
  BY DEF SetCWDirectory
<1> QED BY <1>1, <1>2, <1>3, <1>4, DisturbHolds

LEMMA StayHolds ==
    ASSUME Held, UNCHANGED vars
    PROVE  Held'
BY DEF Held, vars, Types, Running, Answered, ListedIsWanted, ListingComplete,
       ListsNamed, Named, Wanted, WildFits, Listed

LEMMA StepHolds == Held /\ [Next]_vars => Held'
<1> SUFFICES ASSUME Held, [Next]_vars PROVE Held'
  OBVIOUS
<1>1. ASSUME NEW s \in Strings, DirectoryOpen(s) PROVE Held'
  BY <1>1, OpenHolds
<1>2. CASE DirectoryRead
  BY <1>2, ReadHolds
<1>3. ASSUME NEW name \in HostNames, CreateFile(name) PROVE Held'
  BY <1>3, CreateHolds
<1>4. ASSUME NEW name \in HostNames, DeleteFile(name) PROVE Held'
  BY <1>4, DeleteHolds
<1>5. ASSUME NEW d \in Dirs, SetCWDirectory(d) PROVE Held'
  BY <1>5, ChdirHolds
<1>6. CASE UNCHANGED vars
  BY <1>6, StayHolds
<1> QED BY <1>1, <1>2, <1>3, <1>4, <1>5, <1>6 DEF Next

LEMMA Holding == Spec => []Held
<1> QED BY InitHolds, StepHolds, PTL DEF Spec

----------------------------------------------------------------------------
(* The invariants *)

\* The two tables hold names of the card and the host only, the wildcard never
\* grows past WILD_LEN, and what else the commands keep has its type.
THEOREM ListingTypeOK == Spec => []TypeOK
<1>1. Types => TypeOK
  <2> SUFFICES ASSUME Types PROVE TypeOK
    OBVIOUS
  <2>1. \A d \in Dirs : \A n \in DOMAIN table[d] : table[d][n] \in Entry
    BY DEF Types
  <2>2. cdir \in Dirs /\ asked.cdir \in Dirs
    BY DEF Types
  <2>3. answer.kind \in {"opened", "entry", "complete", "error", "file"} /\ answer.slot \in Nat
    BY DEF Types
  <2> QED BY <2>1, <2>2, <2>3 DEF Types, TypeOK
<1> QED BY <1>1, Holding, PTL DEF Held

\* CMD_DIR_READ answers entries of the directory only, and only ones the
\* wildcard matches as the host wrote it, unless that was too long.
THEOREM AnswersAreWanted == Spec => []ListedIsWanted
<1> QED BY Holding, PTL DEF Held, Answered

\* A listing that ran to its end has answered every wanted entry that was there
\* all the time, and none twice, whatever was created and deleted in between.
THEOREM ListingsAreComplete == Spec => []ListingComplete
<1> QED BY Holding, PTL DEF Held, Answered

\* CMD_DIR_OPEN opens the directory that the path before the wildcard names,
\* but for strings with the slash of the root only.
THEOREM OpensTheNamed == Spec => []ListsNamed
<1> QED BY Holding, PTL DEF Held, Answered

=============================================================================
