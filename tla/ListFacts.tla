------------------------------- MODULE ListFacts -------------------------------
(***************************************************************************)
(* Facts about the list operators of the community modules that the models *)
(* use and the proof library does not cover.                               *)
(***************************************************************************)
EXTENDS Integers, Sequences, SequencesExt, SequenceTheorems, WellFoundedInduction, TLAPS

(* A set of numbers has a least element: what Min and SelectInSeq choose   *)
(* exists.                                                                 *)
LEMMA LeastExists ==
  ASSUME NEW T \in SUBSET Nat, T # {}
  PROVE  \E x \in T : \A y \in T : x <= y
<1> DEFINE R == {ss \in Nat \X Nat : ss[1] < ss[2]}
<1>1. OpToRel(<, Nat) = R
  BY Zenon DEF OpToRel
<1>2. IsWellFoundedOn(R, Nat)
  BY <1>1, NatLessThanWellFounded
<1>3. PICK x \in T : \A y \in T : ~(<<y, x>> \in R)
  BY <1>2, WFMin
<1>4. ASSUME NEW y \in T PROVE x <= y
  <2>1. ~(<<y, x>> \in R)
    BY <1>3
  <2>2. <<y, x>> \in Nat \X Nat /\ <<y, x>>[1] = y /\ <<y, x>>[2] = x
    OBVIOUS
  <2>3. ~(y < x)
    BY <2>1, <2>2, Zenon
  <2> QED BY <2>3
<1> QED BY <1>4

(* Removing an element from a list that holds each of its elements once.   *)
LEMMA RemoveFirstFacts ==
  ASSUME NEW S, NEW t \in Seq(S), IsInjective(t), NEW s \in S
  PROVE  /\ RemoveFirst(t, s) \in Seq(S)
         /\ Len(RemoveFirst(t, s)) <= Len(t)
         /\ IsInjective(RemoveFirst(t, s))
         /\ Range(RemoveFirst(t, s)) = Range(t) \ {s}
<1> DEFINE r == RemoveFirst(t, s)
<1>1. Len(t) \in Nat /\ DOMAIN t = 1 .. Len(t)
  OBVIOUS
<1> SUFFICES r \in Seq(S) /\ Len(r) <= Len(t) /\ IsInjective(r) /\ Range(r) = Range(t) \ {s}
  OBVIOUS
<1>2. CASE ~ \E i \in 1 .. Len(t) : t[i] = s
  <2>1. r = t
    BY <1>2 DEF RemoveFirst
  <2>2. s \notin Range(t)
    BY <1>1, <1>2 DEF Range
  <2> HIDE DEF r
  <2> QED BY <1>1, <2>1, <2>2
<1>3. CASE \E i \in 1 .. Len(t) : t[i] = s
  <2>1. PICK i \in 1 .. Len(t) : t[i] = s
    BY <1>3
  <2>2. {j \in 1 .. Len(t) : t[j] = s} = {i}
    BY <1>1, <2>1 DEF IsInjective
  <2>3. SelectInSeq(t, LAMBDA v : v = s) = i
    BY <2>2 DEF SelectInSeq, Min
  <2> DEFINE a == SubSeq(t, 1, i - 1)
             b == SubSeq(t, i + 1, Len(t))
  <2>4. r = a \o b
    BY <1>3, <2>3 DEF RemoveFirst, RemoveAt
  <2>5. \A j \in 1 .. Len(t) : t[j] \in S
    BY ElementOfSeq
  <2>6. /\ a \in Seq(S) /\ Len(a) = i - 1 /\ \A j \in 1 .. i - 1 : a[j] = t[j]
    <3>1. i - 1 \in Int /\ 1 \in Int /\ \A j \in 1 .. i - 1 : t[j] \in S
      BY <1>1, <2>5
    <3>2. /\ a \in Seq(S) /\ Len(a) = (IF 1 <= i - 1 THEN (i - 1) - 1 + 1 ELSE 0)
          /\ \A j \in 1 .. (i - 1) - 1 + 1 : a[j] = t[1 + j - 1]
      BY <3>1, SubSeqProperties
    <3> HIDE DEF a
    <3> QED BY <1>1, <3>2
  <2>7. /\ b \in Seq(S) /\ Len(b) = Len(t) - i /\ \A j \in 1 .. Len(t) - i : b[j] = t[i + j]
    <3>1. i + 1 \in Int /\ Len(t) \in Int /\ \A j \in i + 1 .. Len(t) : t[j] \in S
      BY <1>1, <2>5
    <3>2. /\ b \in Seq(S) /\ Len(b) = (IF i + 1 <= Len(t) THEN Len(t) - (i + 1) + 1 ELSE 0)
          /\ \A j \in 1 .. Len(t) - (i + 1) + 1 : b[j] = t[i + 1 + j - 1]
      BY <3>1, SubSeqProperties
    <3> HIDE DEF b
    <3>3. Len(t) - (i + 1) + 1 = Len(t) - i
      BY <1>1
    <3>5. Len(b) = Len(t) - i
      <4>1. Len(b) = IF i + 1 <= Len(t) THEN Len(t) - (i + 1) + 1 ELSE 0
        BY <3>2
      <4>2. i + 1 <= Len(t) \/ Len(t) - i = 0
        <5>1. \A n \in Nat : \A k \in 1 .. n : k + 1 <= n \/ n - k = 0
          OBVIOUS
        <5> QED BY <1>1, <5>1
      <4>3. i + 1 <= Len(t) => Len(b) = Len(t) - i
        BY <4>1, <3>3
      <4>4. ~(i + 1 <= Len(t)) => Len(b) = 0
        BY <4>1
      <4> QED BY <4>2, <4>3, <4>4
    <3>4. ASSUME NEW j \in 1 .. Len(t) - i PROVE b[j] = t[i + j]
      <4>1. i + 1 + j - 1 = i + j
        BY <1>1
      <4>2. b[j] = t[i + 1 + j - 1]
        BY <3>2, <3>3
      <4> QED BY <4>1, <4>2
    <3> QED BY <3>2, <3>4, <3>5
  <2> HIDE DEF a, b
  <2>8. /\ r \in Seq(S) /\ Len(r) = Len(t) - 1
        /\ \A j \in 1 .. Len(t) - 1 : r[j] = IF j < i THEN t[j] ELSE t[j + 1]
    <3>1. /\ a \o b \in Seq(S) /\ Len(a \o b) = Len(a) + Len(b)
          /\ \A j \in 1 .. Len(a) + Len(b) :
               (a \o b)[j] = IF j <= Len(a) THEN a[j] ELSE b[j - Len(a)]
      BY <2>6, <2>7, ConcatProperties
    <3> HIDE DEF r
    <3>2. r \in Seq(S) /\ Len(r) = Len(t) - 1
      BY <1>1, <2>4, <2>6, <2>7, <3>1
    <3>3. ASSUME NEW j \in 1 .. Len(t) - 1
          PROVE  r[j] = IF j < i THEN t[j] ELSE t[j + 1]
      <4>1. r[j] = IF j <= i - 1 THEN a[j] ELSE b[j - (i - 1)]
        BY <1>1, <2>4, <2>6, <2>7, <3>1
      <4>2. CASE j < i
        BY <1>1, <4>1, <4>2, <2>6
      <4>3. CASE ~(j < i)
        <5>1. j - (i - 1) \in 1 .. Len(t) - i /\ i + (j - (i - 1)) = j + 1
          BY <1>1, <4>3
        <5> QED BY <1>1, <4>1, <4>3, <5>1, <2>7
      <4> QED BY <4>2, <4>3
    <3> QED BY <3>2, <3>3
  <2> HIDE DEF r
  <2>9. DOMAIN r = 1 .. Len(t) - 1
    BY <2>8
  <2>10. ASSUME NEW j \in DOMAIN r
         PROVE  \E k \in DOMAIN t : k # i /\ k = (IF j < i THEN j ELSE j + 1) /\ r[j] = t[k]
    BY <1>1, <2>1, <2>8, <2>9
  <2>11. IsInjective(r)
    <3> SUFFICES ASSUME NEW j \in DOMAIN r, NEW k \in DOMAIN r, r[j] = r[k]
                 PROVE  j = k
      BY DEF IsInjective
    <3> QED BY <2>9, <2>10, <2>1, <1>1 DEF IsInjective
  <2>12. Range(r) \subseteq Range(t) \ {s}
    BY <2>1, <2>10, <1>1 DEF Range, IsInjective
  <2>13. ASSUME NEW v \in Range(t) \ {s} PROVE v \in Range(r)
    <3>1. PICK k \in 1 .. Len(t) : t[k] = v
      BY <1>1 DEF Range
    <3>2. k # i
      BY <2>1, <3>1
    <3>3. CASE k < i
      BY <1>1, <2>8, <2>9, <3>1, <3>3 DEF Range
    <3>4. CASE k > i
      <4>1. k - 1 \in 1 .. Len(t) - 1 /\ ~(k - 1 < i) /\ (k - 1) + 1 = k
        BY <1>1, <3>4
      <4>2. r[k - 1] = v
        BY <2>8, <3>1, <4>1
      <4> QED BY <2>9, <4>1, <4>2 DEF Range
    <3> QED BY <3>2, <3>3, <3>4
  <2> QED BY <1>1, <2>8, <2>11, <2>12, <2>13
<1> QED BY <1>2, <1>3
=============================================================================
