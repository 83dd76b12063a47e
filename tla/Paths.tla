------------------------------- MODULE Paths -------------------------------
(***************************************************************************)
(* Lemmas about programs that are sequences of steps: a rule says from     *)
(* which situation a step leads to which, and a program leads from one     *)
(* situation to another if its steps do, one after the other.              *)
(***************************************************************************)
EXTENDS Integers, Sequences, SequencesExt, WellFoundedInduction, TLAPS

(* The steps the rules R speak of.                                         *)
Steps(R) == {r[2] : r \in R}

(* The program s leads from a to b: h lists the situations on the way.     *)
Follows(R, s, h) == \A i \in 1..Len(s) : <<h[i], s[i], h[i+1]>> \in R

Leads(R, s, a, b) ==
  /\ s \in Seq(Steps(R))
  /\ \E h : h[1] = a /\ h[Len(s) + 1] = b /\ Follows(R, s, h)

(* Induction, in a form without a predicate as parameter.                  *)
LEMMA Induction ==
  ASSUME NEW S, 0 \in S, \A n \in Nat : n \in S => n + 1 \in S
  PROVE  Nat \subseteq S
<1> SUFFICES ASSUME Nat \ S # {} PROVE FALSE
  OBVIOUS
<1> DEFINE R == OpToRel(<, Nat)
<1>1. R = {x \in Nat \X Nat : x[1] < x[2]}
  BY DEF OpToRel
<1>2. IsWellFoundedOn(R, Nat)
  BY NatLessThanWellFounded, Zenon
<1> HIDE DEF R
<1>3. PICK m \in Nat \ S : \A k \in Nat \ S : <<k, m>> \notin R
  BY <1>2, WFMin
<1>4. m - 1 \in Nat /\ <<m - 1, m>> \in R
  BY <1>1
<1>5. m - 1 \in S
  BY <1>3, <1>4
<1>6. (m - 1) + 1 \in S
  BY <1>4, <1>5
<1> QED
  BY <1>3, <1>6

(* What FlattenSeq computes.                                               *)
LEMMA FlattenEquation ==
  ASSUME NEW S, NEW seqs \in Seq(Seq(S)), Len(seqs) > 0
  PROVE  \E f : /\ f = [i \in 1..Len(seqs) |-> IF i = 1 THEN seqs[i] ELSE f[i-1] \o seqs[i]]
                /\ FlattenSeq(seqs) = f[Len(seqs)]
<1> DEFINE n == Len(seqs)
           P(m, f) == f = [i \in 1..m |-> IF i = 1 THEN seqs[i] ELSE f[i-1] \o seqs[i]]
           M == {m \in Nat : \E f : P(m, f)}
<1>1. 0 \in M
  <2>1. P(0, [i \in 1..0 |-> seqs[i]])
    OBVIOUS
  <2> QED
    BY <2>1
<1>2. ASSUME NEW m \in Nat, m \in M PROVE m + 1 \in M
  <2>1. PICK g : P(m, g)
    BY <1>2
  <2> DEFINE last == IF m + 1 = 1 THEN seqs[m + 1] ELSE g[m] \o seqs[m + 1]
             f == [i \in 1..(m + 1) |-> IF i <= m THEN g[i] ELSE last]
  <2>2. ASSUME NEW i \in 1..(m + 1) PROVE f[i] = IF i = 1 THEN seqs[i] ELSE f[i-1] \o seqs[i]
    <3>1. CASE i <= m
      <4>1. i \in 1..m /\ (i # 1 => i - 1 \in 1..m)
        BY <3>1
      <4>2. g[i] = IF i = 1 THEN seqs[i] ELSE g[i-1] \o seqs[i]
        BY <2>1, <4>1
      <4>3. f[i] = g[i] /\ (i # 1 => f[i-1] = g[i-1])
        BY <4>1
      <4> HIDE DEF f
      <4> QED
        BY <4>2, <4>3
    <3>2. CASE i = m + 1
      <4>1. f[i] = last /\ (i # 1 => f[i-1] = g[m])
        BY <3>2
      <4> HIDE DEF f
      <4> QED
        BY <3>2, <4>1
    <3> QED
      BY <3>1, <3>2
  <2>3. f = [i \in 1..(m + 1) |-> f[i]]
    OBVIOUS
  <2> HIDE DEF f
  <2>4. P(m + 1, f)
    BY <2>2, <2>3
  <2>5. m + 1 \in Nat
    OBVIOUS
  <2> HIDE DEF P
  <2> QED
    BY <2>4, <2>5
<1>3. n \in M
  <2>1. \A m \in Nat : m \in M => m + 1 \in M
    BY <1>2
  <2> HIDE DEF M
  <2>2. Nat \subseteq M
    BY <1>1, <2>1, Induction
  <2> QED
    BY <2>2
<1>4. PICK f : P(n, f)
  BY <1>3
<1> DEFINE flat == CHOOSE f0 : P(n, f0)
<1>5. P(n, flat)
  BY <1>4
<1>6. FlattenSeq(seqs) = flat[n]
  BY DEF FlattenSeq
<1> QED
  BY <1>5, <1>6

---------------------------------------------------------------------------
(* The program without a step stays where it is.                           *)
LEMMA LeadsEmpty ==
  ASSUME NEW R, NEW a
  PROVE  Leads(R, <<>>, a, a)
<1> DEFINE h == [i \in {1} |-> a]
<1>1. h[1] = a /\ h[Len(<<>>) + 1] = a /\ Follows(R, <<>>, h)
  BY DEF Follows
<1> HIDE DEF h
<1> QED
  BY <1>1 DEF Leads

LEMMA LeadsNowhere ==
  ASSUME NEW R, NEW a, NEW b, Leads(R, <<>>, a, b)
  PROVE  a = b
BY DEF Leads

LEMMA LeadsStep ==
  ASSUME NEW R, NEW a, NEW x, NEW b, <<a, x, b>> \in R
  PROVE  Leads(R, <<x>>, a, b)
<1> DEFINE h == [i \in {1, 2} |-> IF i = 1 THEN a ELSE b]
<1>1. x \in Steps(R)
  <2>1. <<a, x, b>>[2] = x
    OBVIOUS
  <2> QED
    BY <2>1 DEF Steps
<1>2. h[1] = a /\ h[Len(<<x>>) + 1] = b /\ Follows(R, <<x>>, h)
  BY DEF Follows
<1> HIDE DEF h
<1> QED
  BY <1>1, <1>2 DEF Leads

(* One program after another.                                              *)
LEMMA LeadsOn ==
  ASSUME NEW R, NEW s, NEW t, NEW a, NEW b, NEW c,
         Leads(R, s, a, b), Leads(R, t, b, c)
  PROVE  Leads(R, s \o t, a, c)
<1>1. s \in Seq(Steps(R)) /\ t \in Seq(Steps(R))
  BY DEF Leads
<1>2. PICK g : g[1] = a /\ g[Len(s) + 1] = b /\ Follows(R, s, g)
  BY DEF Leads
<1>3. PICK k : k[1] = b /\ k[Len(t) + 1] = c /\ Follows(R, t, k)
  BY DEF Leads
<1>4. /\ s \o t \in Seq(Steps(R))
      /\ Len(s) \in Nat /\ Len(t) \in Nat /\ Len(s \o t) = Len(s) + Len(t)
      /\ \A i \in 1..Len(s) : (s \o t)[i] = s[i]
      /\ \A i \in 1..Len(t) : (s \o t)[Len(s) + i] = t[i]
  BY <1>1
<1> DEFINE h == [i \in 1..(Len(s) + Len(t) + 1) |-> IF i <= Len(s) + 1 THEN g[i] ELSE k[i - Len(s)]]
<1>5. \A i \in 1..(Len(s) + 1) : h[i] = g[i]
  BY <1>4
<1>6. \A i \in 1..(Len(t) + 1) : h[Len(s) + i] = k[i]
  <2> SUFFICES ASSUME NEW i \in 1..(Len(t) + 1) PROVE h[Len(s) + i] = k[i]
    OBVIOUS
  <2>1. CASE i = 1
    BY <2>1, <1>2, <1>3, <1>4
  <2>2. CASE i # 1
    BY <2>2, <1>4
  <2> QED
    BY <2>1, <2>2
<1> HIDE DEF h
<1>7. Follows(R, s \o t, h)
  <2> SUFFICES ASSUME NEW i \in 1..(Len(s) + Len(t)) PROVE <<h[i], (s \o t)[i], h[i+1]>> \in R
    BY <1>4 DEF Follows
  <2>1. CASE i <= Len(s)
    <3>1. i \in 1..Len(s) /\ i \in 1..(Len(s) + 1) /\ i + 1 \in 1..(Len(s) + 1)
      BY <2>1, <1>4
    <3>2. h[i] = g[i] /\ h[i+1] = g[i+1] /\ (s \o t)[i] = s[i]
      BY <3>1, <1>4, <1>5
    <3>3. <<g[i], s[i], g[i+1]>> \in R
      BY <3>1, <1>2 DEF Follows
    <3> QED
      BY <3>2, <3>3
  <2>2. CASE i > Len(s)
    <3>1. PICK j \in 1..Len(t) : i = Len(s) + j
      <4>1. i - Len(s) \in 1..Len(t) /\ i = Len(s) + (i - Len(s))
        BY <2>2, <1>4
      <4> QED
        BY <4>1
    <3>2. j \in 1..(Len(t) + 1) /\ j + 1 \in 1..(Len(t) + 1) /\ i + 1 = Len(s) + (j + 1)
      BY <3>1, <1>4
    <3>3. h[i] = k[j] /\ h[i+1] = k[j+1] /\ (s \o t)[i] = t[j]
      BY <3>1, <3>2, <1>4, <1>6
    <3>4. <<k[j], t[j], k[j+1]>> \in R
      BY <3>1, <1>3 DEF Follows
    <3> QED
      BY <3>3, <3>4
  <2>3. i <= Len(s) \/ i > Len(s)
    BY <1>4
  <2> QED
    BY <2>1, <2>2, <2>3
<1>8. h[1] = a /\ h[Len(s \o t) + 1] = c
  BY <1>2, <1>3, <1>4, <1>5, <1>6
<1> QED
  BY <1>4, <1>7, <1>8 DEF Leads

(* What is left of a program after its first step.                         *)
LEMMA LeadsTail ==
  ASSUME NEW R, NEW s, NEW a, NEW b, Leads(R, s, a, b), s # <<>>
  PROVE  \E c : <<a, Head(s), c>> \in R /\ Leads(R, Tail(s), c, b)
<1>1. s \in Seq(Steps(R))
  BY DEF Leads
<1>2. PICK h : h[1] = a /\ h[Len(s) + 1] = b /\ Follows(R, s, h)
  BY DEF Leads
<1>3. /\ Len(s) \in Nat \ {0} /\ Head(s) = s[1]
      /\ Tail(s) \in Seq(Steps(R)) /\ Len(Tail(s)) = Len(s) - 1
      /\ \A i \in 1..(Len(s) - 1) : Tail(s)[i] = s[i + 1]
  BY <1>1
<1>4. <<a, Head(s), h[2]>> \in R
  <2>1. 1 \in 1..Len(s)
    BY <1>3
  <2>2. <<h[1], s[1], h[1 + 1]>> \in R
    BY <1>2, <2>1 DEF Follows
  <2> QED
    BY <1>2, <1>3, <2>2
<1> DEFINE g == [i \in 1..Len(s) |-> h[i + 1]]
<1>5. g[1] = h[2] /\ g[Len(Tail(s)) + 1] = b
  BY <1>2, <1>3
<1>6. Follows(R, Tail(s), g)
  <2> SUFFICES ASSUME NEW i \in 1..Len(Tail(s)) PROVE <<g[i], Tail(s)[i], g[i+1]>> \in R
    BY DEF Follows
  <2>1. i + 1 \in 1..Len(s) /\ i \in 1..Len(s) /\ i \in 1..(Len(s) - 1)
    BY <1>3
  <2>2. g[i] = h[i + 1] /\ g[i + 1] = h[(i + 1) + 1] /\ Tail(s)[i] = s[i + 1]
    BY <1>3, <2>1
  <2>3. <<h[i + 1], s[i + 1], h[(i + 1) + 1]>> \in R
    BY <1>2, <2>1 DEF Follows
  <2> QED
    BY <2>2, <2>3
<1> HIDE DEF g
<1>7. Leads(R, Tail(s), h[2], b)
  BY <1>3, <1>5, <1>6 DEF Leads
<1> QED
  BY <1>4, <1>7

(* The last step ends where the program does.                              *)
LEMMA LeadsLast ==
  ASSUME NEW R, NEW s, NEW a, NEW b, Leads(R, s, a, b), s # <<>>
  PROVE  \E c : <<c, Last(s), b>> \in R
<1>1. PICK h : h[Len(s) + 1] = b /\ Follows(R, s, h)
  BY DEF Leads
<1>2. Len(s) \in 1..Len(s)
  BY DEF Leads
<1> QED
  BY <1>1, <1>2 DEF Follows, Last

(* A program that leaves the situations K has a step that does.            *)
LEMMA LeadsOut ==
  ASSUME NEW R, NEW s, NEW a, NEW b, NEW K, Leads(R, s, a, b), a \in K, b \notin K
  PROVE  \E i \in 1..Len(s) : \E c, d : c \in K /\ d \notin K /\ <<c, s[i], d>> \in R
<1>1. s \in Seq(Steps(R))
  BY DEF Leads
<1>2. PICK h : h[1] = a /\ h[Len(s) + 1] = b /\ Follows(R, s, h)
  BY DEF Leads
<1>3. SUFFICES ASSUME \A i \in 1..Len(s) : h[i] \in K => h[i+1] \in K PROVE FALSE
  BY <1>2 DEF Follows
<1> DEFINE M == {n \in Nat : n <= Len(s) => h[n + 1] \in K}
<1>4. 0 \in M
  BY <1>2
<1>5. ASSUME NEW n \in Nat, n \in M PROVE n + 1 \in M
  <2> SUFFICES ASSUME n + 1 <= Len(s) PROVE h[(n + 1) + 1] \in K
    OBVIOUS
  <2>1. n + 1 \in 1..Len(s) /\ h[n + 1] \in K
    BY <1>1, <1>5
  <2> QED
    BY <1>3, <2>1
<1>6. \A n \in Nat : n \in M => n + 1 \in M
  BY <1>5
<1> HIDE DEF M
<1>7. Nat \subseteq M
  BY <1>4, <1>6, Induction
<1>8. Len(s) \in M
  BY <1>1, <1>7
<1> QED
  BY <1>2, <1>8 DEF M

(* If a step is taken in one of the situations K, and no step before it    *)
(* leads into K, the program starts in K.                                  *)
LEMMA LeadsBack ==
  ASSUME NEW R, NEW s, NEW a, NEW b, NEW K, NEW i \in 1..Len(s), Leads(R, s, a, b),
         \A c, d : <<c, s[i], d>> \in R => c \in K,
         \A j \in 1..(i - 1) : \A c, d : <<c, s[j], d>> \in R /\ d \in K => c \in K
  PROVE  a \in K
<1>1. s \in Seq(Steps(R))
  BY DEF Leads
<1>2. PICK h : h[1] = a /\ h[Len(s) + 1] = b /\ Follows(R, s, h)
  BY DEF Leads
<1>3. \A j \in 1..Len(s) : <<h[j], s[j], h[j+1]>> \in R
  BY <1>2 DEF Follows
<1> DEFINE M == {n \in Nat : n < i => h[i - n] \in K}
<1>4. 0 \in M
  <2>1. i - 0 = i
    BY <1>1
  <2>2. h[i] \in K
    BY <1>3
  <2> QED
    BY <2>1, <2>2
<1>5. ASSUME NEW n \in Nat, n \in M PROVE n + 1 \in M
  <2> SUFFICES ASSUME n + 1 < i PROVE h[i - (n + 1)] \in K
    OBVIOUS
  <2> DEFINE j == i - (n + 1)
  <2>1. j \in 1..(i - 1) /\ j \in 1..Len(s) /\ j + 1 = i - n
    BY <1>1
  <2>2. h[j + 1] \in K
    BY <1>1, <1>5, <2>1
  <2> HIDE DEF j
  <2>3. h[j] \in K
    BY <1>3, <2>1, <2>2
  <2> QED
    BY <2>3 DEF j
<1>6. \A n \in Nat : n \in M => n + 1 \in M
  BY <1>5
<1> HIDE DEF M
<1>7. Nat \subseteq M
  BY <1>4, <1>6, Induction
<1>8. i - 1 \in Nat /\ i - 1 < i /\ i - (i - 1) = 1
  BY <1>1
<1>9. i - 1 \in M
  BY <1>7, <1>8
<1>10. h[i - (i - 1)] \in K
  BY <1>8, <1>9 DEF M
<1> QED
  BY <1>2, <1>8, <1>10

(* Programs that each lead back to a, one after the other.                 *)
LEMMA LeadsRepeat ==
  ASSUME NEW R, NEW seqs \in Seq(Seq(Steps(R))), NEW a,
         \A i \in 1..Len(seqs) : Leads(R, seqs[i], a, a)
  PROVE  Leads(R, FlattenSeq(seqs), a, a)
<1>1. CASE Len(seqs) = 0
  <2>1. FlattenSeq(seqs) = <<>>
    BY <1>1 DEF FlattenSeq
  <2> QED
    BY <2>1, LeadsEmpty
<1>2. CASE Len(seqs) > 0
  <2>1. PICK f : /\ f = [i \in 1..Len(seqs) |-> IF i = 1 THEN seqs[i] ELSE f[i-1] \o seqs[i]]
                 /\ FlattenSeq(seqs) = f[Len(seqs)]
    BY <1>2, FlattenEquation
  <2> DEFINE M == {n \in Nat : n < Len(seqs) => Leads(R, f[n + 1], a, a)}
  <2>2. 0 \in M
    <3>1. f[1] = seqs[1]
      BY <1>2, <2>1
    <3> QED
      BY <1>2, <3>1
  <2>3. ASSUME NEW n \in Nat, n \in M PROVE n + 1 \in M
    <3> SUFFICES ASSUME n + 1 < Len(seqs) PROVE Leads(R, f[(n + 1) + 1], a, a)
      OBVIOUS
    <3> DEFINE m == (n + 1) + 1
    <3>1. m \in 1..Len(seqs) /\ m # 1 /\ m - 1 = n + 1 /\ n < Len(seqs)
      OBVIOUS
    <3> HIDE DEF m
    <3>2. f[m] = f[m - 1] \o seqs[m]
      BY <2>1, <3>1
    <3>3. Leads(R, f[m - 1], a, a)
      BY <2>3, <3>1
    <3>4. Leads(R, seqs[m], a, a)
      BY <3>1
    <3>5. Leads(R, f[m], a, a)
      BY <3>2, <3>3, <3>4, LeadsOn
    <3> QED
      BY <3>5 DEF m
  <2>4. \A n \in Nat : n \in M => n + 1 \in M
    BY <2>3
  <2> HIDE DEF M
  <2>5. Nat \subseteq M
    BY <2>2, <2>4, Induction
  <2>6. Len(seqs) - 1 \in M /\ Len(seqs) - 1 < Len(seqs) /\ (Len(seqs) - 1) + 1 = Len(seqs)
    BY <1>2, <2>5
  <2>7. Leads(R, f[Len(seqs)], a, a)
    BY <2>6 DEF M
  <2> QED
    BY <2>1, <2>7
<1> QED
  BY <1>1, <1>2
=============================================================================
