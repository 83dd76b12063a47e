---------------------------- MODULE RouterProofs ----------------------------
(***************************************************************************)
(* What Router promises whatever groups, routes and middleware lists are   *)
(* declared: types, and middlewares that stay as they were declared down   *)
(* to the second level of groups.                                          *)
(***************************************************************************)
EXTENDS Router, Paths

Cell  == Kinds \cup {Nil}
Slice == [array : Nat, len : Nat]
GroupType == [prefix : Seq(STRING), slice : Slice, declared : Seq(Kinds), depth : Nat]

(* The array behind a slice, and a slice that has no room in it.           *)
Array(slice) == heap[slice.array]
Full(slice)  == slice.len = Len(Array(slice))

Slices ==
  /\ heap \in Seq(Seq(Cell))
  /\ groups \in Seq(GroupType)
  /\ \A g \in DOMAIN groups :
       LET slice == groups[g].slice IN
         /\ slice.array \in DOMAIN heap
         /\ slice.len \in 0..Len(Array(slice))
         /\ \A i \in 1..slice.len : Array(slice)[i] # Nil

(* The beginning of a sequence.                                            *)
LEMMA SubSeqOf ==
  ASSUME NEW S, NEW seq \in Seq(S), NEW n \in 0..Len(seq)
  PROVE  /\ SubSeq(seq, 1, n) \in Seq(S) /\ Len(SubSeq(seq, 1, n)) = n
         /\ \A i \in 1..n : SubSeq(seq, 1, n)[i] = seq[i]
OBVIOUS

(* Two sequences, one behind the other.                                    *)
LEMMA ConcatOf ==
  ASSUME NEW S, NEW v \in Seq(S), NEW d \in Seq(S)
  PROVE  /\ v \o d \in Seq(S) /\ Len(v \o d) = Len(v) + Len(d)
         /\ \A i \in 1..Len(v) : (v \o d)[i] = v[i]
         /\ \A i \in 1..Len(d) : (v \o d)[Len(v) + i] = d[i]
<1>1. v \o d \in Seq(S) /\ Len(v \o d) = Len(v) + Len(d)
  OBVIOUS
<1>2. \A i \in 1..Len(v) : (v \o d)[i] = v[i]
  OBVIOUS
<1>3. \A i \in 1..Len(d) : (v \o d)[Len(v) + i] = d[i]
  OBVIOUS
<1> QED
  BY <1>1, <1>2, <1>3

(* What append does, cell by cell: it writes behind the slice, in its      *)
(* array or in a copy of room cells.                                       *)
Extended(s, xs, room, e) ==
  /\ e.heap \in Seq(Seq(Cell)) /\ e.slice \in Slice
  /\ e.slice.len = s.len + Len(xs)
  /\ e.slice.len <= Len(e.heap[e.slice.array])
  /\ \A a \in DOMAIN heap :
       /\ Len(e.heap[a]) = Len(heap[a])
       /\ \A i \in DOMAIN heap[a] :
            \/ e.heap[a][i] = heap[a][i]
            \/ a = s.array /\ i > s.len /\ e.heap[a][i] # Nil
  /\ \A i \in 1..s.len : e.heap[e.slice.array][i] = Array(s)[i]
  /\ \A i \in 1..Len(xs) : e.heap[e.slice.array][s.len + i] = xs[i]
  /\ \/ /\ e.slice.array = s.array /\ Len(e.heap) = Len(heap)
        /\ e.slice.len <= Len(Array(s))
     \/ /\ e.slice.array = Len(heap) + 1 /\ Len(e.heap) = Len(heap) + 1
        /\ e.slice.len > Len(Array(s))
        /\ Len(e.heap[e.slice.array]) = room

LEMMA ExtendCells ==
  ASSUME Slices, NEW g \in DOMAIN groups, NEW xs \in Seq(Kinds),
         NEW s, s = groups[g].slice, NEW room \in Nat, room >= s.len + Len(xs),
         NEW e, e = Extend(s, xs, room)
  PROVE  Extended(s, xs, room, e)
<1> DEFINE cap    == Len(heap[s.array])
           needed == s.len + Len(xs)
           Write(cells) == [i \in DOMAIN cells |-> IF i \in s.len + 1 .. needed
                                                  THEN xs[i - s.len] ELSE cells[i]]
<1>1. /\ heap \in Seq(Seq(Cell)) /\ s.array \in DOMAIN heap /\ s.len \in 0..cap
      /\ s.len \in Nat /\ s.array \in Nat /\ cap \in Nat /\ needed \in Nat /\ Len(xs) \in Nat
      /\ s \in Slice
  <2>1. /\ heap \in Seq(Seq(Cell)) /\ groups[g] \in GroupType /\ s.array \in DOMAIN heap
        /\ s.len \in 0..Len(heap[s.array])
    BY DEF Slices, Array
  <2>2. s \in Slice /\ s.array \in Nat /\ s.len \in Nat
    BY <2>1 DEF GroupType, Slice
  <2>3. heap[s.array] \in Seq(Cell)
    BY <2>1
  <2>4. cap \in Nat /\ Len(xs) \in Nat
    BY <2>3
  <2> QED
    BY <2>1, <2>2, <2>4
<1>2. ASSUME NEW cells \in Seq(Cell), Len(cells) >= s.len
      PROVE  /\ Write(cells) \in Seq(Cell) /\ Len(Write(cells)) = Len(cells)
             /\ \A i \in 1..Len(cells) :
                  IF i \in s.len + 1 .. needed
                  THEN Write(cells)[i] = xs[i - s.len] /\ Write(cells)[i] \in Kinds
                  ELSE Write(cells)[i] = cells[i]
  <2>0. s.len \in Nat /\ Len(xs) \in Nat /\ needed = s.len + Len(xs)
    BY <1>1
  <2>1. \A i \in s.len + 1 .. needed : i - s.len \in 1..Len(xs)
    <3> HIDE DEF needed
    <3> QED
      BY <2>0
  <2>2. \A i \in 1..Len(xs) : xs[i] \in Kinds
    OBVIOUS
  <2>3. \A i \in 1..Len(cells) : cells[i] \in Cell
    OBVIOUS
  <2>4. DOMAIN cells = 1..Len(cells) /\ Len(cells) \in Nat
    OBVIOUS
  <2>5. Write(cells) \in [1..Len(cells) -> Cell]
    BY <2>1, <2>2, <2>3, <2>4 DEF Cell
  <2>6. Write(cells) \in Seq(Cell) /\ Len(Write(cells)) = Len(cells)
    BY <2>4, <2>5
  <2> QED
    BY <2>1, <2>2, <2>4, <2>6
<1>3. \A k \in Kinds : k # Nil
  BY DEF Kinds, Nil
<1>4. CASE needed <= cap
  <2>1. e = [heap  |-> [heap EXCEPT ![s.array] = Write(@)], slice |-> [s EXCEPT !.len = needed]]
    BY <1>4 DEF Extend, Needed
  <2>2. e.heap = [heap EXCEPT ![s.array] = Write(heap[s.array])] /\ e.slice = [s EXCEPT !.len = needed]
    BY <2>1
  <2>3. heap[s.array] \in Seq(Cell)
    BY <1>1
  <2> DEFINE W == Write(heap[s.array])
  <2>4. Len(heap[s.array]) >= s.len
    BY <1>1
  <2> HIDE DEF Write, needed
  <2>5. W \in Seq(Cell) /\ Len(W) = cap
    BY <1>2, <2>3, <2>4
  <2>6. \A i \in 1..cap : IF i \in s.len + 1 .. needed THEN W[i] = xs[i - s.len] /\ W[i] \in Kinds
                                                     ELSE W[i] = heap[s.array][i]
    BY <1>2, <2>3, <2>4
  <2> HIDE DEF W, Write
  <2>7. e.heap = [heap EXCEPT ![s.array] = W]
    BY <2>2 DEF W
  <2>8. e.heap \in Seq(Seq(Cell)) /\ Len(e.heap) = Len(heap) /\ e.heap[s.array] = W
        /\ \A a \in DOMAIN heap : a # s.array => e.heap[a] = heap[a]
    BY <1>1, <2>5, <2>7
  <2>9. e.slice \in Slice /\ e.slice.array = s.array /\ e.slice.len = needed
    BY <1>1, <2>2 DEF Slice
  <2>10. \A i \in 1..s.len : W[i] = heap[s.array][i]
    BY SMTT(30), <1>1, <2>6
  <2>11. ASSUME NEW i \in 1..Len(xs) PROVE W[s.len + i] = xs[i]
    <3>0. s.len \in Nat /\ Len(xs) \in Nat /\ cap \in Nat /\ needed = s.len + Len(xs) /\ needed <= cap
      BY <1>1, <1>4 DEF needed
    <3> HIDE DEF cap
    <3>1. /\ s.len + i \in s.len + 1 .. needed /\ s.len + i \in 1..cap
          /\ (s.len + i) - s.len = i
      BY SMTT(30), <3>0
    <3> QED
      BY <2>6, <3>1
  <2>12. \A i \in 1..cap : W[i] = heap[s.array][i] \/ (i > s.len /\ W[i] # Nil)
    BY <1>1, <1>3, <2>6
  <2>13. \A a \in DOMAIN heap :
              /\ Len(e.heap[a]) = Len(heap[a])
              /\ \A i \in DOMAIN heap[a] :
                   \/ e.heap[a][i] = heap[a][i]
                   \/ a = s.array /\ i > s.len /\ e.heap[a][i] # Nil
    <3> SUFFICES ASSUME NEW a \in DOMAIN heap
                 PROVE  /\ Len(e.heap[a]) = Len(heap[a])
                        /\ \A i \in DOMAIN heap[a] :
                             \/ e.heap[a][i] = heap[a][i]
                             \/ a = s.array /\ i > s.len /\ e.heap[a][i] # Nil
      OBVIOUS
    <3>1. CASE a # s.array
      BY <2>8, <3>1
    <3>2. CASE a = s.array
      <4>1. DOMAIN heap[a] = 1..cap
        BY <2>3, <3>2
      <4> QED
        BY <2>5, <2>8, <2>12, <3>2, <4>1
    <3> QED
      BY <3>1, <3>2
  <2> QED
    BY ZenonT(40), <1>4, <2>5, <2>8, <2>9, <2>10, <2>11, <2>13 DEF Array, needed, Extended
<1>5. CASE ~(needed <= cap)
  <2> DEFINE n == room
             C == View(s) \o Cells(n - s.len)
             W == Write(C)
  <2>1. e = [heap |-> Append(heap, W), slice |-> [array |-> Len(heap) + 1, len |-> needed]]
    BY <1>5 DEF Extend, Needed
  <2>2. n \in Nat /\ n >= needed
    BY <1>1
  <2>3. View(s) \in Seq(Cell) /\ Len(View(s)) = s.len /\ \A i \in 1..s.len : View(s)[i] = heap[s.array][i]
    <3>1. heap[s.array] \in Seq(Cell) /\ 1 \in 1..(s.len + 1) /\ s.len \in 0..Len(heap[s.array])
      BY <1>1
    <3> QED
      BY <3>1, SubSeqOf DEF View
  <2>4. Cells(n - s.len) \in Seq(Cell) /\ Len(Cells(n - s.len)) = n - s.len
    <3>1. n - s.len \in Nat
      BY SMTT(30), <1>1, <2>2
    <3> QED
      BY <3>1 DEF Cells, Cell
  <2>5. C \in Seq(Cell) /\ Len(C) = n /\ \A i \in 1..s.len : C[i] = heap[s.array][i]
    <3> DEFINE V == View(s)
               D == Cells(n - s.len)
    <3>1. V \in Seq(Cell) /\ D \in Seq(Cell) /\ Len(V) = s.len /\ Len(D) = n - s.len
      BY <2>3, <2>4
    <3>2. \A i \in 1..s.len : V[i] = heap[s.array][i]
      BY <2>3
    <3> HIDE DEF n, V, D
    <3>3. V \o D \in Seq(Cell) /\ Len(V \o D) = n /\ \A i \in 1..s.len : (V \o D)[i] = V[i]
      <4>1. s.len + (n - s.len) = n
        BY <1>1, <2>2
      <4>2. /\ V \o D \in Seq(Cell) /\ Len(V \o D) = Len(V) + Len(D)
            /\ \A i \in 1..Len(V) : (V \o D)[i] = V[i]
        BY <3>1, ConcatOf
      <4> QED
        BY <3>1, <4>1, <4>2
    <3> QED
      BY <3>2, <3>3 DEF V, D
  <2> HIDE DEF C, n
  <2>6. /\ W \in Seq(Cell) /\ Len(W) = n
        /\ \A i \in 1..n : IF i \in s.len + 1 .. needed THEN W[i] = xs[i - s.len] ELSE W[i] = C[i]
    <3>1. Len(C) >= s.len
      BY <1>1, <2>2, <2>5
    <3> HIDE DEF Write, needed
    <3> QED
      BY <1>2, <2>5, <3>1
  <2> HIDE DEF W, Write
  <2>7. e.heap = Append(heap, W) /\ e.slice = [array |-> Len(heap) + 1, len |-> needed]
    BY <2>1
  <2>8. /\ e.heap \in Seq(Seq(Cell)) /\ Len(e.heap) = Len(heap) + 1 /\ e.heap[Len(heap) + 1] = W
        /\ \A a \in DOMAIN heap : e.heap[a] = heap[a]
    BY <1>1, <2>6, <2>7
  <2>9. e.slice \in Slice /\ e.slice.array = Len(heap) + 1 /\ e.slice.len = needed
    BY <1>1, <2>7 DEF Slice
  <2>10. \A i \in 1..s.len : W[i] = heap[s.array][i]
    BY SMTT(30), <1>1, <2>2, <2>5, <2>6
  <2>11. ASSUME NEW i \in 1..Len(xs) PROVE W[s.len + i] = xs[i]
    <3>0. s.len \in Nat /\ Len(xs) \in Nat /\ needed = s.len + Len(xs)
      BY <1>1
    <3> HIDE DEF needed
    <3>1. /\ s.len + i \in s.len + 1 .. needed /\ s.len + i \in 1..n
          /\ (s.len + i) - s.len = i
      BY SMTT(30), <2>2, <3>0
    <3> QED
      BY <2>6, <3>1
  <2>12. ASSUME NEW a \in DOMAIN heap
         PROVE  /\ Len(e.heap[a]) = Len(heap[a])
                /\ \A i \in DOMAIN heap[a] : e.heap[a][i] = heap[a][i]
    BY <2>8
  <2>13. cap = Len(Array(s)) /\ needed > cap
    BY <1>1, <1>5 DEF Array
  <2>14. e.slice.array = Len(heap) + 1 /\ e.slice.len = needed /\ e.heap[e.slice.array] = W
    BY <2>8, <2>9
  <2>15. e.slice.len > Len(Array(s)) /\ Len(e.heap[e.slice.array]) = room
    BY <2>6, <2>13, <2>14 DEF n
  <2>16. e.slice.len <= Len(e.heap[e.slice.array])
    BY <2>2, <2>6, <2>14
  <2>17. e.slice.len = s.len + Len(xs)
    BY <2>14
  <2>18. /\ \A i \in 1..s.len : e.heap[e.slice.array][i] = Array(s)[i]
         /\ \A i \in 1..Len(xs) : e.heap[e.slice.array][s.len + i] = xs[i]
    BY <2>10, <2>11, <2>14 DEF Array
  <2> HIDE DEF needed, cap
  <2> QED
    BY <2>8, <2>9, <2>12, <2>14, <2>15, <2>16, <2>17, <2>18 DEF Extended
<1> QED
  BY <1>1, <1>4, <1>5

(* Two arrays that begin alike.                                            *)
LEMMA SameBeginning ==
  ASSUME NEW S, NEW v \in Seq(S), NEW w \in Seq(S), NEW n \in 0..Len(v), n <= Len(w),
         \A i \in 1..n : v[i] = w[i]
  PROVE  SubSeq(v, 1, n) = SubSeq(w, 1, n)
<1>1. n \in 0..Len(w)
  OBVIOUS
<1> DEFINE a == SubSeq(v, 1, n)
           b == SubSeq(w, 1, n)
<1>2. a \in Seq(S) /\ Len(a) = n /\ \A i \in 1..n : a[i] = v[i]
  BY SubSeqOf
<1>3. b \in Seq(S) /\ Len(b) = n /\ \A i \in 1..n : b[i] = w[i]
  BY <1>1, SubSeqOf
<1> HIDE DEF a, b
<1>4. a = b
  BY <1>2, <1>3
<1> QED
  BY <1>4 DEF a, b

(* An array that begins with v and goes on with xs.                        *)
LEMMA TwoParts ==
  ASSUME NEW S, NEW c \in Seq(S), NEW v \in Seq(S), NEW xs \in Seq(S),
         Len(v) + Len(xs) <= Len(c),
         \A i \in 1..Len(v) : c[i] = v[i],
         \A i \in 1..Len(xs) : c[Len(v) + i] = xs[i]
  PROVE  SubSeq(c, 1, Len(v) + Len(xs)) = v \o xs
<1> DEFINE n == Len(v) + Len(xs)
           a == SubSeq(c, 1, n)
           b == v \o xs
<1>1. n \in 0..Len(c) /\ Len(v) \in Nat /\ Len(xs) \in Nat
  OBVIOUS
<1>2. a \in Seq(S) /\ Len(a) = n /\ \A i \in 1..n : a[i] = c[i]
  BY <1>1, SubSeqOf
<1>3. /\ b \in Seq(S) /\ Len(b) = n
      /\ \A i \in 1..Len(v) : b[i] = v[i]
      /\ \A i \in 1..Len(xs) : b[Len(v) + i] = xs[i]
  BY ConcatOf
<1>4. ASSUME NEW i \in 1..n PROVE a[i] = b[i]
  <2> HIDE DEF a, b
  <2>1. CASE i <= Len(v)
    BY <1>1, <1>2, <1>3, <2>1
  <2>2. CASE i > Len(v)
    <3>1. i - Len(v) \in 1..Len(xs) /\ Len(v) + (i - Len(v)) = i
      BY <1>1, <2>2
    <3>2. c[Len(v) + (i - Len(v))] = xs[i - Len(v)] /\ b[Len(v) + (i - Len(v))] = xs[i - Len(v)]
      BY <1>3, <3>1
    <3> QED
      BY <1>2, <3>1, <3>2
  <2> QED
    BY <1>1, <2>1, <2>2
<1> HIDE DEF a, b
<1>5. a = b
  BY <1>2, <1>3, <1>4
<1> QED
  BY <1>5 DEF a, b

---------------------------------------------------------------------------
(* Groups of the first level fill their arrays, unless they have very many *)
(* middlewares: nothing can be appended in place.  Whoever shares an array *)
(* with a group of the first two levels has at least as much of it, and so *)
(* writes behind it.                                                       *)
Levels ==
  \A g \in DOMAIN groups :
    /\ groups[g].depth = 0 => Len(Array(groups[g].slice)) = 0
    /\ groups[g].depth <= 1 /\ Len(groups[g].declared) <= Exact => Full(groups[g].slice)
    /\ groups[g].depth < Len(groups)
    /\ Shallow(groups[g]) =>
         /\ View(groups[g].slice) = groups[g].declared
         /\ \A h \in DOMAIN groups : groups[h].slice.array = groups[g].slice.array =>
              groups[g].slice.len <= groups[h].slice.len

Chains ==
  \A p \in DOMAIN routes :
    /\ routes[p].chain \in Seq(Kinds) /\ routes[p].method \in {"GET", "POST"}
    /\ Shallow(routes[p]) => routes[p].chain = routes[p].declared

Rest ==
  /\ Len(groups) <= MaxGroups \/ Len(groups) = 1
  /\ globals \in Seq(Kinds)
  /\ failed \in {"no", "timeout", "duplicate"}

RInv == Slices /\ Levels /\ Chains /\ Rest

(* The arrays hp are those of the heap, and more, with something written   *)
(* behind slice s.                                                         *)
Behind(hp, s) ==
  /\ hp \in Seq(Seq(Cell)) /\ Len(hp) >= Len(heap)
  /\ \A a \in DOMAIN heap :
       /\ Len(hp[a]) = Len(heap[a])
       /\ \A i \in DOMAIN heap[a] :
            hp[a][i] = heap[a][i] \/ (a = s.array /\ i > s.len /\ hp[a][i] # Nil)

(* What a group sees of them.                                              *)
Seen(hp, g, s) ==
  /\ s.array \in DOMAIN hp /\ s.len \in 0..Len(hp[s.array])
  /\ Len(hp[s.array]) = Len(heap[s.array])
  /\ \A i \in 1..s.len : hp[s.array][i] # Nil
  /\ Shallow(groups[g]) => SubSeq(hp[s.array], 1, s.len) = groups[g].declared

(* The groups there are keep what they see of their arrays when somebody   *)
(* appends to the slice of one of them.                                    *)
LEMMA OldGroups ==
  ASSUME Slices, Levels, NEW p \in DOMAIN groups, NEW hp, Behind(hp, groups[p].slice),
         NEW g \in DOMAIN groups, NEW s, s = groups[g].slice
  PROVE  Seen(hp, g, s)
<1>0. /\ hp \in Seq(Seq(Cell)) /\ Len(hp) >= Len(heap)
      /\ \A a \in DOMAIN heap :
           /\ Len(hp[a]) = Len(heap[a])
           /\ \A i \in DOMAIN heap[a] :
                \/ hp[a][i] = heap[a][i]
                \/ a = groups[p].slice.array /\ i > groups[p].slice.len /\ hp[a][i] # Nil
  BY DEF Behind
<1>1. /\ heap \in Seq(Seq(Cell)) /\ s.array \in DOMAIN heap /\ s.len \in 0..Len(heap[s.array])
      /\ \A i \in 1..s.len : heap[s.array][i] # Nil
  BY DEF Slices, Array
<1>2. s.array \in DOMAIN hp /\ heap[s.array] \in Seq(Cell) /\ hp[s.array] \in Seq(Cell)
  BY <1>0, <1>1
<1>3. Len(hp[s.array]) = Len(heap[s.array]) /\ DOMAIN heap[s.array] = 1..Len(heap[s.array])
  <2>1. Len(hp[s.array]) = Len(heap[s.array])
    BY <1>0, <1>1
  <2> QED
    BY <1>2, <2>1
<1>4. \A i \in 1..s.len : i \in DOMAIN heap[s.array]
  BY <1>1, <1>3
<1>5. \A i \in 1..s.len : hp[s.array][i] # Nil
  BY <1>0, <1>1, <1>4
<1>6. ASSUME Shallow(groups[g]) PROVE SubSeq(hp[s.array], 1, s.len) = groups[g].declared
  <2>1. s.array = groups[p].slice.array => s.len <= groups[p].slice.len
    BY <1>6 DEF Levels
  <2>2. groups[p].slice.len \in Nat /\ s.len \in Nat
    BY <1>1 DEF Slices, GroupType, Slice
  <2>3. \A i \in 1..s.len : hp[s.array][i] = heap[s.array][i]
    <3> SUFFICES ASSUME NEW i \in 1..s.len PROVE hp[s.array][i] = heap[s.array][i]
      OBVIOUS
    <3>1. \/ hp[s.array][i] = heap[s.array][i]
          \/ s.array = groups[p].slice.array /\ i > groups[p].slice.len
      BY <1>0, <1>1, <1>4
    <3>2. i <= s.len /\ i \in Nat
      BY <2>2
    <3> QED
      BY <2>1, <2>2, <3>1, <3>2
  <2>4. SubSeq(hp[s.array], 1, s.len) = SubSeq(heap[s.array], 1, s.len)
    BY <1>1, <1>2, <1>3, <2>3, SameBeginning
  <2>5. View(s) = groups[g].declared
    BY <1>6 DEF Levels
  <2> QED
    BY <2>4, <2>5 DEF View
<1> QED
  BY <1>1, <1>2, <1>3, <1>5, <1>6 DEF Seen

(* What Group and Register see of the slice they have extended.            *)
LEMMA NewView ==
  ASSUME Slices, Levels, NEW g \in DOMAIN groups, NEW xs \in Seq(Kinds),
         NEW s, s = groups[g].slice, NEW room \in Nat, room >= s.len + Len(xs),
         NEW e, e = Extend(s, xs, room)
  PROVE  /\ SubSeq(e.heap[e.slice.array], 1, e.slice.len) \in Seq(Kinds)
         /\ \A i \in 1..e.slice.len : e.heap[e.slice.array][i] # Nil
         /\ Shallow(groups[g]) =>
              SubSeq(e.heap[e.slice.array], 1, e.slice.len) = groups[g].declared \o xs
<1> DEFINE c == e.heap[e.slice.array]
           n == e.slice.len
<1>1. /\ c \in Seq(Cell) /\ n = s.len + Len(xs) /\ n <= Len(c)
      /\ \A i \in 1..s.len : c[i] = heap[s.array][i]
      /\ \A i \in 1..Len(xs) : c[s.len + i] = xs[i]
  <2>0. Extended(s, xs, room, e)
    BY ExtendCells
  <2>1. /\ e.heap \in Seq(Seq(Cell))
        /\ n = s.len + Len(xs) /\ n <= Len(c)
        /\ \A i \in 1..s.len : c[i] = heap[s.array][i]
        /\ \A i \in 1..Len(xs) : c[s.len + i] = xs[i]
    BY <2>0 DEF Extended, Array
  <2>2. e.slice.array \in DOMAIN e.heap
    <3>1. s.array \in DOMAIN heap /\ heap \in Seq(Seq(Cell))
      BY DEF Slices
    <3>2. \/ e.slice.array = s.array /\ Len(e.heap) = Len(heap)
          \/ e.slice.array = Len(heap) + 1 /\ Len(e.heap) = Len(heap) + 1
      BY <2>0 DEF Extended
    <3>3. \A hp \in Seq(Seq(Cell)) : DOMAIN hp = 1..Len(hp) /\ Len(hp) \in Nat
      OBVIOUS
    <3>4. CASE e.slice.array = s.array /\ Len(e.heap) = Len(heap)
      BY <2>1, <3>1, <3>3, <3>4
    <3>5. CASE e.slice.array = Len(heap) + 1 /\ Len(e.heap) = Len(heap) + 1
      BY <2>1, <3>1, <3>3, <3>5
    <3> QED
      BY <3>2, <3>4, <3>5
  <2>3. c \in Seq(Cell)
    <3>1. \A hp \in Seq(Seq(Cell)) : \A a \in DOMAIN hp : hp[a] \in Seq(Cell)
      OBVIOUS
    <3> QED
      BY <2>1, <2>2, <3>1
  <2> QED
    BY <2>1, <2>3
<1>2. /\ s.len \in Nat /\ Len(xs) \in Nat /\ s.len \in 0..Len(heap[s.array])
      /\ heap[s.array] \in Seq(Cell)
      /\ \A i \in 1..s.len : heap[s.array][i] # Nil
  <2>1. /\ s.array \in DOMAIN heap /\ heap \in Seq(Seq(Cell)) /\ s.len \in 0..Len(heap[s.array])
        /\ \A i \in 1..s.len : heap[s.array][i] # Nil
    BY DEF Slices, Array
  <2>2. heap[s.array] \in Seq(Cell)
    BY <2>1
  <2> QED
    BY <2>1, <2>2
<1> HIDE DEF c, n
<1>3. \A k \in Kinds : k # Nil
  BY DEF Kinds, Nil
<1>4. n \in 0..Len(c)
  BY <1>1, <1>2
<1>5. ASSUME NEW i \in 1..n PROVE c[i] \in Kinds /\ c[i] # Nil
  <2>1. CASE i <= s.len
    <3>1. c[i] = heap[s.array][i] /\ heap[s.array][i] # Nil /\ i \in 1..Len(c)
      BY <1>1, <1>2, <1>4, <2>1
    <3>2. c[i] \in Cell
      BY <1>1, <3>1
    <3> QED
      BY <3>1, <3>2 DEF Cell
  <2>2. CASE i > s.len
    <3>1. i - s.len \in 1..Len(xs) /\ s.len + (i - s.len) = i
      BY <1>1, <1>2, <2>2
    <3>2. c[i] = xs[i - s.len]
      BY <1>1, <3>1
    <3> QED
      BY <1>3, <3>1, <3>2
  <2> QED
    BY <1>2, <2>1, <2>2
<1>6. SubSeq(c, 1, n) \in Seq(Kinds)
  <2>1. /\ SubSeq(c, 1, n) \in Seq(Cell) /\ Len(SubSeq(c, 1, n)) = n
        /\ \A i \in 1..n : SubSeq(c, 1, n)[i] = c[i]
    BY <1>1, <1>4, SubSeqOf
  <2> DEFINE q == SubSeq(c, 1, n)
  <2>2. q \in Seq(Cell) /\ Len(q) = n /\ \A i \in 1..n : q[i] \in Kinds
    BY <1>5, <2>1
  <2> HIDE DEF q
  <2>3. q \in Seq(Kinds)
    BY <2>2
  <2> QED
    BY <2>3 DEF q
<1>7. ASSUME Shallow(groups[g]) PROVE SubSeq(c, 1, n) = groups[g].declared \o xs
  <2> DEFINE v == groups[g].declared
  <2>1. v = SubSeq(heap[s.array], 1, s.len)
    BY <1>7 DEF Levels, View
  <2>2. v \in Seq(Cell) /\ Len(v) = s.len /\ \A i \in 1..s.len : v[i] = heap[s.array][i]
    BY <1>2, <2>1, SubSeqOf
  <2> HIDE DEF v
  <2>3. xs \in Seq(Cell)
    BY DEF Cell
  <2>4. SubSeq(c, 1, Len(v) + Len(xs)) = v \o xs
    <3>1. /\ Len(v) + Len(xs) <= Len(c)
          /\ \A i \in 1..Len(v) : c[i] = v[i]
          /\ \A i \in 1..Len(xs) : c[Len(v) + i] = xs[i]
      BY <1>1, <2>2
    <3> QED
      BY <1>1, <2>2, <2>3, <3>1, TwoParts
  <2> QED
    BY <1>1, <2>2, <2>4 DEF v
<1> QED
  BY <1>5, <1>6, <1>7 DEF c, n

(* The invariant holds at the start: one group with an empty array.        *)
LEMMA RInvInit == Init => RInv
<1> SUFFICES ASSUME Init PROVE RInv
  OBVIOUS
<1>1. /\ heap = <<Cells(0)>> /\ routes = [p \in {} |-> <<>>] /\ failed = "no"
      /\ groups = <<[prefix |-> <<>>, slice |-> [array |-> 1, len |-> 0],
                     declared |-> <<>>, depth |-> 0]>>
      /\ globals \in {<<>>, createRouter(TRUE), createRouter(FALSE)}
  BY DEF Init, NewRouter
<1>2. Cells(0) \in Seq(Cell) /\ Len(Cells(0)) = 0
  BY DEF Cells
<1>3. heap \in Seq(Seq(Cell)) /\ heap[1] = Cells(0) /\ DOMAIN heap = 1..1
  BY <1>1, <1>2
<1>4. /\ groups \in Seq(GroupType) /\ DOMAIN groups = 1..1 /\ Len(groups) = 1
      /\ groups[1].slice = [array |-> 1, len |-> 0] /\ groups[1].depth = 0
      /\ groups[1].declared = <<>>
  BY <1>1 DEF GroupType, Slice
<1>5. Slices
  BY <1>2, <1>3, <1>4 DEF Slices, Array
<1>6. View(groups[1].slice) = <<>>
  BY <1>2, <1>3, <1>4, SubSeqOf DEF View
<1>7. Levels
  BY <1>2, <1>3, <1>4, <1>6 DEF Levels, Array, Full
<1>8. Chains
  BY <1>1 DEF Chains
<1>9. globals \in Seq(Kinds)
  <2>1. <<"altsvc", "logging", "cors">> \in Seq(Kinds)
    BY DEF Kinds
  <2>2. <<"altsvc", "logging">> \in Seq(Kinds) /\ <<>> \in Seq(Kinds)
    BY DEF Kinds
  <2> QED
    BY <1>1, <2>1, <2>2 DEF createRouter
<1> QED
  BY <1>1, <1>4, <1>5, <1>7, <1>8, <1>9 DEF RInv, Rest

(* A group is appended, and its slice with it.                             *)
LEMMA GroupStep ==
  ASSUME RInv, NEW g \in DOMAIN groups, NEW prefix \in Seq(STRING), NEW ms \in Seq(Kinds),
         Group(g, prefix, ms)
  PROVE  Slices' /\ Levels' /\ Len(groups') <= MaxGroups
<1> DEFINE s == groups[g].slice
<1>0. PICK room \in NewCaps(Len(heap[s.array]), Needed(s, ms)) :
        LET extended == Extend(s, ms, room) IN
          /\ heap' = extended.heap
          /\ groups' = Append(groups,
               [prefix   |-> groups[g].prefix \o prefix,
                slice    |-> extended.slice,
                declared |-> groups[g].declared \o ms,
                depth    |-> groups[g].depth + 1])
  BY DEF Group
<1> DEFINE e == Extend(s, ms, room)
           ng == [prefix |-> groups[g].prefix \o prefix, slice |-> e.slice,
                  declared |-> groups[g].declared \o ms, depth |-> groups[g].depth + 1]
           k == Len(groups) + 1
<1>1. heap' = e.heap /\ groups' = Append(groups, ng) /\ Len(groups) < MaxGroups
  BY <1>0 DEF Group
<1>14. /\ room \in Nat /\ room >= s.len + Len(ms)
       /\ s.len + Len(ms) <= Exact =>
            room \in NewCaps(Len(Array(s)), s.len + Len(ms))
  <2>1. s.len \in Nat /\ Len(ms) \in Nat
    BY DEF RInv, Slices, GroupType, Slice
  <2>2. Len(heap[s.array]) \in Nat
    BY DEF RInv, Slices
  <2>3. room \in NewCaps(Len(heap[s.array]), s.len + Len(ms))
    BY <1>0 DEF Needed
  <2> HIDE DEF s
  <2>4. room \in Nat /\ room >= s.len + Len(ms)
    BY <2>1, <2>2, <2>3, RouterAssumption DEF NewCaps
  <2> QED
    BY <2>3, <2>4 DEF Array
<1>2. /\ Extended(s, ms, room, e)
      /\ \A i \in 1..e.slice.len : e.heap[e.slice.array][i] # Nil
      /\ Shallow(groups[g]) =>
           SubSeq(e.heap[e.slice.array], 1, e.slice.len) = groups[g].declared \o ms
  BY <1>14, ExtendCells, NewView DEF RInv
<1>3. /\ groups \in Seq(GroupType) /\ groups[g] \in GroupType
      /\ heap \in Seq(Seq(Cell)) /\ s.array \in DOMAIN heap /\ s.len \in 0..Len(Array(s))
      /\ Array(s) \in Seq(Cell) /\ Levels /\ Slices
  <2>1. /\ groups \in Seq(GroupType) /\ groups[g] \in GroupType
        /\ heap \in Seq(Seq(Cell)) /\ s.array \in DOMAIN heap /\ s.len \in 0..Len(Array(s))
    BY DEF RInv, Slices
  <2>2. Array(s) \in Seq(Cell)
    BY <2>1 DEF Array
  <2> QED
    BY <2>1, <2>2 DEF RInv
<1> HIDE DEF e
<1>4. ng \in GroupType
  <2>1. e.slice \in Slice
    BY <1>2 DEF Extended
  <2>2. groups[g].prefix \o prefix \in Seq(STRING) /\ groups[g].declared \o ms \in Seq(Kinds)
        /\ groups[g].depth + 1 \in Nat
    <3>1. /\ groups[g].prefix \in Seq(STRING) /\ groups[g].declared \in Seq(Kinds)
          /\ groups[g].depth \in Nat
      BY <1>3 DEF GroupType
    <3> QED
      BY <3>1
  <2> QED
    BY <2>1, <2>2 DEF GroupType
<1>5. /\ ng.slice = e.slice /\ ng.depth = groups[g].depth + 1 /\ ng.declared = groups[g].declared \o ms
  OBVIOUS
<1> HIDE DEF ng
<1>6. /\ groups' \in Seq(GroupType) /\ Len(groups') = k /\ DOMAIN groups' = DOMAIN groups \cup {k}
      /\ k \notin DOMAIN groups /\ groups'[k] = ng /\ \A h \in DOMAIN groups : groups'[h] = groups[h]
      /\ k \in Nat
  BY SMTT(30), <1>1, <1>3, <1>4
<1> HIDE DEF k, s
<1>7. /\ heap' \in Seq(Seq(Cell)) /\ Len(heap') >= Len(heap) /\ Behind(heap', groups[g].slice)
      /\ \A a \in DOMAIN heap : Len(heap'[a]) = Len(heap[a])
  <2>1. /\ heap' \in Seq(Seq(Cell)) /\ Len(heap') >= Len(heap)
        /\ \A a \in DOMAIN heap :
             /\ Len(heap'[a]) = Len(heap[a])
             /\ \A i \in DOMAIN heap[a] :
                  heap'[a][i] = heap[a][i] \/ (a = s.array /\ i > s.len /\ heap'[a][i] # Nil)
    BY SMTT(30), <1>1, <1>2, <1>3 DEF Extended
  <2>2. Behind(heap', s)
    BY <2>1 DEF Behind
  <2> QED
    BY <2>1, <2>2 DEF s
<1>8. ASSUME NEW h \in DOMAIN groups, NEW t, t = groups[h].slice
      PROVE  /\ t.array \in DOMAIN heap /\ t.array \in DOMAIN heap'
             /\ t.len \in 0..Len(heap'[t.array])
             /\ Len(heap'[t.array]) = Len(heap[t.array])
             /\ \A i \in 1..t.len : heap'[t.array][i] # Nil
             /\ Shallow(groups[h]) => SubSeq(heap'[t.array], 1, t.len) = groups[h].declared
  <2>1. t.array \in DOMAIN heap
    BY <1>3, <1>8 DEF Slices
  <2> QED
    <3>1. Seen(heap', h, t)
      BY <1>3, <1>7, <1>8, OldGroups
    <3> QED
      BY <2>1, <3>1 DEF Seen
<1>9. /\ e.slice.array \in DOMAIN heap' /\ e.slice.len \in 0..Len(heap'[e.slice.array])
      /\ \A i \in 1..e.slice.len : heap'[e.slice.array][i] # Nil
  <2>1. e.slice.array \in DOMAIN heap'
    BY <1>1, <1>2, <1>3, <1>7 DEF Extended
  <2>2. heap'[e.slice.array] \in Seq(Cell) /\ e.slice.len \in Nat
    BY <1>2, <1>7, <2>1 DEF Extended, Slice
  <2> QED
    BY <1>1, <1>2, <2>1, <2>2 DEF Extended
<1>10. Slices'
  <2>1. ASSUME NEW h \in DOMAIN groups'
        PROVE  /\ groups'[h].slice.array \in DOMAIN heap'
               /\ groups'[h].slice.len \in 0..Len(heap'[groups'[h].slice.array])
               /\ \A i \in 1..groups'[h].slice.len : heap'[groups'[h].slice.array][i] # Nil
    <3>1. CASE h = k
      BY <1>5, <1>6, <1>9, <3>1
    <3>2. CASE h \in DOMAIN groups
      BY <1>6, <1>8, <3>2
    <3> QED
      BY <1>6, <3>1, <3>2
  <2> QED
    BY <1>6, <1>7, <2>1 DEF Slices, Array
<1>11. ASSUME NEW h \in DOMAIN groups, groups[h].slice.array = e.slice.array
       PROVE  e.slice.array = s.array /\ e.slice.len <= Len(Array(s))
  <2>1. groups[h].slice.array \in DOMAIN heap
    BY <1>8
  <2>2. e.slice.array # Len(heap) + 1
    BY <1>3, <1>11, <2>1
  <2> QED
    BY <1>2, <2>2 DEF Extended
<1>12. e.slice.len >= s.len /\ s.len \in Nat /\ e.slice.len \in Nat
  BY SMTT(30), <1>2, <1>3 DEF Extended, Slice
<1>13. ASSUME NEW h \in DOMAIN groups'
       PROVE  /\ groups'[h].depth = 0 => Len(heap'[groups'[h].slice.array]) = 0
              /\ groups'[h].depth <= 1 /\ Len(groups'[h].declared) <= Exact =>
                   groups'[h].slice.len = Len(heap'[groups'[h].slice.array])
              /\ groups'[h].depth < Len(groups')
              /\ Shallow(groups'[h]) =>
                   /\ SubSeq(heap'[groups'[h].slice.array], 1, groups'[h].slice.len)
                        = groups'[h].declared
                   /\ \A j \in DOMAIN groups' :
                        groups'[j].slice.array = groups'[h].slice.array =>
                          groups'[h].slice.len <= groups'[j].slice.len
  <2>1. CASE h \in DOMAIN groups
    <3>1. groups'[h] = groups[h] /\ groups[h].depth \in Nat /\ groups[h].slice.len \in Nat
      <4>1. groups[h] \in GroupType
        BY <1>3, <2>1
      <4> QED
        BY <1>6, <2>1, <4>1 DEF GroupType, Slice
    <3>2. Len(heap'[groups[h].slice.array]) = Len(heap[groups[h].slice.array])
      BY <1>8, <2>1
    <3>3. /\ groups[h].depth = 0 => Len(heap'[groups[h].slice.array]) = 0
          /\ groups[h].depth <= 1 /\ Len(groups[h].declared) <= Exact =>
               groups[h].slice.len = Len(heap'[groups[h].slice.array])
      BY <1>3, <2>1, <3>2 DEF Levels, Full, Array
    <3>4. groups[h].depth < Len(groups')
      <4>1. groups[h].depth < Len(groups) /\ Len(groups) \in Nat
        BY <1>3, <2>1 DEF Levels
      <4> QED
        BY <1>6, <3>1, <4>1 DEF k
    <3>5. ASSUME Shallow(groups[h]), NEW j \in DOMAIN groups',
                 groups'[j].slice.array = groups[h].slice.array
          PROVE  groups[h].slice.len <= groups'[j].slice.len
      <4>1. CASE j \in DOMAIN groups
        BY <1>3, <1>6, <2>1, <3>5, <4>1 DEF Levels
      <4>2. CASE j = k
        <5>1. e.slice.array = s.array /\ groups'[j].slice = e.slice
          BY <1>5, <1>6, <1>11, <2>1, <3>5, <4>2
        <5>2. groups[h].slice.len <= s.len
          BY <1>3, <2>1, <3>5, <5>1 DEF Levels, s
        <5> QED
          BY <1>12, <3>1, <5>1, <5>2
      <4> QED
        BY <1>6, <4>1, <4>2
    <3>6. Shallow(groups[h]) =>
            SubSeq(heap'[groups[h].slice.array], 1, groups[h].slice.len) = groups[h].declared
      BY <1>8, <2>1
    <3> QED
      BY <3>1, <3>3, <3>4, <3>5, <3>6
  <2>2. CASE h = k
    <3>1. /\ groups'[h].slice = e.slice /\ groups'[h].depth = groups[g].depth + 1
          /\ groups'[h].declared = groups[g].declared \o ms
          /\ groups[g].depth \in Nat
      BY <1>3, <1>5, <1>6, <2>2 DEF GroupType
    <3>2. groups[g].depth < Len(groups) /\ Len(groups) \in Nat
      BY <1>3 DEF Levels
    <3>3. groups'[h].depth < Len(groups')
      BY <1>6, <3>1, <3>2 DEF k
    <3>9. groups[g].declared \in Seq(Kinds) /\ Len(groups[g].declared) <= Len(groups[g].declared \o ms)
      <4>1. groups[g].declared \in Seq(Kinds)
        BY <1>3 DEF GroupType
      <4> QED
        BY <4>1, ConcatOf
    <3>4. ASSUME groups[g].depth = 0, Len(groups[g].declared \o ms) <= Exact
          PROVE  e.slice.len = Len(heap'[e.slice.array])
      <4>1. s.len = 0 /\ Len(Array(s)) = 0
        BY SMTT(30), <1>3, <3>4 DEF Levels, s
      <4>2. CASE e.slice.array = s.array /\ Len(e.heap) = Len(heap) /\ e.slice.len <= Len(Array(s))
        <5>1. Len(heap'[s.array]) = Len(heap[s.array]) /\ Len(heap[s.array]) = 0
          BY <1>3, <1>7, <4>1 DEF Array
        <5>2. e.slice.len = 0
          BY <1>12, <4>1, <4>2
        <5> QED
          BY <4>2, <5>1, <5>2
      <4>3. CASE e.slice.len > Len(Array(s)) /\ Len(e.heap[e.slice.array]) = room
        <5>1. e.slice.len = s.len + Len(ms) /\ Len(ms) \in Nat
          BY <1>2 DEF Extended
        <5>2. Len(groups[g].declared \o ms) = Len(groups[g].declared) + Len(ms)
          BY <3>9, ConcatOf
        <5>3. e.slice.len = Len(ms) /\ Len(ms) > 0 /\ Len(ms) <= Exact
          BY <3>4, <3>9, <4>1, <4>3, <5>1, <5>2 DEF Exact
        <5>4. room \in NewCaps(0, Len(ms))
          BY <1>14, <4>1, <5>1, <5>3
        <5>5. room = Len(ms)
          BY <5>1, <5>3, <5>4 DEF NewCaps
        <5> QED
          BY <1>1, <4>3, <5>3, <5>5
      <4> QED
        BY <1>2, <4>2, <4>3 DEF Extended
    <3>5. ASSUME Shallow(groups'[h])
          PROVE  /\ SubSeq(heap'[e.slice.array], 1, e.slice.len) = groups[g].declared \o ms
                 /\ \A j \in DOMAIN groups' : groups'[j].slice.array = e.slice.array =>
                      e.slice.len <= groups'[j].slice.len
      <4>1. /\ groups[g].depth <= 1 /\ Shallow(groups[g])
            /\ groups[g].depth = 0 \/ Len(groups[g].declared) <= Exact
        <5>1. Len(groups[g].declared) \in Nat /\ Len(groups[g].declared \o ms) \in Nat
          BY <3>9, ConcatOf
        <5> QED
          BY <3>1, <3>5, <3>9, <5>1 DEF Shallow, Exact
      <4>2. SubSeq(heap'[e.slice.array], 1, e.slice.len) = groups[g].declared \o ms
        BY <1>1, <1>2, <4>1
      <4>5. s.len = Len(Array(s))
        <5>1. CASE groups[g].depth = 0
          <6>1. Len(Array(s)) = 0
            BY <1>3, <5>1 DEF Levels, s
          <6> QED
            BY <1>3, <6>1
        <5>2. CASE Len(groups[g].declared) <= Exact
          BY <1>3, <4>1, <5>2 DEF Levels, Full, s
        <5> QED
          BY <4>1, <5>1, <5>2
      <4>3. ASSUME NEW j \in DOMAIN groups, groups[j].slice.array = e.slice.array
            PROVE  e.slice.len <= groups[j].slice.len
        <5>1. e.slice.array = s.array /\ e.slice.len <= Len(Array(s))
          BY <1>11, <4>3
        <5>2. s.len <= groups[j].slice.len
          BY <1>3, <4>1, <4>3, <5>1 DEF Levels, s
        <5> QED
          BY <1>12, <4>5, <5>1, <5>2
      <4>4. ASSUME NEW j \in DOMAIN groups', groups'[j].slice.array = e.slice.array
            PROVE  e.slice.len <= groups'[j].slice.len
        <5>1. CASE j \in DOMAIN groups
          BY <1>6, <4>3, <4>4, <5>1
        <5>2. CASE j = k
          BY <1>12, <2>2, <3>1, <5>2
        <5> QED
          BY <1>6, <5>1, <5>2
      <4> QED
        BY <4>2, <4>4
    <3>6. groups[g].depth + 1 <= 1 => groups[g].depth = 0
      BY <3>1
    <3>8. groups[g].depth + 1 # 0
      BY <3>1
    <3> QED
      BY <3>1, <3>3, <3>4, <3>5, <3>6, <3>8
  <2> QED
    BY <1>6, <2>1, <2>2
<1>16. Levels'
  BY <1>13 DEF Levels, Full, Array, View
<1>15. Len(groups') <= MaxGroups
  BY <1>1, <1>3, <1>6, RouterAssumption DEF k
<1> QED
  BY <1>10, <1>15, <1>16

(* A route reads its list from the extended slice, which only a group      *)
(* leaves behind in its array.                                             *)
LEMMA RegisterStep ==
  ASSUME RInv, NEW g \in DOMAIN groups, NEW method \in {"GET", "POST"}, NEW path,
         NEW ms \in Seq(Kinds), Register(g, method, path, ms)
  PROVE  Slices' /\ Levels' /\ Chains' /\ failed' \in {"no", "timeout", "duplicate"}
<1> DEFINE s    == groups[g].slice
           all  == Extend(s, ms, Needed(s, ms))
           list == SubSeq(all.heap[all.slice.array], 1, all.slice.len)
           full == groups[g].prefix \o path
           hp   == SubSeq(all.heap, 1, Len(heap))
<1>1. /\ heap' = IF g = 1 THEN heap ELSE hp
      /\ failed' = IF "timeout" \in ToSet(list) THEN "timeout"
                   ELSE IF full \in DOMAIN routes THEN "duplicate" ELSE "no"
      /\ routes' = IF failed' # "no" THEN routes
                   ELSE [p \in DOMAIN routes \cup {full} |->
                          IF p = full
                          THEN Route(method, list, groups[g].declared \o ms, groups[g].depth)
                          ELSE routes[p]]
      /\ groups' = groups
  BY DEF Register
<1>0. Needed(s, ms) \in Nat /\ Needed(s, ms) >= s.len + Len(ms)
  <2>1. groups[g] \in GroupType
    BY DEF RInv, Slices
  <2>2. s.len \in Nat /\ Len(ms) \in Nat
    BY <2>1 DEF GroupType, Slice
  <2> HIDE DEF s
  <2> QED
    BY <2>2 DEF Needed
<1>2. Extended(s, ms, Needed(s, ms), all)
  BY <1>0, ExtendCells DEF RInv
<1>3. list \in Seq(Kinds) /\ (Shallow(groups[g]) => list = groups[g].declared \o ms)
  BY <1>0, NewView DEF RInv
<1>4. /\ Slices /\ Levels /\ Chains /\ heap \in Seq(Seq(Cell)) /\ groups \in Seq(GroupType)
  BY DEF RInv, Slices
<1> HIDE DEF all, list, full
<1>5. /\ all.heap \in Seq(Seq(Cell)) /\ Len(heap) \in 0..Len(all.heap)
      /\ \A a \in DOMAIN heap :
           /\ Len(all.heap[a]) = Len(heap[a])
           /\ \A i \in DOMAIN heap[a] :
                all.heap[a][i] = heap[a][i] \/ (a = s.array /\ i > s.len /\ all.heap[a][i] # Nil)
  BY <1>2, <1>4 DEF Extended
<1>6. hp \in Seq(Seq(Cell)) /\ Len(hp) = Len(heap) /\ \A a \in DOMAIN heap : hp[a] = all.heap[a]
  <2>1. /\ hp \in Seq(Seq(Cell)) /\ Len(hp) = Len(heap)
        /\ \A a \in 1..Len(heap) : hp[a] = all.heap[a]
    BY <1>5, SubSeqOf
  <2> QED
    BY <1>4, <2>1
<1> HIDE DEF hp
<1>7. Behind(heap', groups[g].slice)
  <2>1. CASE g = 1
    BY <1>1, <1>4, <2>1 DEF Behind
  <2>2. CASE g # 1
    <3>1. heap' = hp
      BY <1>1, <2>2
    <3>2. \A a \in DOMAIN heap :
            /\ Len(hp[a]) = Len(heap[a])
            /\ \A i \in DOMAIN heap[a] :
                 hp[a][i] = heap[a][i] \/ (a = s.array /\ i > s.len /\ hp[a][i] # Nil)
      BY <1>5, <1>6
    <3>3. hp \in Seq(Seq(Cell)) /\ Len(hp) >= Len(heap)
      BY <1>4, <1>6
    <3>4. Behind(hp, s)
      BY <3>2, <3>3 DEF Behind
    <3> QED
      BY <3>1, <3>4
  <2> QED
    BY <2>1, <2>2
<1>8. ASSUME NEW h \in DOMAIN groups PROVE Seen(heap', h, groups[h].slice)
  BY <1>4, <1>7, OldGroups
<1>9. heap' \in Seq(Seq(Cell))
  BY <1>7 DEF Behind
<1>10. Slices'
  BY <1>1, <1>4, <1>8, <1>9 DEF Slices, Seen, Array
<1>11. ASSUME NEW h \in DOMAIN groups
       PROVE  /\ groups[h].depth = 0 => Len(heap'[groups[h].slice.array]) = 0
              /\ groups[h].depth <= 1 /\ Len(groups[h].declared) <= Exact =>
                   groups[h].slice.len = Len(heap'[groups[h].slice.array])
              /\ Shallow(groups[h]) =>
                   SubSeq(heap'[groups[h].slice.array], 1, groups[h].slice.len) = groups[h].declared
  BY <1>4, <1>8 DEF Seen, Levels, Full, Array
<1>12. Levels'
  BY <1>1, <1>4, <1>11 DEF Levels, Full, Array, View
<1>13. Chains'
  <2>1. CASE failed' # "no"
    BY <1>1, <1>4, <2>1 DEF Chains, Shallow
  <2>2. CASE failed' = "no"
    <3>1. DOMAIN routes' = DOMAIN routes \cup {full}
      BY <1>1, <2>2
    <3>2. ASSUME NEW p \in DOMAIN routes, p # full PROVE routes'[p] = routes[p]
      BY <1>1, <2>2, <3>2
    <3>3. routes'[full] = Route(method, list, groups[g].declared \o ms, groups[g].depth)
      BY <1>1, <2>2
    <3>4. /\ routes'[full].chain = list /\ routes'[full].method = method
          /\ routes'[full].declared = groups[g].declared \o ms /\ routes'[full].depth = groups[g].depth
      BY <3>3 DEF Route, wrapHandler
    <3>5. ASSUME NEW p \in DOMAIN routes'
          PROVE  /\ routes'[p].chain \in Seq(Kinds) /\ routes'[p].method \in {"GET", "POST"}
                 /\ Shallow(routes'[p]) => routes'[p].chain = routes'[p].declared
      <4>1. CASE p = full
        <5>1. groups[g].declared \in Seq(Kinds)
          <6>1. groups[g] \in GroupType
            BY <1>4
          <6> QED
            BY <6>1 DEF GroupType
        <5>2. /\ Len(groups[g].declared) <= Len(groups[g].declared \o ms)
              /\ Len(groups[g].declared) \in Nat /\ Len(groups[g].declared \o ms) \in Nat
          BY <5>1, ConcatOf
        <5>3. Shallow(routes'[full]) => Shallow(groups[g])
          BY <3>4, <5>2 DEF Shallow, Exact
        <5> QED
          BY <1>3, <3>4, <4>1, <5>3
      <4>2. CASE p # full
        BY <1>4, <3>1, <3>2, <4>2 DEF Chains, Shallow
      <4> QED
        BY <4>1, <4>2
    <3> QED
      BY <3>5 DEF Chains, Shallow
  <2> QED
    BY <2>1, <2>2
<1> QED
  BY <1>1, <1>10, <1>12, <1>13

(* The registrars' routes have no middlewares.                             *)
LEMMA RegistrarStep ==
  ASSUME RInv, RegisterHealth \/ RegisterAPI
  PROVE  RInv'
<1>1. ASSUME UNCHANGED <<heap, groups, globals>>, failed' \in {"no", "timeout", "duplicate"},
             NEW paths, NEW depth \in Nat,
             routes' = [p \in DOMAIN routes \cup paths |->
                         IF p \in paths THEN Route("GET", <<>>, <<>>, depth) ELSE routes[p]]
      PROVE  RInv'
  <2>1. /\ Route("GET", <<>>, <<>>, depth).chain = <<>> /\ <<>> \in Seq(Kinds)
        /\ Route("GET", <<>>, <<>>, depth).declared = <<>>
        /\ Route("GET", <<>>, <<>>, depth).method = "GET"
    BY DEF Route, wrapHandler
  <2>2. Chains'
    BY <1>1, <2>1 DEF RInv, Chains, Shallow
  <2>3. Slices' /\ Levels' /\ Rest'
    BY <1>1 DEF RInv, Slices, Levels, Rest, Array, Full, View
  <2> QED
    BY <2>2, <2>3 DEF RInv
<1>2. CASE RegisterHealth
  <2>1. /\ UNCHANGED <<heap, groups, globals>> /\ failed' \in {"no", "timeout", "duplicate"}
        /\ routes' = [p \in DOMAIN routes \cup HealthPaths |->
                       IF p \in HealthPaths THEN Route("GET", <<>>, <<>>, 0) ELSE routes[p]]
    BY <1>2 DEF RegisterHealth, RInv, Rest
  <2>2. 0 \in Nat
    OBVIOUS
  <2> HIDE DEF HealthPaths
  <2> QED
    BY <1>1, <2>1, <2>2
<1>3. CASE RegisterAPI
  <2>1. /\ UNCHANGED <<heap, groups, globals>> /\ failed' \in {"no", "timeout", "duplicate"}
        /\ routes' = [p \in DOMAIN routes \cup APIPaths |->
                       IF p \in APIPaths THEN Route("GET", <<>>, <<>>, 1) ELSE routes[p]]
    BY <1>3 DEF RegisterAPI
  <2>2. 1 \in Nat
    OBVIOUS
  <2> QED
    BY <1>1, <2>1, <2>2
<1> QED
  BY <1>2, <1>3

(* It is inductive: only Group and Register touch the arrays.              *)
LEMMA RInvNext == RInv /\ [Next]_vars => RInv'
<1> SUFFICES ASSUME RInv, [Next]_vars PROVE RInv'
  OBVIOUS
<1>1. ASSUME NEW g \in DOMAIN groups, NEW p \in GroupPrefixes, NEW ms \in Arguments, Group(g, p, ms)
      PROVE  RInv'
  <2>1. p \in Seq(STRING) /\ ms \in Seq(Kinds)
    BY RouterAssumption
  <2>2. Slices' /\ Levels' /\ Len(groups') <= MaxGroups
    BY <1>1, <2>1, GroupStep
  <2>3. UNCHANGED <<routes, globals, failed>>
    BY <1>1 DEF Group
  <2> QED
    BY <2>2, <2>3 DEF RInv, Chains, Rest, Shallow
<1>2. ASSUME NEW g \in DOMAIN groups, NEW m \in {"GET", "POST"}, NEW p \in RoutePaths,
             NEW ms \in Arguments, Register(g, m, p, ms)
      PROVE  RInv'
  <2>1. ms \in Seq(Kinds)
    BY RouterAssumption
  <2>2. Slices' /\ Levels' /\ Chains' /\ failed' \in {"no", "timeout", "duplicate"}
    BY <1>2, <2>1, RegisterStep
  <2>3. UNCHANGED <<groups, globals>>
    BY <1>2 DEF Register
  <2> QED
    BY <2>2, <2>3 DEF RInv, Rest
<1>3. ASSUME NEW kind \in Kinds, WithMiddleware(kind) PROVE RInv'
  <2>1. globals' \in Seq(Kinds)
    BY <1>3 DEF WithMiddleware, RInv, Rest
  <2> QED
    BY <1>3, <2>1 DEF WithMiddleware, RInv, Rest, Slices, Levels, Chains, Array, Full, View, Shallow
<1>4. CASE UNCHANGED vars
  BY <1>4 DEF vars, RInv, Rest, Slices, Levels, Chains, Array, Full, View, Shallow
<1> QED
  BY <1>1, <1>2, <1>3, <1>4, RegistrarStep DEF Next

(* ... and holds throughout.                                               *)
LEMMA RInvAlways == Spec => []RInv
BY RInvInit, RInvNext, PTL DEF Spec

(* The types; no slice holds a middleware that is nil.                     *)
THEOREM TypeCorrect == Spec => []TypeOK
<1>1. ASSUME RInv PROVE TypeOK
  <2>1. /\ heap \in Seq(Seq(Cell)) /\ groups \in Seq(GroupType) /\ Len(groups) \in Nat
    BY <1>1 DEF RInv, Slices
  <2>2. ASSUME NEW g \in DOMAIN groups
        PROVE  /\ groups[g].slice.array \in DOMAIN heap
               /\ groups[g].slice.len \in 0..Len(heap[groups[g].slice.array])
               /\ Nil \notin ToSet(View(groups[g].slice))
               /\ groups[g].declared \in Seq(Kinds)
               /\ groups[g].depth \in 0..MaxGroups
    <3> DEFINE s == groups[g].slice
    <3>1. /\ s.array \in DOMAIN heap /\ s.len \in 0..Len(heap[s.array])
          /\ \A i \in 1..s.len : heap[s.array][i] # Nil
      BY <1>1 DEF RInv, Slices, Array
    <3>2. heap[s.array] \in Seq(Cell)
      BY <2>1, <3>1
    <3>3. Len(View(s)) = s.len /\ \A i \in 1..s.len : View(s)[i] = heap[s.array][i]
      BY <3>1, <3>2, SubSeqOf DEF View
    <3>4. View(s) \in Seq(Cell)
      BY <3>1, <3>2, SubSeqOf DEF View
    <3>5. Nil \notin ToSet(View(s))
      BY <3>1, <3>3, <3>4 DEF ToSet
    <3>6. groups[g] \in GroupType
      BY <2>1
    <3>7. groups[g].declared \in Seq(Kinds) /\ groups[g].depth \in Nat
      BY <3>6 DEF GroupType
    <3>8. groups[g].depth \in 0..MaxGroups
      BY SMTT(30), <1>1, <2>1, <3>7, RouterAssumption DEF RInv, Levels, Rest
    <3> QED
      BY <3>1, <3>5, <3>7, <3>8
  <2>3. \A a \in DOMAIN heap : heap[a] \in Seq(Kinds \cup {Nil})
    BY <2>1 DEF Cell
  <2> QED
    BY <1>1, <2>2, <2>3 DEF TypeOK, RInv, Chains, Rest
<1> QED
  BY <1>1, RInvAlways, PTL

(* Groups of the first level have the middlewares they declared, and those *)
(* of the second level if they are no more than Exact, whatever is         *)
(* appended to arrays they share.                                          *)
THEOREM GroupsKeepTheirs == Spec => []ShallowGroupsIntact
<1>1. RInv => ShallowGroupsIntact
  BY DEF RInv, Levels, ShallowGroupsIntact
<1> QED
  BY <1>1, RInvAlways, PTL

(* ... and so have their routes.                                           *)
THEOREM RoutesKeepTheirs == Spec => []RoutesAsDeclared
<1>1. RInv => RoutesAsDeclared
  BY DEF RInv, Chains, RoutesAsDeclared
<1> QED
  BY <1>1, RInvAlways, PTL

---------------------------------------------------------------------------
(* What FoldRight computes with the middlewares of a chain.                *)
LEMMA Smallest ==
  ASSUME NEW n \in Nat, NEW s \in SUBSET (1..n), s # {}
  PROVE  Min(s) \in s /\ \A i \in s : Min(s) <= i
<1> DEFINE M == {m \in Nat : \A i \in s : m <= i}
<1>1. \E m \in s : \A i \in s : m <= i
  <2> SUFFICES ASSUME \A m \in s : \E i \in s : ~ (m <= i) PROVE FALSE
    OBVIOUS
  <2>1. 0 \in M
    OBVIOUS
  <2>2. ASSUME NEW m \in Nat, m \in M PROVE m + 1 \in M
    <3>1. m \notin s
      BY <2>2
    <3> QED
      BY <2>2, <3>1
  <2>3. \A m \in Nat : m \in M => m + 1 \in M
    BY <2>2
  <2> HIDE DEF M
  <2>4. Nat \subseteq M
    BY <2>1, <2>3, Induction
  <2>5. n + 1 \in M
    BY <2>4
  <2>6. PICK i \in s : TRUE
    OBVIOUS
  <2>7. i \in 1..n /\ n + 1 <= i
    BY <2>5, <2>6 DEF M
  <2> QED
    BY <2>7
<1> QED
  BY <1>1 DEF Min

(* The fold over the positions of a set, from the last to the first.       *)
Folding(D, chain, method, inner, f) ==
  f = [s \in SUBSET D |->
         IF s = {} THEN inner ELSE Handle(chain[Min(s)], method, f[s \ {Min(s)}])]

LEMMA FoldingExists ==
  ASSUME NEW chain \in Seq(Kinds), NEW method, NEW inner
  PROVE  \E f : Folding(1..Len(chain), chain, method, inner, f)
<1> DEFINE n == Len(chain)
           M == {m \in Nat : m <= n => \E f : Folding((n - m + 1)..n, chain, method, inner, f)}
<1>1. 0 \in M
  <2> DEFINE f == [s \in SUBSET {} |-> inner]
  <2>1. Folding({}, chain, method, inner, f)
    BY DEF Folding
  <2>2. (n - 0 + 1)..n = {}
    OBVIOUS
  <2> QED
    BY <2>1, <2>2
<1>2. ASSUME NEW m \in Nat, m \in M PROVE m + 1 \in M
  <2> SUFFICES ASSUME m + 1 <= n
               PROVE  \E f : Folding((n - (m + 1) + 1)..n, chain, method, inner, f)
    OBVIOUS
  <2> DEFINE D == (n - m + 1)..n
             E == (n - (m + 1) + 1)..n
  <2>1. PICK g : Folding(D, chain, method, inner, g)
    BY <1>2
  <2> DEFINE f == [s \in SUBSET E |->
                    IF s = {} THEN inner ELSE Handle(chain[Min(s)], method, g[s \ {Min(s)}])]
  <2>2. D \subseteq E /\ E \subseteq 1..n /\ \A i \in E : i >= n - m /\ (i # n - m => i \in D)
    OBVIOUS
  <2>3. ASSUME NEW s \in SUBSET E, s # {} PROVE s \ {Min(s)} \in SUBSET D
    <3>0. n \in Nat /\ s \in SUBSET (1..n)
      BY <2>2
    <3> HIDE DEF n
    <3>1. Min(s) \in s /\ \A i \in s : Min(s) <= i
      BY <2>3, <3>0, Smallest
    <3>2. Min(s) \in 1..n /\ Min(s) >= n - m /\ \A i \in s : i \in 1..n
      BY <2>2, <3>0, <3>1
    <3>3. \A i \in s : i # Min(s) => i # n - m
      BY <3>0, <3>1, <3>2
    <3> QED
      BY <2>2, <3>3
  <2> HIDE DEF D, E
  <2>4. \A s \in SUBSET D : f[s] = g[s]
    <3>1. \A s \in SUBSET D : s \in SUBSET E
      BY <2>2
    <3>2. \A s \in SUBSET D : g[s] = IF s = {} THEN inner
                                     ELSE Handle(chain[Min(s)], method, g[s \ {Min(s)}])
      BY <2>1 DEF Folding
    <3> QED
      BY <3>1, <3>2
  <2>5. ASSUME NEW s \in SUBSET E
        PROVE  f[s] = IF s = {} THEN inner ELSE Handle(chain[Min(s)], method, f[s \ {Min(s)}])
    <3>1. f[s] = IF s = {} THEN inner ELSE Handle(chain[Min(s)], method, g[s \ {Min(s)}])
      OBVIOUS
    <3> HIDE DEF f
    <3>2. s # {} => f[s \ {Min(s)}] = g[s \ {Min(s)}]
      BY <2>3, <2>4
    <3> QED
      BY <3>1, <3>2
  <2>6. f = [s \in SUBSET E |-> f[s]]
    OBVIOUS
  <2> HIDE DEF f
  <2>7. Folding(E, chain, method, inner, f)
    BY <2>5, <2>6 DEF Folding
  <2> QED
    BY <2>7 DEF E
<1>3. \A m \in Nat : m \in M => m + 1 \in M
  BY <1>2
<1> HIDE DEF M
<1>4. Nat \subseteq M
  BY <1>1, <1>3, Induction
<1>5. n \in Nat /\ n \in M /\ n - n + 1 = 1
  BY <1>4
<1>6. \E f : Folding((n - n + 1)..n, chain, method, inner, f)
  BY <1>5 DEF M
<1> QED
  BY <1>5, <1>6

(* The answers a request has on its way out through the chain.             *)
LEMMA ThroughSteps ==
  ASSUME NEW chain \in Seq(Kinds), NEW method, NEW inner
  PROVE  \E h : /\ h[1] = Through(chain, method, inner)
                /\ h[Len(chain) + 1] = inner
                /\ \A i \in 1..Len(chain) : h[i] = Handle(chain[i], method, h[i + 1])
<1> DEFINE n == Len(chain)
           F == CHOOSE f : Folding(1..n, chain, method, inner, f)
<1>1. Folding(1..n, chain, method, inner, F)
  BY FoldingExists
<1>2. Through(chain, method, inner) = F[1..n]
  <2>1. DOMAIN chain = 1..n
    OBVIOUS
  <2> QED
    BY <2>1 DEF Through, FoldRight, MapThenFoldSet, Folding
<1> HIDE DEF F
<1> DEFINE h == [i \in 1..(n + 1) |-> F[i..n]]
<1>3. h[1] = Through(chain, method, inner)
  BY <1>2
<1>4. h[n + 1] = inner
  <2>1. (n + 1)..n = {}
    OBVIOUS
  <2>2. F[{}] = inner
    BY <1>1 DEF Folding
  <2> QED
    BY <2>1, <2>2
<1>5. ASSUME NEW i \in 1..n PROVE h[i] = Handle(chain[i], method, h[i + 1])
  <2>1. i..n \in SUBSET (1..n) /\ i..n # {} /\ i \in i..n /\ \A j \in i..n : i <= j
    OBVIOUS
  <2>2. Min(i..n) = i
    <3>0. n \in Nat
      OBVIOUS
    <3> HIDE DEF n
    <3>1. Min(i..n) \in i..n /\ \A j \in i..n : Min(i..n) <= j
      BY <2>1, <3>0, Smallest
    <3> QED
      BY <2>1, <3>1
  <2>3. (i..n) \ {i} = (i + 1)..n
    OBVIOUS
  <2>4. F[i..n] = Handle(chain[Min(i..n)], method, F[(i..n) \ {Min(i..n)}])
    BY <1>1, <2>1 DEF Folding
  <2>5. h[i] = F[i..n] /\ h[i + 1] = F[(i + 1)..n]
    OBVIOUS
  <2> QED
    BY <2>2, <2>3, <2>4, <2>5
<1> HIDE DEF h
<1> QED
  BY <1>3, <1>4, <1>5

(* If every handler turns an answer of A into one of A and one of G into   *)
(* one of G, and the chain has a handler that turns all of A into G, the   *)
(* chain does so too.                                                      *)
LEMMA ThroughInto ==
  ASSUME NEW chain \in Seq(Kinds), NEW method, NEW A, NEW G, NEW inner \in A,
         \A kind \in Kinds : \A a \in A : Handle(kind, method, a) \in A,
         \A kind \in Kinds : \A a \in G : Handle(kind, method, a) \in G,
         \/ inner \in G
         \/ \E kind \in ToSet(chain) : \A a \in A : Handle(kind, method, a) \in G
  PROVE  Through(chain, method, inner) \in G
<1> DEFINE n == Len(chain)
<1>0. n \in Nat /\ \A i \in 1..n : chain[i] \in Kinds
  OBVIOUS
<1>1. PICK h : /\ h[1] = Through(chain, method, inner)
               /\ h[n + 1] = inner
               /\ \A i \in 1..n : h[i] = Handle(chain[i], method, h[i + 1])
  BY ThroughSteps
<1> HIDE DEF n
<1>2. \A i \in 1..n : h[i + 1] \in A => h[i] \in A
  BY <1>0, <1>1
<1>3. \A i \in 1..n : h[i + 1] \in G => h[i] \in G
  BY <1>0, <1>1
<1>4. ASSUME NEW S, \A i \in 1..n : h[i + 1] \in S => h[i] \in S,
             NEW k \in 1..(n + 1), h[k] \in S
      PROVE  \A i \in 1..k : h[i] \in S
  <2> DEFINE M == {m \in Nat : m < k => h[k - m] \in S}
  <2>1. 0 \in M
    <3>1. k - 0 = k
      BY <1>0
    <3> QED
      BY <1>4, <3>1
  <2>2. ASSUME NEW m \in Nat, m \in M PROVE m + 1 \in M
    <3> SUFFICES ASSUME m + 1 < k PROVE h[k - (m + 1)] \in S
      OBVIOUS
    <3> DEFINE j == k - (m + 1)
    <3>1. j \in 1..n /\ j + 1 = k - m
      BY <1>0
    <3>2. h[j + 1] \in S
      BY <1>0, <2>2, <3>1
    <3> HIDE DEF j
    <3>3. h[j] \in S
      BY <1>4, <3>1, <3>2
    <3> QED
      BY <3>3 DEF j
  <2>3. \A m \in Nat : m \in M => m + 1 \in M
    BY <2>2
  <2> HIDE DEF M
  <2>4. Nat \subseteq M
    BY <2>1, <2>3, Induction
  <2>5. ASSUME NEW i \in 1..k PROVE h[i] \in S
    <3>1. k - i \in Nat /\ k - i < k /\ k - (k - i) = i
      BY <1>0
    <3>2. k - i \in M
      BY <2>4, <3>1
    <3>3. h[k - (k - i)] \in S
      BY <3>1, <3>2 DEF M
    <3> QED
      BY <3>1, <3>3
  <2> QED
    BY <2>5
<1>5. CASE inner \in G
  <2>1. n + 1 \in 1..(n + 1) /\ 1 \in 1..(n + 1) /\ h[n + 1] \in G
    BY <1>0, <1>1, <1>5
  <2>2. \A i \in 1..(n + 1) : h[i] \in G
    BY <1>3, <1>4, <2>1
  <2> QED
    BY <1>1, <2>1, <2>2
<1>6. CASE \E kind \in ToSet(chain) : \A a \in A : Handle(kind, method, a) \in G
  <2>1. PICK i \in 1..n : \A a \in A : Handle(chain[i], method, a) \in G
    BY <1>6 DEF n, ToSet
  <2>2. n + 1 \in 1..(n + 1) /\ h[n + 1] \in A
    BY <1>0, <1>1
  <2>3. \A j \in 1..(n + 1) : h[j] \in A
    BY <1>2, <1>4, <2>2
  <2>4. i + 1 \in 1..(n + 1) /\ i \in 1..(n + 1) /\ 1 \in 1..i
    BY <1>0
  <2>5. h[i] \in G
    BY <1>1, <2>1, <2>3, <2>4
  <2>6. \A j \in 1..i : h[j] \in G
    BY <1>3, <1>4, <2>4, <2>5
  <2> QED
    BY <1>1, <2>4, <2>6
<1> QED
  BY <1>5, <1>6

---------------------------------------------------------------------------
(* Answers: nothing is written only if a handler panics or is too slow.    *)
Answers ==
  {a \in [written : Seq(Nat), panics : BOOLEAN, slow : BOOLEAN, logged : SUBSET Nat] :
     a.written = <<>> => a.panics \/ a.slow}

(* The answer to a preflight request; no panic; what is logged was sent.   *)
Preflight == {a \in Answers : a.written = <<204>> /\ ~a.panics /\ ~a.slow}
Calm      == {a \in Answers : ~a.panics}
Truthful  ==
  {a \in Answers : /\ ~a.slow /\ Len(a.written) <= 1
                   /\ a.panics => a.written = <<>> /\ a.logged = {}
                   /\ ~a.panics => a.logged \subseteq {Sent(a)}}

LEMMA OneStatus ==
  ASSUME NEW status \in Nat
  PROVE  /\ <<status>> \in Seq(Nat) /\ <<status>> # <<>>
         /\ Len(<<status>>) = 1 /\ Head(<<status>>) = status
<1>1. <<status>> \in Seq(Nat) /\ Len(<<status>>) = 1 /\ Head(<<status>>) = status
  OBVIOUS
<1>2. Len(<<>>) = 0
  OBVIOUS
<1> QED
  BY <1>1, <1>2

LEMMA NoStatus == <<>> \in Seq(Nat) /\ Len(<<>>) = 0
OBVIOUS

LEMMA StatusAnswer ==
  ASSUME NEW status \in Nat
  PROVE  Answer(status) \in Answers /\ Answer(status) \in Calm /\ Answer(status) \in Truthful
<1> DEFINE b == Answer(status)
<1>1. /\ b \in [written : Seq(Nat), panics : BOOLEAN, slow : BOOLEAN, logged : SUBSET Nat]
      /\ b.written = <<status>> /\ ~ b.panics /\ ~ b.slow /\ b.logged = {}
  BY OneStatus DEF Answer
<1> HIDE DEF b
<1>2. b \in Answers
  BY <1>1, OneStatus DEF Answers
<1>3. Len(b.written) <= 1
  BY <1>1, OneStatus
<1> QED
  BY <1>1, <1>2, <1>3 DEF Calm, Truthful, b

LEMMA HandlerAnswer ==
  /\ \A does \in Behaviours : Handler(does) \in Answers
  /\ \A does \in {"answers", "panics"} : Handler(does) \in Truthful
<1>1. ASSUME NEW does \in Behaviours
      PROVE  /\ Handler(does) \in Answers
             /\ Handler(does).written = IF does \in {"answers", "answersThenPanics"} THEN <<200>> ELSE <<>>
             /\ Handler(does).panics <=> does \in {"panics", "answersThenPanics"}
             /\ Handler(does).slow <=> does = "tooSlow"
             /\ Handler(does).logged = {}
  <2> DEFINE b == Handler(does)
  <2>1. /\ <<200>> \in Seq(Nat) /\ <<200>> # <<>> /\ <<>> \in Seq(Nat)
    BY OneStatus, NoStatus
  <2>2. /\ b \in [written : Seq(Nat), panics : BOOLEAN, slow : BOOLEAN, logged : SUBSET Nat]
        /\ b.written = IF does \in {"answers", "answersThenPanics"} THEN <<200>> ELSE <<>>
        /\ b.panics <=> does \in {"panics", "answersThenPanics"}
        /\ b.slow <=> does = "tooSlow"
        /\ b.logged = {}
    <3> DEFINE w == IF does \in {"answers", "answersThenPanics"} THEN <<200>> ELSE <<>>
           x == does \in {"panics", "answersThenPanics"}
           y == does = "tooSlow"
    <3>1. w \in Seq(Nat) /\ x \in BOOLEAN /\ y \in BOOLEAN
      BY <2>1
    <3>2. b = [written |-> w, panics |-> x, slow |-> y, logged |-> {}]
      BY DEF Handler
    <3> HIDE DEF b, w, x, y
    <3>3. /\ b \in [written : Seq(Nat), panics : BOOLEAN, slow : BOOLEAN, logged : SUBSET Nat]
          /\ b.written = w /\ b.panics = x /\ b.slow = y /\ b.logged = {}
      BY <3>1, <3>2
    <3> QED
      BY <3>3 DEF w, x, y
  <2> HIDE DEF b
  <2>3. b.written = <<>> => b.panics \/ b.slow
    BY <2>1, <2>2 DEF Behaviours
  <2>4. b \in Answers
    BY <2>2, <2>3 DEF Answers
  <2> QED
    BY <2>2, <2>4 DEF b
<1>2. ASSUME NEW does \in {"answers", "panics"} PROVE Handler(does) \in Truthful
  <2> DEFINE b == Handler(does)
  <2>1. /\ b \in Answers /\ ~ b.slow /\ b.logged = {}
        /\ b.written = <<200>> \/ b.written = <<>>
        /\ b.panics => b.written = <<>>
    BY <1>1, <1>2 DEF Behaviours
  <2> HIDE DEF b
  <2>2. Len(b.written) <= 1
    <3>1. Len(<<200>>) = 1 /\ Len(<<>>) = 0
      BY OneStatus, NoStatus
    <3> DEFINE n == Len(b.written)
    <3>2. n \in {0, 1}
      BY <2>1, <3>1
    <3> HIDE DEF n
    <3>3. n <= 1
      BY <3>2
    <3> QED
      BY <3>3 DEF n
  <2> QED
    BY <2>1, <2>2 DEF Truthful, b
<1> QED
  BY <1>1, <1>2

LEMMA PreflightSent == \A a \in Preflight : Sent(a) = 204
BY OneStatus DEF Preflight, Sent

(* What the single middlewares make of an answer.                          *)
LEMMA LoggingAnswer ==
  ASSUME NEW a \in Answers
  PROVE  /\ RequestLogging(a) \in Answers
         /\ a \in Preflight => RequestLogging(a) \in Preflight
         /\ a \in Calm => RequestLogging(a) \in Calm
         /\ a \in Truthful => RequestLogging(a) \in Truthful
<1>1. CASE a.panics
  BY <1>1 DEF RequestLogging
<1>2. CASE ~ a.panics
  <2> DEFINE status == IF a.written = <<>> THEN 200 ELSE Last(a.written)
             b == RequestLogging(a)
  <2>1. b = [a EXCEPT !.logged = a.logged \cup {status}]
    BY <1>2 DEF RequestLogging
  <2>2. status \in Nat
    BY DEF Answers, Last
  <2>3. /\ b \in [written : Seq(Nat), panics : BOOLEAN, slow : BOOLEAN, logged : SUBSET Nat]
        /\ b.written = a.written /\ b.panics = a.panics /\ b.slow = a.slow
        /\ b.logged = a.logged \cup {status}
    BY <2>1, <2>2 DEF Answers
  <2>4. ASSUME a \in Truthful PROVE status = Sent(a) /\ Sent(b) = Sent(a)
    BY <1>2, <2>3, <2>4 DEF Truthful, Answers, Sent, Last
  <2> HIDE DEF b, status
  <2>5. b \in Answers
    BY <2>3 DEF Answers
  <2>6. a \in Truthful => b \in Truthful
    BY <1>2, <2>3, <2>4, <2>5 DEF Truthful
  <2>7. (a \in Preflight => b \in Preflight) /\ (a \in Calm => b \in Calm)
    BY <2>3, <2>5 DEF Preflight, Calm
  <2> QED
    BY <2>5, <2>6, <2>7 DEF b
<1> QED
  BY <1>1, <1>2

LEMMA RecoveryAnswer ==
  ASSUME NEW a \in Answers
  PROVE  /\ Recovery(a) \in Answers /\ Recovery(a) \in Calm
         /\ a \in Preflight => Recovery(a) \in Preflight
         /\ a \in Truthful => Recovery(a) \in Truthful
<1>1. CASE ~ a.panics
  BY <1>1 DEF Recovery, Calm
<1>2. CASE a.panics
  <2> DEFINE b == Recovery(a)
  <2>1. b = [a EXCEPT !.written = Append(a.written, 500), !.panics = FALSE]
    BY <1>2 DEF Recovery
  <2>2. Append(a.written, 500) \in Seq(Nat) /\ Append(a.written, 500) # <<>>
    BY DEF Answers
  <2>3. /\ b \in [written : Seq(Nat), panics : BOOLEAN, slow : BOOLEAN, logged : SUBSET Nat]
        /\ b.written = Append(a.written, 500) /\ ~ b.panics /\ b.slow = a.slow
        /\ b.logged = a.logged
    <3> DEFINE w == Append(a.written, 500)
    <3>1. a \in [written : Seq(Nat), panics : BOOLEAN, slow : BOOLEAN, logged : SUBSET Nat]
      BY DEF Answers
    <3>2. w \in Seq(Nat)
      BY <2>2
    <3>3. b = [a EXCEPT !.written = w, !.panics = FALSE]
      BY <2>1
    <3> HIDE DEF b, w
    <3>4. /\ b \in [written : Seq(Nat), panics : BOOLEAN, slow : BOOLEAN, logged : SUBSET Nat]
          /\ b.written = w /\ ~ b.panics /\ b.slow = a.slow /\ b.logged = a.logged
      BY <3>1, <3>2, <3>3
    <3> QED
      BY <3>4 DEF w
  <2> HIDE DEF b
  <2>4. b \in Answers
    BY <2>2, <2>3 DEF Answers
  <2>5. ASSUME a \in Truthful PROVE b \in Truthful
    <3>1. ~ a.slow /\ a.written = <<>> /\ a.logged = {}
      BY <1>2, <2>5 DEF Truthful
    <3>2. Len(b.written) = 1 /\ ~ b.slow /\ b.logged = {}
      BY <2>3, <3>1
    <3> QED
      BY <2>3, <2>4, <3>2 DEF Truthful
  <2>6. a \notin Preflight
    BY <1>2 DEF Preflight
  <2> QED
    BY <2>3, <2>4, <2>5, <2>6 DEF Calm, b
<1> QED
  BY <1>1, <1>2 DEF Answers

LEMMA TimeoutAnswer ==
  ASSUME NEW a \in Answers
  PROVE  /\ Timeout(a) \in Answers
         /\ a \in Preflight => Timeout(a) \in Preflight
         /\ a \in Calm => Timeout(a) \in Calm
         /\ a \in Truthful => Timeout(a) \in Truthful
<1> DEFINE b == Timeout(a)
<1>1. CASE a.slow
  <2>1. b = [written |-> <<503>>, panics |-> FALSE, slow |-> FALSE, logged |-> a.logged]
    <3>1. b = [Answer(503) EXCEPT !.logged = a.logged]
      BY <1>1 DEF Timeout
    <3>2. Answer(503) = [written |-> <<503>>, panics |-> FALSE, slow |-> FALSE, logged |-> {}]
      BY DEF Answer
    <3> HIDE DEF b
    <3> DEFINE w == <<503>>
    <3> HIDE DEF w
    <3>3. Answer(503) = [written |-> w, panics |-> FALSE, slow |-> FALSE, logged |-> {}]
      BY <3>2 DEF w
    <3>4. b = [[written |-> w, panics |-> FALSE, slow |-> FALSE, logged |-> {}]
                 EXCEPT !.logged = a.logged]
      BY <3>1, <3>3, Zenon
    <3>5. b = [written |-> w, panics |-> FALSE, slow |-> FALSE, logged |-> a.logged]
      BY <3>4
    <3> QED
      BY <3>5 DEF w
  <2>2. b \in Answers /\ ~ b.panics
    <3>1. 503 \in Nat /\ a.logged \in SUBSET Nat
      BY DEF Answers
    <3>2. <<503>> \in Seq(Nat) /\ <<503>> # <<>>
      BY <3>1, OneStatus
    <3>3. /\ b \in [written : Seq(Nat), panics : BOOLEAN, slow : BOOLEAN, logged : SUBSET Nat]
          /\ b.written = <<503>> /\ ~ b.panics
      BY <2>1, <3>1, <3>2
    <3> HIDE DEF b
    <3> QED
      BY <3>2, <3>3 DEF Answers
  <2>3. a \notin Preflight /\ a \notin Truthful
    BY <1>1 DEF Preflight, Truthful
  <2> QED
    BY <2>2, <2>3 DEF Calm
<1>2. CASE ~ a.slow /\ a.panics
  <2>1. b = [a EXCEPT !.written = <<>>]
    BY <1>2 DEF Timeout
  <2>2. /\ b \in Answers
        /\ b.written = <<>> /\ b.panics /\ ~ b.slow /\ b.logged = a.logged
    <3>1. /\ a \in [written : Seq(Nat), panics : BOOLEAN, slow : BOOLEAN, logged : SUBSET Nat]
          /\ <<>> \in Seq(Nat)
      BY NoStatus DEF Answers
    <3> HIDE DEF b
    <3>2. /\ b \in [written : Seq(Nat), panics : BOOLEAN, slow : BOOLEAN, logged : SUBSET Nat]
          /\ b.written = <<>> /\ b.panics /\ ~ b.slow /\ b.logged = a.logged
      BY <1>2, <2>1, <3>1
    <3> QED
      BY <3>2 DEF Answers
  <2> HIDE DEF b
  <2>3. a \in Truthful => b \in Truthful
    BY <1>2, <2>2 DEF Truthful
  <2>4. a \notin Preflight /\ a \notin Calm
    BY <1>2 DEF Preflight, Calm
  <2> QED
    BY <2>2, <2>3, <2>4 DEF b
<1>3. CASE ~ a.slow /\ ~ a.panics
  <2>1. b = [a EXCEPT !.written = SubSeq(a.written, 1, 1)]
    BY <1>3 DEF Timeout
  <2>2. a.written \in Seq(Nat) /\ a.written # <<>>
    BY <1>3 DEF Answers
  <2>3. /\ SubSeq(a.written, 1, 1) \in Seq(Nat) /\ Len(SubSeq(a.written, 1, 1)) = 1
        /\ SubSeq(a.written, 1, 1)[1] = a.written[1]
    <3>1. Len(a.written) \in Nat \ {0} /\ 1 \in 0..Len(a.written) /\ 1 \in 1..1
      BY <2>2
    <3> QED
      BY <2>2, <3>1, SubSeqOf
  <2>4. /\ b \in [written : Seq(Nat), panics : BOOLEAN, slow : BOOLEAN, logged : SUBSET Nat]
        /\ b.written = SubSeq(a.written, 1, 1) /\ ~ b.panics /\ ~ b.slow /\ b.logged = a.logged
    <3>1. a \in [written : Seq(Nat), panics : BOOLEAN, slow : BOOLEAN, logged : SUBSET Nat]
      BY DEF Answers
    <3> HIDE DEF b
    <3> QED
      BY <1>3, <2>1, <2>3, <3>1
  <2> HIDE DEF b
  <2>5. b.written # <<>> /\ Head(b.written) = Head(a.written)
    BY <2>2, <2>3, <2>4, NoStatus
  <2>6. b \in Answers /\ Sent(b) = Sent(a)
    BY <1>3, <2>2, <2>4, <2>5 DEF Answers, Sent
  <2>7. a \in Truthful => b \in Truthful
    <3>1. Len(b.written) <= 1
      BY <2>3, <2>4
    <3> QED
      BY <1>3, <2>4, <2>6, <3>1 DEF Truthful
  <2>8. a \in Calm => b \in Calm
    BY <2>4, <2>6 DEF Calm
  <2>9. ASSUME a.written = << 204 >> PROVE b.written = << 204 >>
    <3>1. /\ b.written \in Seq(Nat) /\ Len(b.written) = 1 /\ b.written[1] = 204
      BY <2>3, <2>4, <2>9
    <3> QED
      BY <3>1
  <2>10. a \in Preflight => b \in Preflight
    BY <2>4, <2>6, <2>9 DEF Preflight
  <2> QED
    BY <2>6, <2>7, <2>8, <2>10 DEF b
<1>4. a.slow \in BOOLEAN /\ a.panics \in BOOLEAN
  BY DEF Answers
<1> QED
  BY <1>1, <1>2, <1>3, <1>4

(* ... and what any of them does.                                          *)
LEMMA Handled ==
  ASSUME NEW kind \in Kinds, NEW method, NEW a \in Answers
  PROVE  /\ Handle(kind, method, a) \in Answers
         /\ a \in Preflight /\ method = "OPTIONS" => Handle(kind, method, a) \in Preflight
         /\ a \in Calm => Handle(kind, method, a) \in Calm
         /\ a \in Truthful => Handle(kind, method, a) \in Truthful
         /\ kind = "cors" /\ method = "OPTIONS" => Handle(kind, method, a) \in Preflight
         /\ kind = "recovery" => Handle(kind, method, a) \in Calm
<1>1. \/ CORS(method, a) = Answer(204)
      \/ method # "OPTIONS" /\ CORS(method, a) = a
  BY DEF CORS
<1>2. Answer(204) \in Answers /\ Answer(204) \in Calm /\ Answer(204) \in Truthful
  BY StatusAnswer
<1>3. Answer(204) \in Preflight
  BY <1>2 DEF Answer, Preflight
<1>4. CASE kind = "cors"
  BY <1>1, <1>2, <1>3, <1>4 DEF Handle
<1>5. CASE kind = "logging"
  BY <1>5, LoggingAnswer DEF Handle
<1>6. CASE kind = "recovery"
  BY <1>6, RecoveryAnswer DEF Handle
<1>7. CASE kind = "timeout"
  BY <1>7, TimeoutAnswer DEF Handle
<1>8. CASE kind = "altsvc"
  BY <1>8 DEF Handle
<1> QED
  BY <1>4, <1>5, <1>6, <1>7, <1>8 DEF Kinds

(* What the chain of a route and its method check let through.             *)
LEMMA RouteAnswer ==
  ASSUME RInv, NEW p \in DOMAIN routes, NEW method, NEW does \in Behaviours
  PROVE  LET inner == Through(routes[p].chain, method, Handler(does))
             all   == methodCheck(routes[p].method, method, inner)
         IN  /\ routes[p].chain \in Seq(Kinds) /\ globals \in Seq(Kinds)
             /\ Serve(p, method, does) = Through(globals, method, all)
             /\ inner \in Answers /\ all \in Answers
             /\ all = inner \/ all = Answer(405)
             /\ routes[p].method = "GET" => all = inner
<1> DEFINE inner == Through(routes[p].chain, method, Handler(does))
           all   == methodCheck(routes[p].method, method, inner)
<1>1. routes[p].chain \in Seq(Kinds) /\ globals \in Seq(Kinds)
  BY DEF RInv, Chains, Rest
<1>2. Handler(does) \in Answers
  BY HandlerAnswer
<1>3. \A kind \in Kinds : \A a \in Answers : Handle(kind, method, a) \in Answers
  BY Handled
<1>4. inner \in Answers
  BY <1>1, <1>2, <1>3, ThroughInto
<1>5. Serve(p, method, does) = Through(globals, method, all)
  BY DEF Serve
<1>6. (all = inner \/ all = Answer(405)) /\ (routes[p].method = "GET" => all = inner)
  BY DEF methodCheck
<1>7. Answer(405) \in Answers
  BY StatusAnswer
<1> HIDE DEF inner, all
<1>8. all \in Answers
  BY <1>4, <1>6, <1>7
<1> QED
  BY <1>1, <1>4, <1>5, <1>6, <1>8 DEF inner, all

(* The answer of the server lies in G, if G is closed under the handlers   *)
(* and the answer of the route lies in G or a middleware leads there.      *)
LEMMA ServerAnswer ==
  ASSUME NEW G, NEW method, NEW all \in Answers, globals \in Seq(Kinds),
         \A kind \in Kinds : \A a \in G : Handle(kind, method, a) \in G,
         \/ all \in G
         \/ \E kind \in ToSet(globals) : \A a \in Answers : Handle(kind, method, a) \in G
  PROVE  Through(globals, method, all) \in G
<1>1. \A kind \in Kinds : \A a \in Answers : Handle(kind, method, a) \in Answers
  BY Handled
<1> QED
  BY <1>1, ThroughInto

(* Preflight requests are answered wherever in the chain the CORS          *)
(* middleware is.                                                          *)
THEOREM PreflightsAnswered == Spec => []PreflightAnswered
<1>1. ASSUME RInv PROVE PreflightAnswered
  <2> SUFFICES ASSUME NEW p \in DOMAIN routes, NEW does \in Behaviours,
                      \/ "cors" \in ToSet(globals)
                      \/ /\ Shallow(routes[p]) /\ "cors" \in ToSet(routes[p].declared)
                         /\ routes[p].method = "GET"
               PROVE  Sent(Serve(p, "OPTIONS", does)) = 204
    BY DEF PreflightAnswered
  <2> DEFINE inner == Through(routes[p].chain, "OPTIONS", Handler(does))
             all   == methodCheck(routes[p].method, "OPTIONS", inner)
  <2>1. /\ routes[p].chain \in Seq(Kinds) /\ globals \in Seq(Kinds)
        /\ Serve(p, "OPTIONS", does) = Through(globals, "OPTIONS", all)
        /\ all \in Answers
        /\ routes[p].method = "GET" => all = inner
    BY <1>1, RouteAnswer
  <2>2. \A kind \in Kinds : \A a \in Preflight : Handle(kind, "OPTIONS", a) \in Preflight
    BY Handled DEF Preflight
  <2>3. \A kind \in Kinds : \A a \in Answers : Handle(kind, "OPTIONS", a) \in Answers
    BY Handled
  <2>4. \A a \in Answers : Handle("cors", "OPTIONS", a) \in Preflight
    BY Handled DEF Kinds
  <2>5. CASE "cors" \in ToSet(globals)
    <3> HIDE DEF all
    <3>1. Through(globals, "OPTIONS", all) \in Preflight
      BY <2>1, <2>2, <2>4, <2>5, ServerAnswer
    <3> QED
      BY <2>1, <3>1, PreflightSent
  <2>6. CASE /\ Shallow(routes[p]) /\ "cors" \in ToSet(routes[p].declared)
             /\ routes[p].method = "GET"
    <3>1. "cors" \in ToSet(routes[p].chain)
      BY <1>1, <2>6 DEF RInv, Chains
    <3>2. Handler(does) \in Answers
      BY HandlerAnswer
    <3>3. inner \in Preflight
      BY <2>1, <2>2, <2>3, <2>4, <3>1, <3>2, ThroughInto
    <3> HIDE DEF all, inner
    <3>4. Through(globals, "OPTIONS", all) \in Preflight
      BY <2>1, <2>2, <2>6, <3>3, ServerAnswer
    <3> QED
      BY <2>1, <3>4, PreflightSent
  <2> QED
    BY <2>5, <2>6
<1> QED
  BY <1>1, RInvAlways, PTL

(* Panics end at a recovery, wherever in the chain it is.                  *)
THEOREM PanicsStop == Spec => []PanicsContained
<1>1. ASSUME RInv PROVE PanicsContained
  <2> SUFFICES ASSUME NEW p \in DOMAIN routes, NEW method \in Methods, NEW does \in Behaviours,
                      \/ "recovery" \in ToSet(globals)
                      \/ Shallow(routes[p]) /\ "recovery" \in ToSet(routes[p].declared)
               PROVE  ~Serve(p, method, does).panics
    BY DEF PanicsContained
  <2> DEFINE inner == Through(routes[p].chain, method, Handler(does))
             all   == methodCheck(routes[p].method, method, inner)
  <2>1. /\ routes[p].chain \in Seq(Kinds) /\ globals \in Seq(Kinds)
        /\ Serve(p, method, does) = Through(globals, method, all)
        /\ all \in Answers
        /\ all = inner \/ all = Answer(405)
    BY <1>1, RouteAnswer
  <2>2. \A kind \in Kinds : \A a \in Calm : Handle(kind, method, a) \in Calm
    BY Handled DEF Calm
  <2>3. \A kind \in Kinds : \A a \in Answers : Handle(kind, method, a) \in Answers
    BY Handled
  <2>4. \A a \in Answers : Handle("recovery", method, a) \in Calm
    BY Handled DEF Kinds
  <2>5. CASE "recovery" \in ToSet(globals)
    <3> HIDE DEF all
    <3>1. Through(globals, method, all) \in Calm
      BY <2>1, <2>2, <2>4, <2>5, ServerAnswer
    <3> QED
      BY <2>1, <3>1 DEF Calm
  <2>6. CASE Shallow(routes[p]) /\ "recovery" \in ToSet(routes[p].declared)
    <3>1. "recovery" \in ToSet(routes[p].chain)
      BY <1>1, <2>6 DEF RInv, Chains
    <3>2. Handler(does) \in Answers
      BY HandlerAnswer
    <3>3. inner \in Calm
      BY <2>1, <2>2, <2>3, <2>4, <3>1, <3>2, ThroughInto
    <3>4. Answer(405) \in Calm
      BY StatusAnswer
    <3> HIDE DEF all, inner
    <3>5. Through(globals, method, all) \in Calm
      BY <2>1, <2>2, <3>3, <3>4, ServerAnswer
    <3> QED
      BY <2>1, <3>5 DEF Calm
  <2> QED
    BY <2>5, <2>6
<1> QED
  BY <1>1, RInvAlways, PTL

(* The logs tell what was sent, through any chain, for a handler that      *)
(* answers or panics.                                                      *)
THEOREM LogsTrue == Spec => []LogsTellTheTruth
<1>1. ASSUME RInv PROVE LogsTellTheTruth
  <2> SUFFICES ASSUME NEW p \in DOMAIN routes, NEW method \in Methods,
                      NEW does \in {"answers", "panics"}
               PROVE  ~Serve(p, method, does).panics =>
                        Serve(p, method, does).logged \subseteq {Sent(Serve(p, method, does))}
    BY DEF LogsTellTheTruth
  <2> DEFINE inner == Through(routes[p].chain, method, Handler(does))
             all   == methodCheck(routes[p].method, method, inner)
  <2>0. does \in Behaviours
    BY DEF Behaviours
  <2>1. /\ routes[p].chain \in Seq(Kinds) /\ globals \in Seq(Kinds)
        /\ Serve(p, method, does) = Through(globals, method, all)
        /\ all \in Answers
        /\ all = inner \/ all = Answer(405)
    BY <1>1, <2>0, RouteAnswer
  <2>2. \A kind \in Kinds : \A a \in Truthful : Handle(kind, method, a) \in Truthful
    BY Handled DEF Truthful
  <2>3. \A kind \in Kinds : \A a \in Answers : Handle(kind, method, a) \in Answers
    BY Handled
  <2>4. Handler(does) \in Answers /\ Handler(does) \in Truthful
    BY <2>0, HandlerAnswer
  <2>5. inner \in Truthful
    BY <2>1, <2>2, <2>3, <2>4, ThroughInto
  <2>6. Answer(405) \in Truthful
    BY StatusAnswer
  <2> HIDE DEF all, inner
  <2>7. Through(globals, method, all) \in Truthful
    BY <2>1, <2>2, <2>5, <2>6, ServerAnswer
  <2> QED
    BY <2>1, <2>7 DEF Truthful
<1> QED
  BY <1>1, RInvAlways, PTL
=============================================================================
