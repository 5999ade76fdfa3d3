------------------------- MODULE OperationKvProofs -------------------------
(***************************************************************************)
(* What touching a user's index does to it, for lists of every length:     *)
(* Without is a recursive function, and the facts about it go by induction *)
(* on the part of the list it has looked at.                               *)
(***************************************************************************)
EXTENDS OperationKv, Integers, FiniteSetTheorems, SequenceTheorems, WellFoundedInduction,
        TLAPS

Before == {ss \in Nat \X Nat : ss[1] < ss[2]}

LEMMA LeastNat ==
    ASSUME NEW T, T \subseteq Nat, T # {} PROVE \E x \in T : \A y \in T : x <= y
<1>1. \E x \in T : \A y \in T : <<y, x>> \notin Before
  <2>1. IsWellFoundedOn(Before, Nat)
    BY NatLessThanWellFounded DEF OpToRel, Before
  <2>. QED BY <2>1, WFMin
<1>2. PICK x \in T : \A y \in T : <<y, x>> \notin Before
  BY <1>1
<1>3. ASSUME NEW y \in T PROVE x <= y
  <2>1. x \in Nat /\ y \in Nat
    OBVIOUS
  <2>2. <<y, x>> \in Nat \X Nat /\ <<y, x>>[1] = y /\ <<y, x>>[2] = x
    BY <2>1
  <2>. QED BY <1>2, <2>1, <2>2 DEF Before
<1>. QED BY <1>3

(* Induction, with the set of the numbers that have the property. *)
LEMMA FromZeroUp ==
    ASSUME NEW S, 0 \in S, \A n \in Nat : n \in S => n + 1 \in S PROVE Nat \subseteq S
<1>1. SUFFICES ASSUME Nat \ S # {} PROVE FALSE
  OBVIOUS
<1>2. PICK x \in Nat \ S : \A y \in Nat \ S : x <= y
  BY <1>1, LeastNat
<1>3. x # 0 /\ x - 1 \in Nat /\ ~(x <= x - 1)
  BY <1>2
<1>. QED BY <1>2, <1>3

-----------------------------------------------------------------------------
(* Filtering the first n ids *)

Distinct(ids) == \A i, j \in 1 .. Len(ids) : ids[i] = ids[j] => i = j

(* f[i] is the result of filtering the first i ids. *)
Filters(f, ids, o, n) ==
    /\ f \in [0 .. n -> Seq(Ops)]
    /\ f[0] = <<>>
    /\ \A i \in 1 .. n : f[i] = IF ids[i] = o THEN f[i - 1] ELSE Append(f[i - 1], ids[i])

(* kept is what remains of the first n ids. *)
Remains(kept, ids, o, n) ==
    /\ kept \in Seq(Ops)
    /\ \A k \in 1 .. Len(kept) : kept[k] # o /\ \E j \in 1 .. n : kept[k] = ids[j]
    /\ \A j \in 1 .. n : ids[j] # o => \E k \in 1 .. Len(kept) : kept[k] = ids[j]
    /\ Distinct(kept)

LEMMA FilterExists ==
    ASSUME NEW ids \in Seq(Ops), NEW o \in Ops
    PROVE  \E f : Filters(f, ids, o, Len(ids))
<1> DEFINE Q == {n \in Nat : n <= Len(ids) => \E f : Filters(f, ids, o, n)}
<1>1. 0 \in Q
  <2>1. Filters([i \in 0 .. 0 |-> <<>>], ids, o, 0)
    BY DEF Filters
  <2>. QED BY <2>1
<1>2. ASSUME NEW n \in Nat, n \in Q, n + 1 <= Len(ids)
      PROVE  \E f : Filters(f, ids, o, n + 1)
  <2>1. PICK f : Filters(f, ids, o, n)
    BY <1>2
  <2>2. n + 1 \in 1 .. Len(ids) /\ ids[n + 1] \in Ops
    BY <1>2
  <2>3. f[n] \in Seq(Ops)
    BY <2>1 DEF Filters
  <2> DEFINE g == [i \in 0 .. n + 1 |->
                     IF i = n + 1
                     THEN IF ids[i] = o THEN f[n] ELSE Append(f[n], ids[i])
                     ELSE f[i]]
  <2>4. g \in [0 .. n + 1 -> Seq(Ops)]
    <3>1. ASSUME NEW i \in 0 .. n + 1 PROVE g[i] \in Seq(Ops)
      <4>1. CASE i = n + 1
        <5>1. Append(f[n], ids[n + 1]) \in Seq(Ops)
          BY <2>2, <2>3
        <5>. QED BY <4>1, <5>1, <2>3
      <4>2. CASE i # n + 1
        <5>1. i \in 0 .. n /\ g[i] = f[i]
          BY <4>2
        <5>. QED BY <5>1, <2>1 DEF Filters
      <4>. QED BY <4>1, <4>2
    <3>. QED BY <3>1
  <2>5. g[0] = <<>>
    BY <2>1 DEF Filters
  <2>6. ASSUME NEW i \in 1 .. n + 1
        PROVE  g[i] = IF ids[i] = o THEN g[i - 1] ELSE Append(g[i - 1], ids[i])
    <3>1. i - 1 \in 0 .. n /\ i - 1 # n + 1 /\ g[i - 1] = f[i - 1]
      OBVIOUS
    <3>2. CASE i = n + 1
      <4>1. i - 1 = n
        BY <3>2
      <4>. QED BY <3>1, <3>2, <4>1
    <3>3. CASE i # n + 1
      <4>1. i \in 1 .. n /\ g[i] = f[i]
        BY <3>3
      <4>. QED BY <3>1, <4>1, <2>1 DEF Filters
    <3>. QED BY <3>2, <3>3
  <2>7. Filters(g, ids, o, n + 1)
    BY <2>4, <2>5, <2>6 DEF Filters
  <2>. QED BY <2>7
<1>3. Nat \subseteq Q
  <2>1. \A n \in Nat : n \in Q => n + 1 \in Q
    BY <1>2
  <2> HIDE DEF Q
  <2>. QED BY <1>1, <2>1, FromZeroUp
<1>. QED BY <1>3

LEMMA FilterRemains ==
    ASSUME NEW ids \in Seq(Ops), NEW o \in Ops, NEW f, Filters(f, ids, o, Len(ids)),
           Distinct(ids)
    PROVE  Remains(f[Len(ids)], ids, o, Len(ids))
<1> DEFINE Q == {n \in Nat : n <= Len(ids) => Remains(f[n], ids, o, n)}
<1>1. 0 \in Q
  BY DEF Filters, Remains, Distinct
<1>2. ASSUME NEW n \in Nat, n \in Q, n + 1 <= Len(ids)
      PROVE  Remains(f[n + 1], ids, o, n + 1)
  <2>1. Remains(f[n], ids, o, n)
    BY <1>2
  <2>2. n + 1 \in 1 .. Len(ids) /\ ids[n + 1] \in Ops
    BY <1>2
  <2>3. f[n + 1] = IF ids[n + 1] = o THEN f[n] ELSE Append(f[n], ids[n + 1])
    BY <2>2 DEF Filters
  <2>4. CASE ids[n + 1] = o
    BY <2>1, <2>2, <2>3, <2>4 DEF Remains
  <2>5. CASE ids[n + 1] # o
    <3> DEFINE w == f[n]
               v == Append(w, ids[n + 1])
    <3>1. w \in Seq(Ops) /\ Len(w) \in Nat
      BY <2>1 DEF Remains
    <3>2. /\ v \in Seq(Ops) /\ Len(v) = Len(w) + 1 /\ v[Len(w) + 1] = ids[n + 1]
          /\ \A k \in 1 .. Len(w) : v[k] = w[k]
      BY <2>2, <3>1
    <3>3. ASSUME NEW k \in 1 .. Len(v)
          PROVE  v[k] # o /\ \E j \in 1 .. n + 1 : v[k] = ids[j]
      <4>1. CASE k = Len(w) + 1
        BY <2>2, <2>5, <3>1, <3>2, <4>1
      <4>2. CASE k # Len(w) + 1
        <5>1. k \in 1 .. Len(w)
          BY <3>1, <3>2, <4>2
        <5>2. PICK j \in 1 .. n : w[k] = ids[j]
          BY <2>1, <5>1 DEF Remains
        <5>. QED BY <2>1, <3>2, <5>1, <5>2 DEF Remains
      <4>. QED BY <4>1, <4>2
    <3>4. ASSUME NEW j \in 1 .. n + 1, ids[j] # o
          PROVE  \E k \in 1 .. Len(v) : v[k] = ids[j]
      <4>1. CASE j = n + 1
        BY <3>1, <3>2, <4>1
      <4>2. CASE j # n + 1
        <5>1. PICK k \in 1 .. Len(w) : w[k] = ids[j]
          BY <2>1, <3>4, <4>2 DEF Remains
        <5>. QED BY <3>1, <3>2, <5>1
      <4>. QED BY <4>1, <4>2
    <3>5. \A k \in 1 .. Len(w) : w[k] # ids[n + 1]
      <4>1. ASSUME NEW k \in 1 .. Len(w) PROVE w[k] # ids[n + 1]
        <5>1. PICK j \in 1 .. n : w[k] = ids[j]
          BY <2>1 DEF Remains
        <5>2. j \in 1 .. Len(ids) /\ j # n + 1
          BY <2>2
        <5>. QED BY <5>1, <5>2, <2>2 DEF Distinct
      <4>. QED BY <4>1
    <3>6. Distinct(v)
      <4>1. Distinct(w)
        BY <2>1 DEF Remains
      <4> HIDE DEF w, v
      <4>. QED BY <3>1, <3>2, <3>5, <4>1 DEF Distinct
    <3>7. f[n + 1] = v
      BY <2>3, <2>5
    <3> HIDE DEF w, v
    <3>. QED BY <3>2, <3>3, <3>4, <3>6, <3>7 DEF Remains
  <2>. QED BY <2>4, <2>5
<1>3. Nat \subseteq Q
  <2>1. \A n \in Nat : n \in Q => n + 1 \in Q
    BY <1>2
  <2> HIDE DEF Q
  <2>. QED BY <1>1, <2>1, FromZeroUp
<1>4. Len(ids) \in Nat
  OBVIOUS
<1>. QED BY <1>3, <1>4

LEMMA WithoutFacts ==
    ASSUME NEW ids \in Seq(Ops), NEW o \in Ops, Distinct(ids)
    PROVE  Remains(Without(ids, o), ids, o, Len(ids))
<1> DEFINE F(f) == f = [i \in 0 .. Len(ids) |->
                          IF i = 0 THEN <<>>
                          ELSE IF ids[i] = o THEN f[i - 1] ELSE Append(f[i - 1], ids[i])]
           kept == CHOOSE f : F(f)
<1>1. PICK g : Filters(g, ids, o, Len(ids))
  BY FilterExists
<1>2. F(g)
  <2>1. Len(ids) \in Nat
    OBVIOUS
  <2>2. g = [i \in 0 .. Len(ids) |-> g[i]]
    BY <1>1 DEF Filters
  <2>3. \A i \in 0 .. Len(ids) :
          g[i] = IF i = 0 THEN <<>>
                 ELSE IF ids[i] = o THEN g[i - 1] ELSE Append(g[i - 1], ids[i])
    <3> TAKE i \in 0 .. Len(ids)
    <3>1. CASE i = 0
      BY <1>1, <3>1 DEF Filters
    <3>2. CASE i # 0
      <4>1. i \in 1 .. Len(ids)
        BY <2>1, <3>2
      <4>. QED BY <1>1, <3>2, <4>1 DEF Filters
    <3>. QED BY <3>1, <3>2
  <2> HIDE DEF kept
  <2>. QED BY <2>2, <2>3
<1>3. F(kept)
  <2> HIDE DEF F
  <2>. QED BY <1>2, Zenon
<1>4. Without(ids, o) = kept[Len(ids)]
  BY DEF Without
<1> HIDE DEF kept
<1>5. Filters(kept, ids, o, Len(ids))
  <2> DEFINE Q == {n \in Nat : n <= Len(ids) => kept[n] = g[n]}
  <2>1. 0 \in Q
    BY <1>1, <1>3 DEF Filters
  <2>2. ASSUME NEW n \in Nat, n \in Q, n + 1 <= Len(ids) PROVE kept[n + 1] = g[n + 1]
    <3>1. n + 1 \in 0 .. Len(ids) /\ n + 1 \in 1 .. Len(ids) /\ n + 1 # 0 /\ (n + 1) - 1 = n
      BY <2>2
    <3>2. kept[n + 1] = IF ids[n + 1] = o THEN kept[n] ELSE Append(kept[n], ids[n + 1])
      BY <1>3, <3>1
    <3>3. g[n + 1] = IF ids[n + 1] = o THEN g[n] ELSE Append(g[n], ids[n + 1])
      BY <1>1, <3>1 DEF Filters
    <3>. QED BY <2>2, <3>2, <3>3
  <2>3. Nat \subseteq Q
    <3>1. \A n \in Nat : n \in Q => n + 1 \in Q
      BY <2>2
    <3> HIDE DEF Q
    <3>. QED BY <2>1, <3>1, FromZeroUp
  <2>4. \A i \in 0 .. Len(ids) : kept[i] = g[i]
    BY <2>3
  <2>5. kept = [i \in 0 .. Len(ids) |-> kept[i]]
    BY <1>3
  <2>6. g = [i \in 0 .. Len(ids) |-> g[i]]
    BY <1>1 DEF Filters
  <2>7. kept = g
    BY <2>4, <2>5, <2>6
  <2>. QED BY <1>1, <2>7
<1>. QED BY <1>4, <1>5, FilterRemains

(* Touching a list keeps it in its limit and without repetitions, puts o    *)
(* in front, adds nothing else, and drops an id only when the list is full. *)
LEMMA TouchFacts ==
    ASSUME NEW ids \in Seq(Ops), NEW o \in Ops, Distinct(ids)
    PROVE  /\ Touch(ids, o) \in Seq(Ops)
           /\ Len(Touch(ids, o)) \in 1 .. MaxIndex
           /\ Distinct(Touch(ids, o))
           /\ Touch(ids, o)[1] = o
           /\ \A i \in 1 .. Len(Touch(ids, o)) :
                Touch(ids, o)[i] = o \/ \E j \in 1 .. Len(ids) : Touch(ids, o)[i] = ids[j]
           /\ \/ Len(Touch(ids, o)) = MaxIndex
              \/ \A j \in 1 .. Len(ids) :
                   \E i \in 1 .. Len(Touch(ids, o)) : Touch(ids, o)[i] = ids[j]
<1> DEFINE w == Without(ids, o)
           all == <<o>> \o w
           max == IF Len(all) > MaxIndex THEN MaxIndex ELSE Len(all)
           t == SubSeq(all, 1, max)
<1>1. Remains(w, ids, o, Len(ids))
  BY WithoutFacts
<1>2. w \in Seq(Ops) /\ Len(w) \in Nat /\ <<o>> \in Seq(Ops) /\ Len(<<o>>) = 1 /\ <<o>>[1] = o
  BY <1>1 DEF Remains
<1>3. Touch(ids, o) = t
  BY DEF Touch
<1>4. MaxIndex \in Nat \ {0}
  BY StoreAssumption
<1> HIDE DEF w
<1>5. /\ all \in Seq(Ops)
      /\ Len(all) = Len(w) + 1
      /\ all[1] = o
      /\ \A i \in 1 .. Len(w) : all[i + 1] = w[i]
  <2>1. /\ all \in Seq(Ops) /\ Len(all) = 1 + Len(w)
        /\ \A i \in 1 .. 1 + Len(w) : all[i] = IF i <= 1 THEN <<o>>[i] ELSE w[i - 1]
    BY <1>2, ConcatProperties
  <2> HIDE DEF all
  <2>. QED BY <1>2, <2>1
<1> HIDE DEF all
<1>6. max \in 1 .. MaxIndex /\ max <= Len(all) /\ (max = MaxIndex \/ max = Len(all))
  BY <1>2, <1>4, <1>5
<1> HIDE DEF max
<1>7. t \in Seq(Ops) /\ Len(t) = max /\ \A i \in 1 .. max : t[i] = all[i]
  <2>1. \A i \in 1 .. max : all[i] \in Ops
    BY <1>5, <1>6
  <2>2. max \in Int /\ 1 \in Int /\ 1 <= max /\ (max - 1) + 1 = max /\ max - 1 + 1 = max
    BY <1>4, <1>6
  <2>3. /\ t \in Seq(Ops) /\ Len(t) = IF 1 <= max THEN max - 1 + 1 ELSE 0
        /\ \A i \in 1 .. max - 1 + 1 : t[i] = all[1 + i - 1]
    BY <2>1, <2>2, SubSeqProperties
  <2> HIDE DEF t
  <2>. QED BY <1>4, <1>6, <2>2, <2>3
<1> HIDE DEF t
<1>8. \A i \in 1 .. Len(all) : i = 1 \/ (i - 1 \in 1 .. Len(w) /\ all[i] = w[i - 1])
  BY <1>2, <1>5
<1>9. Distinct(t)
  <2>1. Distinct(w) /\ \A k \in 1 .. Len(w) : w[k] # o
    BY <1>1 DEF Remains
  <2>2. ASSUME NEW i \in 1 .. max, NEW j \in 1 .. max, t[i] = t[j] PROVE i = j
    <3>1. i \in 1 .. Len(all) /\ j \in 1 .. Len(all) /\ all[i] = all[j]
      BY <1>4, <1>5, <1>2, <1>6, <1>7, <2>2
    <3>2. CASE i = 1 \/ j = 1
      BY <3>1, <3>2, <1>8, <1>5, <2>1
    <3>3. CASE i # 1 /\ j # 1
      <4>1. i - 1 \in 1 .. Len(w) /\ j - 1 \in 1 .. Len(w) /\ w[i - 1] = w[j - 1]
        BY <1>8, <3>1, <3>3
      <4>2. i - 1 = j - 1
        BY <2>1, <4>1 DEF Distinct
      <4>. QED BY <4>2
    <3>. QED BY <3>2, <3>3
  <2>. QED BY <1>7, <2>2 DEF Distinct
<1>10. ASSUME NEW i \in 1 .. max PROVE t[i] = o \/ \E j \in 1 .. Len(ids) : t[i] = ids[j]
  <2>1. t[i] = all[i] /\ i \in 1 .. Len(all)
    BY <1>2, <1>4, <1>5, <1>6, <1>7
  <2>2. CASE i = 1
    BY <2>1, <2>2, <1>5
  <2>3. CASE i # 1
    <3>1. i - 1 \in 1 .. Len(w) /\ t[i] = w[i - 1]
      BY <1>8, <2>1, <2>3
    <3>. QED BY <1>1, <3>1 DEF Remains
  <2>. QED BY <2>2, <2>3
<1>11. ASSUME max = Len(all), NEW j \in 1 .. Len(ids) PROVE \E i \in 1 .. max : t[i] = ids[j]
  <2>1. CASE ids[j] = o
    BY <2>1, <1>5, <1>6, <1>7
  <2>2. CASE ids[j] # o
    <3>1. PICK k \in 1 .. Len(w) : w[k] = ids[j]
      BY <1>1, <2>2 DEF Remains
    <3>2. k + 1 \in 1 .. max /\ t[k + 1] = w[k]
      BY <1>2, <1>5, <1>7, <1>11, <3>1
    <3>. QED BY <3>1, <3>2
  <2>. QED BY <2>1, <2>2
<1>12. t[1] = o /\ Len(t) \in 1 .. MaxIndex
  BY <1>5, <1>6, <1>7
<1>. QED BY <1>3, <1>6, <1>7, <1>9, <1>10, <1>11, <1>12

(* A list that is full stays full. *)
LEMMA TouchFull ==
    ASSUME NEW ids \in Seq(Ops), NEW o \in Ops, Distinct(ids), Len(ids) = MaxIndex
    PROVE  Len(Touch(ids, o)) = MaxIndex
<1> DEFINE new == Touch(ids, o)
<1>1. /\ Len(new) \in 1 .. MaxIndex
      /\ \/ Len(new) = MaxIndex
         \/ \A j \in 1 .. Len(ids) : \E i \in 1 .. Len(new) : new[i] = ids[j]
  BY TouchFacts
<1> HIDE DEF new
<1>2. MaxIndex \in Nat
  BY StoreAssumption
<1>3. ASSUME Len(new) # MaxIndex PROVE FALSE
  <2> DEFINE S == 1 .. MaxIndex
             T == 1 .. Len(new)
             f == [j \in S |-> CHOOSE i \in T : new[i] = ids[j]]
  <2>1. Len(new) \in Int /\ MaxIndex \in Int /\ 1 \in Int
    BY <1>1, <1>2
  <2>2. /\ IsFiniteSet(S) /\ Cardinality(S) = IF 1 > MaxIndex THEN 0 ELSE MaxIndex - 1 + 1
        /\ IsFiniteSet(T) /\ Cardinality(T) = IF 1 > Len(new) THEN 0 ELSE Len(new) - 1 + 1
    BY <2>1, FS_Interval
  <2>3. Cardinality(T) < Cardinality(S)
    BY <1>1, <1>2, <1>3, <2>2
  <2>4. \A j \in S : f[j] \in T /\ new[f[j]] = ids[j]
    BY <1>1, <1>3
  <2>5. f \in [S -> T]
    BY <2>4
  <2> HIDE DEF f
  <2>6. PICK x \in S, y \in S : x # y /\ f[x] = f[y]
    BY <2>2, <2>3, <2>5, FS_PigeonHole
  <2>7. ids[x] = ids[y]
    BY <2>4, <2>6
  <2>. QED BY <2>6, <2>7 DEF Distinct
<1>. QED BY <1>3 DEF new

=============================================================================
