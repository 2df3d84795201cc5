-------------------------- MODULE RecursionLemmas --------------------------
(***************************************************************************)
(* Induction, and what the recursive functions of the models compute.      *)
(* That a function satisfies its equation has to be shown: by induction on *)
(* a measure of its arguments, or on the number of turns of a loop.  Then  *)
(* union and requirement, the loops over lists of identifiers.             *)
(***************************************************************************)
EXTENDS RowOperators, SequenceTheorems, WellFoundedInduction, TLAPS

(* A nonempty set of natural numbers has a least element.                  *)
LEMMA LeastNatural ==
  ASSUME NEW T \in SUBSET Nat, T # {}
  PROVE  \E n \in T : \A m \in T : n <= m
<1> DEFINE R == {ss \in Nat \X Nat : ss[1] < ss[2]}
<1>1. OpToRel(<, Nat) = R
  BY DEF OpToRel
<1>2. IsWellFoundedOn(R, Nat)
  BY <1>1, NatLessThanWellFounded
<1>3. \A m, n \in Nat : m < n => <<m, n>> \in R
  BY Z3
<1> HIDE DEF R
<1>4. PICK n \in T : \A m \in T : <<m, n>> \notin R
  BY <1>2, WFMin
<1>5. ASSUME NEW m \in T PROVE n <= m
  <2>1. m \in Nat /\ n \in Nat
    OBVIOUS
  <2>2. ~(m < n)
    BY <1>3, <1>4, <2>1, Zenon
  <2>3. QED
    BY <2>1, <2>2
<1>6. QED
  BY <1>5

(* Induction, stated for sets of natural numbers.                          *)
LEMMA NaturalInduction ==
  ASSUME NEW S, 0 \in S, \A n \in Nat : n \in S => n + 1 \in S
  PROVE  Nat \subseteq S
<1> DEFINE T == Nat \ S
<1>1. SUFFICES ASSUME T # {} PROVE FALSE
  OBVIOUS
<1>2. PICK n \in T : \A m \in T : n <= m
  BY <1>1, LeastNatural
<1>3. n # 0 /\ n - 1 \in Nat /\ n - 1 \notin T
  BY <1>2
<1>4. n - 1 + 1 \in S
  BY <1>3
<1>5. QED
  BY <1>2, <1>4

-----------------------------------------------------------------------------
(* Recursion over a measure: a function that is computed from its values   *)
(* at smaller arguments exists.                                            *)

(* f is as step says at the arguments smaller than n.                      *)
Below(f, n, C, size, step) == \A c \in C : size[c] < n => f[c] = step[<<f, c>>]

(* step looks at smaller arguments only.                                   *)
LooksBelow(C, V, size, step) ==
  \A c \in C : \A f, g \in [C -> V] :
    (\A d \in C : size[d] < size[c] => f[d] = g[d]) => step[<<f, c>>] = step[<<g, c>>]

Agree(f, g, n, C, size) == \A c \in C : size[c] < n => f[c] = g[c]

(* There is one at least,                                                  *)
LEMMA BelowExists ==
  ASSUME NEW C, NEW V, NEW value \in V, NEW size \in [C -> Nat],
         NEW step \in [[C -> V] \X C -> V], LooksBelow(C, V, size, step)
  PROVE  \A n \in Nat : \E f \in [C -> V] : Below(f, n, C, size, step)
<1> DEFINE S == {n \in Nat : \E f \in [C -> V] : Below(f, n, C, size, step)}
<1>1. 0 \in S
  <2>1. [c \in C |-> value] \in [C -> V]
    OBVIOUS
  <2>2. \A c \in C : ~(size[c] < 0)
    OBVIOUS
  <2>3. QED
    BY <2>1, <2>2 DEF Below
<1>2. ASSUME NEW n \in Nat, n \in S PROVE n + 1 \in S
  <2>1. PICK f \in [C -> V] : Below(f, n, C, size, step)
    BY <1>2
  <2> DEFINE g == [c \in C |-> step[<<f, c>>]]
  <2>2. g \in [C -> V]
    OBVIOUS
  <2>3. \A c \in C : g[c] = step[<<f, c>>]
    OBVIOUS
  <2> HIDE DEF g
  <2>4. ASSUME NEW c \in C, size[c] < n + 1 PROVE g[c] = step[<<g, c>>]
    <3>1. ASSUME NEW d \in C, size[d] < size[c] PROVE f[d] = g[d]
      <4>1. size[d] < n
        BY <2>4, <3>1
      <4>2. QED
        BY <2>1, <2>3, <4>1 DEF Below
    <3>2. step[<<f, c>>] = step[<<g, c>>]
      BY <2>1, <2>2, <3>1 DEF LooksBelow
    <3>3. QED
      BY <2>3, <3>2
  <2>5. QED
    BY <2>2, <2>4 DEF Below
<1> HIDE DEF S
<1>3. Nat \subseteq S
  BY <1>1, <1>2, NaturalInduction
<1>4. QED
  BY <1>3 DEF S

(* and at most one.                                                        *)
LEMMA BelowUnique ==
  ASSUME NEW C, NEW V, NEW size \in [C -> Nat],
         NEW step \in [[C -> V] \X C -> V], LooksBelow(C, V, size, step)
  PROVE  \A f, g \in [C -> V] : \A n \in Nat :
           Below(f, n, C, size, step) /\ Below(g, n, C, size, step) => Agree(f, g, n, C, size)
<1> SUFFICES ASSUME NEW f \in [C -> V], NEW g \in [C -> V]
             PROVE  \A n \in Nat :
                      Below(f, n, C, size, step) /\ Below(g, n, C, size, step) =>
                        Agree(f, g, n, C, size)
  OBVIOUS
<1> DEFINE S == {n \in Nat : Below(f, n, C, size, step) /\ Below(g, n, C, size, step)
                               => Agree(f, g, n, C, size)}
<1>1. 0 \in S
  BY DEF Agree
<1>2. ASSUME NEW n \in Nat, n \in S PROVE n + 1 \in S
  <2>1. SUFFICES ASSUME Below(f, n + 1, C, size, step), Below(g, n + 1, C, size, step)
                 PROVE  Agree(f, g, n + 1, C, size)
    OBVIOUS
  <2>2. \A c \in C : size[c] < n => size[c] < n + 1
    OBVIOUS
  <2>3. Below(f, n, C, size, step) /\ Below(g, n, C, size, step)
    BY <2>1, <2>2 DEF Below
  <2>4. Agree(f, g, n, C, size)
    BY <1>2, <2>3
  <2>5. ASSUME NEW c \in C, size[c] < n + 1 PROVE f[c] = g[c]
    <3>1. ASSUME NEW d \in C, size[d] < size[c] PROVE f[d] = g[d]
      <4>1. size[d] < n
        BY <2>5, <3>1
      <4>2. QED
        BY <2>4, <4>1 DEF Agree
    <3>2. step[<<f, c>>] = step[<<g, c>>]
      BY <3>1 DEF LooksBelow
    <3>3. QED
      BY <2>1, <2>5, <3>2 DEF Below
  <2>6. QED
    BY <2>5 DEF Agree
<1> HIDE DEF S
<1>3. Nat \subseteq S
  BY <1>1, <1>2, NaturalInduction
<1>4. QED
  BY <1>3 DEF S

(* f is as step says everywhere.                                           *)
Follows(f, C, step) == \A c \in C : f[c] = step[<<f, c>>]

LEMMA RecursionExists ==
  ASSUME NEW C, NEW V, NEW value \in V, NEW size \in [C -> Nat],
         NEW step \in [[C -> V] \X C -> V], LooksBelow(C, V, size, step)
  PROVE  \E f \in [C -> V] : Follows(f, C, step)
<1> DEFINE Good(f, c) == Below(f, size[c] + 1, C, size, step)
           at == [c \in C |-> CHOOSE f \in [C -> V] : Good(f, c)]
           whole == [c \in C |-> at[c][c]]
<1>1. ASSUME NEW c \in C PROVE at[c] \in [C -> V] /\ Good(at[c], c)
  <2>1. \E f \in [C -> V] : Good(f, c)
    <3>1. size[c] + 1 \in Nat
      OBVIOUS
    <3>2. \A n \in Nat : \E f \in [C -> V] : Below(f, n, C, size, step)
      BY BelowExists
    <3>3. QED
      BY <3>1, <3>2
  <2> HIDE DEF Good
  <2>2. QED
    BY <2>1
<1>2. \A f1, g1 \in [C -> V] : \A k \in Nat :
        Below(f1, k, C, size, step) /\ Below(g1, k, C, size, step) => Agree(f1, g1, k, C, size)
  BY BelowUnique
<1>3. \A c \in C : whole[c] = at[c][c]
  OBVIOUS
<1> HIDE DEF at
<1>4. whole \in [C -> V]
  BY <1>1
<1> HIDE DEF whole
<1>5. ASSUME NEW c \in C PROVE whole[c] = step[<<whole, c>>]
  <2> DEFINE f == at[c]
             n == size[c]
  <2>1. f \in [C -> V] /\ Below(f, n + 1, C, size, step) /\ n \in Nat /\ size[c] < n + 1
    BY <1>1
  <2>2. f[c] = step[<<f, c>>]
    BY <2>1 DEF Below
  <2> HIDE DEF f
  <2>3. ASSUME NEW d \in C, size[d] < size[c] PROVE f[d] = whole[d]
    <3> DEFINE g == at[d]
               m == size[d] + 1
    <3>1. g \in [C -> V] /\ Below(g, m, C, size, step) /\ m \in Nat
      BY <1>1
    <3>2. m < n + 1 /\ size[d] < m
      BY <2>3
    <3>3. Below(f, m, C, size, step)
      <4>1. \A e \in C : size[e] < m => size[e] < n + 1
        BY <2>1, <3>1, <3>2
      <4>2. QED
        BY <2>1, <4>1 DEF Below
    <3> HIDE DEF g, m
    <3>4. f[d] = g[d]
      BY <1>2, <2>1, <3>1, <3>2, <3>3 DEF Agree
    <3>5. QED
      BY <1>3, <3>4 DEF g
  <2>4. step[<<f, c>>] = step[<<whole, c>>]
    BY <1>4, <2>1, <2>3 DEF LooksBelow
  <2>5. QED
    BY <1>3, <2>2, <2>4 DEF f
<1>6. QED
  BY <1>4, <1>5 DEF Follows

-----------------------------------------------------------------------------
(* appendUnique adds its value and nothing else.                           *)
LEMMA AppendUniqueLemma ==
  ASSUME NEW S, NEW row \in Seq(S), NEW value \in S
  PROVE  /\ appendUnique(row, value) \in Seq(S)
         /\ Range(appendUnique(row, value)) = Range(row) \cup {value}
<1>1. CASE value \in Range(row)
  BY <1>1 DEF appendUnique
<1>2. CASE value \notin Range(row)
  <2>1. Append(row, value) = row \o <<value>> /\ <<value>> \in Seq(S)
    BY AppendIsConcat
  <2>2. Range(<<value>>) = {value}
    BY DEF Range
  <2>3. Range(row \o <<value>>) = Range(row) \cup Range(<<value>>)
    BY <2>1, RangeConcatenation
  <2>4. QED
    BY <1>2, <2>1, <2>2, <2>3, AppendProperties DEF appendUnique
<1>3. QED
  BY <1>1, <1>2

-----------------------------------------------------------------------------
(* g records the value after each of the n turns of a loop.                *)
Computes(g, A, start, n, step) ==
  /\ g \in [0 .. n -> A]
  /\ g[0] = start
  /\ \A i \in 1 .. n : g[i] = step[<<g[i - 1], i>>]

(* A loop of n turns computes something.                                   *)
LEMMA LoopExists ==
  ASSUME NEW A, NEW start \in A, NEW n \in Nat, NEW step \in [A \X Nat -> A]
  PROVE  \E g : Computes(g, A, start, n, step)
<1> DEFINE After(g, m) == Computes(g, A, start, m, step)
           Done == {m \in Nat : \E g : After(g, m)}
<1>1. 0 \in Done
  <2>1. After([i \in 0 .. 0 |-> start], 0)
    BY DEF Computes
  <2>2. QED
    BY <2>1
<1>2. ASSUME NEW m \in Nat, m \in Done PROVE m + 1 \in Done
  <2>1. PICK g : After(g, m)
    BY <1>2
  <2> DEFINE h == [i \in 0 .. m + 1 |-> IF i = m + 1 THEN step[<<g[m], m + 1>>] ELSE g[i]]
  <2>2. g[m] \in A /\ step[<<g[m], m + 1>>] \in A
    BY <2>1 DEF Computes
  <2>3. h \in [0 .. m + 1 -> A] /\ h[0] = start
    BY <2>1, <2>2 DEF Computes
  <2>4. ASSUME NEW i \in 1 .. m + 1 PROVE h[i] = step[<<h[i - 1], i>>]
    <3>1. h[i - 1] = g[i - 1]
      OBVIOUS
    <3>2. CASE i = m + 1
      BY <3>1, <3>2
    <3>3. CASE i # m + 1
      <4>1. i \in 1 .. m /\ h[i] = g[i]
        BY <3>3
      <4>2. QED
        BY <2>1, <3>1, <4>1 DEF Computes
    <3>4. QED
      BY <3>2, <3>3
  <2>5. After(h, m + 1)
    BY <2>3, <2>4 DEF Computes
  <2> HIDE DEF After, h
  <2>6. \E k : After(k, m + 1)
    BY <2>5
  <2>7. QED
    BY <2>6
<1> HIDE DEF Done
<1>3. Nat \subseteq Done
  BY <1>1, <1>2, NaturalInduction
<1>4. n \in Done
  BY <1>3
<1>5. QED
  BY <1>4 DEF Done

(* row records the value of union's loop after each of its turns.          *)
Turns(row, left, right) ==
  row[0] = left /\ \A i \in 1 .. Len(right) : row[i] = appendUnique(row[i - 1], right[i])

(* union is the value after the last turn.                                 *)
LEMMA UnionTurns ==
  ASSUME NEW S, NEW left \in Seq(S), NEW right \in Seq(S)
  PROVE  \E row : Turns(row, left, right) /\ union(left, right) = row[Len(right)]
<1> DEFINE n == Len(right)
           Turn(g) == [i \in 0 .. n |-> IF i = 0 THEN left
                                        ELSE appendUnique(g[i - 1], right[i])]
           row == CHOOSE g : g = Turn(g)
           step == [x \in Seq(S) \X Nat |->
                      IF x[2] \in 1 .. n THEN appendUnique(x[1], right[x[2]]) ELSE left]
<1>1. n \in Nat /\ \A i \in 1 .. n : right[i] \in S
  OBVIOUS
<1>2. step \in [Seq(S) \X Nat -> Seq(S)]
  BY <1>1, AppendUniqueLemma
<1> HIDE DEF row, step, Turn, n
<1> DEFINE Rows == Seq(S)
<1>a. left \in Rows /\ step \in [Rows \X Nat -> Rows]
  BY <1>2
<1> HIDE DEF Rows
<1>b. \E g : Computes(g, Rows, left, n, step)
  BY <1>1, <1>a, LoopExists
<1> USE DEF Rows
<1>3. PICK g \in [0 .. n -> Rows] :
        g[0] = left /\ \A i \in 1 .. n : g[i] = step[<<g[i - 1], i>>]
  BY <1>b DEF Computes
<1>4. ASSUME NEW i \in 1 .. n PROVE g[i] = appendUnique(g[i - 1], right[i])
  <2>1. g[i] = step[<<g[i - 1], i>>] /\ g[i - 1] \in Seq(S) /\ i \in Nat
    BY <1>1, <1>3
  <2>2. QED
    BY <2>1 DEF step
<1>5. g = Turn(g)
  BY <1>1, <1>3, <1>4 DEF Turn
<1>6. row = Turn(row)
  BY <1>5 DEF row
<1>7. row[0] = left /\ \A i \in 1 .. n : row[i] = appendUnique(row[i - 1], right[i])
  BY <1>1, <1>6 DEF Turn
<1>8. union(left, right) = row[n]
  BY DEF union, row, Turn, n
<1>9. Turns(row, left, right)
  BY <1>7 DEF Turns, n
<1>10. QED
  BY <1>8, <1>9 DEF n

(* union keeps both rows, and nothing else.                                *)
LEMMA UnionLemma ==
  ASSUME NEW S, NEW left \in Seq(S), NEW right \in Seq(S)
  PROVE  /\ union(left, right) \in Seq(S)
         /\ Range(union(left, right)) = Range(left) \cup Range(right)
<1> DEFINE n == Len(right)
<1>1. n \in Nat /\ \A i \in 1 .. n : right[i] \in S
  OBVIOUS
<1>2. PICK row : Turns(row, left, right) /\ union(left, right) = row[n]
  BY UnionTurns
<1> HIDE DEF n
<1>7. row[0] = left /\ \A i \in 1 .. n : row[i] = appendUnique(row[i - 1], right[i])
  BY <1>2 DEF Turns, n
<1>8. union(left, right) = row[n]
  BY <1>2
<1> DEFINE Sound == {i \in Nat : i <= n =>
                       /\ row[i] \in Seq(S)
                       /\ Range(row[i]) = Range(left) \cup {right[j] : j \in 1 .. i}}
<1>9. 0 \in Sound
  BY <1>1, <1>7
<1>10. ASSUME NEW i \in Nat, i \in Sound PROVE i + 1 \in Sound
  <2>1. SUFFICES ASSUME i + 1 <= n PROVE i + 1 \in Sound
    OBVIOUS
  <2>2. /\ row[i] \in Seq(S)
        /\ Range(row[i]) = Range(left) \cup {right[j] : j \in 1 .. i}
    BY <1>1, <1>10, <2>1
  <2>3. i + 1 \in 1 .. n /\ right[i + 1] \in S /\ row[i + 1] = appendUnique(row[i], right[i + 1])
    BY <1>1, <1>7, <2>1
  <2> DEFINE sofar == row[i]
             value == right[i + 1]
  <2>a. sofar \in Seq(S) /\ value \in S
    BY <2>2, <2>3
  <2> HIDE DEF sofar, value
  <2>b. /\ appendUnique(sofar, value) \in Seq(S)
        /\ Range(appendUnique(sofar, value)) = Range(sofar) \cup {value}
    BY <2>a, AppendUniqueLemma
  <2>4. /\ appendUnique(row[i], right[i + 1]) \in Seq(S)
        /\ Range(appendUnique(row[i], right[i + 1])) = Range(row[i]) \cup {right[i + 1]}
    BY <2>b DEF sofar, value
  <2>5. {right[j] : j \in 1 .. i + 1} = {right[j] : j \in 1 .. i} \cup {right[i + 1]}
    OBVIOUS
  <2>6. Range(row[i + 1]) = Range(left) \cup {right[j] : j \in 1 .. i + 1}
    BY <2>2, <2>3, <2>4, <2>5, Zenon
  <2>7. QED
    BY <2>3, <2>4, <2>6
<1> HIDE DEF Sound
<1>11. n \in Sound
  BY <1>1, <1>9, <1>10, NaturalInduction
<1>12. {right[j] : j \in 1 .. n} = Range(right)
  BY RangeEquality DEF n
<1>13. QED
  BY <1>1, <1>8, <1>11, <1>12 DEF Sound

(* One turn more: union with a longer row appends its last value, unless   *)
(* it is there.                                                            *)
LEMMA UnionAppend ==
  ASSUME NEW S, NEW left \in Seq(S), NEW right \in Seq(S), NEW value \in S
  PROVE  union(left, Append(right, value)) = appendUnique(union(left, right), value)
<1> DEFINE n == Len(right)
           longer == Append(right, value)
<1>1. /\ n \in Nat /\ longer \in Seq(S) /\ Len(longer) = n + 1
      /\ longer[n + 1] = value /\ \A i \in 1 .. n : longer[i] = right[i]
  BY AppendProperties, LenProperties
<1> HIDE DEF longer
<1>2. PICK row : Turns(row, left, right) /\ union(left, right) = row[n]
  BY UnionTurns
<1>3. PICK more : Turns(more, left, longer) /\ union(left, longer) = more[n + 1]
  BY <1>1, UnionTurns
<1>4. /\ row[0] = left /\ \A i \in 1 .. n : row[i] = appendUnique(row[i - 1], right[i])
      /\ more[0] = left
      /\ \A i \in 1 .. n + 1 : more[i] = appendUnique(more[i - 1], longer[i])
  BY <1>1, <1>2, <1>3 DEF Turns
<1> HIDE DEF n
<1> DEFINE Same == {i \in Nat : i <= n => more[i] = row[i]}
<1>5. 0 \in Same
  BY <1>4
<1>6. ASSUME NEW i \in Nat, i \in Same PROVE i + 1 \in Same
  <2>1. SUFFICES ASSUME i + 1 <= n PROVE more[i + 1] = row[i + 1]
    OBVIOUS
  <2>2. more[i] = row[i] /\ i + 1 \in 1 .. n /\ i + 1 \in 1 .. n + 1 /\ i + 1 - 1 = i
    BY <1>1, <1>6, <2>1
  <2>3. QED
    BY <1>1, <1>4, <2>2
<1> HIDE DEF Same
<1>7. n \in Same
  BY <1>1, <1>5, <1>6, NaturalInduction
<1>8. more[n] = row[n]
  BY <1>1, <1>7 DEF Same
<1>9. n + 1 \in 1 .. n + 1 /\ n + 1 - 1 = n
  BY <1>1
<1>10. more[n + 1] = appendUnique(more[n], value)
  BY <1>1, <1>4, <1>9
<1>11. QED
  BY <1>2, <1>3, <1>8, <1>10 DEF longer

(* No turn at all, and a single one.                                       *)
LEMMA UnionShort ==
  ASSUME NEW S, NEW left \in Seq(S), NEW value \in S
  PROVE  union(left, <<>>) = left /\ union(left, <<value>>) = appendUnique(left, value)
<1> DEFINE none == <<>>
<1>1. none \in Seq(S) /\ Len(none) = 0 /\ Append(none, value) = <<value>>
  BY EmptySeq
<1> HIDE DEF none
<1>2. PICK row : Turns(row, left, none) /\ union(left, none) = row[0]
  BY <1>1, UnionTurns
<1>3. union(left, none) = left
  BY <1>2 DEF Turns
<1>4. union(left, Append(none, value)) = appendUnique(union(left, none), value)
  BY <1>1, UnionAppend
<1>5. QED
  BY <1>1, <1>3, <1>4 DEF none

(* The required row of an operation holds what the operation requires and, *)
(* in the places of "$cap", the instantiating capabilities.                *)
LEMMA RequirementLemma ==
  ASSUME NEW S, NEW operation, NEW instantiated \in Seq(S),
         operation.requires \in Seq(S \cup {"$cap"})
  PROVE  requirement(operation, instantiated) \in Seq(S)
<1> DEFINE requires == operation.requires
           n == Len(requires)
           next(row, i) == IF requires[i] = "$cap" THEN row \o instantiated
                           ELSE Append(row, requires[i])
           Turn(g) == [i \in 0 .. n |-> IF i = 0 THEN <<>> ELSE next(g[i - 1], i)]
           required == CHOOSE g : g = Turn(g)
           step == [x \in Seq(S) \X Nat |->
                      IF x[2] \in 1 .. n THEN next(x[1], x[2]) ELSE <<>>]
           Rows == Seq(S)
<1>1. n \in Nat /\ \A i \in 1 .. n : requires[i] \in S \cup {"$cap"}
  OBVIOUS
<1>2. step \in [Seq(S) \X Nat -> Seq(S)]
  <2>1. SUFFICES ASSUME NEW row \in Seq(S), NEW i \in 1 .. n
                 PROVE  next(row, i) \in Seq(S)
    BY EmptySeq
  <2>2. QED
    BY <1>1, ConcatProperties, AppendProperties
<1> HIDE DEF required, step, Turn, next, n
<1>3. <<>> \in Rows /\ step \in [Rows \X Nat -> Rows]
  BY <1>2, EmptySeq
<1> HIDE DEF Rows
<1>4. \E g : Computes(g, Rows, <<>>, n, step)
  BY <1>1, <1>3, LoopExists
<1> USE DEF Rows
<1>5. PICK g \in [0 .. n -> Rows] :
        g[0] = <<>> /\ \A i \in 1 .. n : g[i] = step[<<g[i - 1], i>>]
  BY <1>4 DEF Computes
<1>6. ASSUME NEW i \in 1 .. n
      PROVE  g[i] = next(g[i - 1], i)
  <2>1. g[i] = step[<<g[i - 1], i>>] /\ g[i - 1] \in Seq(S) /\ i \in Nat
    BY <1>1, <1>5
  <2>2. QED
    BY <2>1 DEF step
<1>7. g = Turn(g)
  BY <1>1, <1>5, <1>6 DEF Turn
<1>8. required = Turn(required)
  BY <1>7 DEF required
<1>9. required[0] = <<>> /\ \A i \in 1 .. n : required[i] = next(required[i - 1], i)
  <2>1. \A f : /\ Turn(f)[0] = <<>>
              /\ \A i \in 1 .. n : Turn(f)[i] = next(f[i - 1], i)
    BY <1>1 DEF Turn
  <2> HIDE DEF Turn
  <2>2. QED
    BY <1>8, <2>1, Zenon
<1>10. requirement(operation, instantiated) = required[n]
  BY DEF requirement, required, Turn, next, n
<1> DEFINE Sound == {i \in Nat : i <= n => required[i] \in Seq(S)}
<1>11. 0 \in Sound
  BY <1>9, EmptySeq
<1>12. ASSUME NEW i \in Nat, i \in Sound PROVE i + 1 \in Sound
  <2>1. SUFFICES ASSUME i + 1 <= n PROVE required[i + 1] \in Seq(S)
    OBVIOUS
  <2>2. required[i] \in Seq(S) /\ i + 1 \in 1 .. n
    BY <1>1, <1>12, <2>1
  <2>3. required[i + 1] = next(required[i], i + 1)
    BY <1>9, <2>2
  <2>4. CASE requires[i + 1] = "$cap"
    BY <2>2, <2>3, <2>4, ConcatProperties DEF next
  <2>5. CASE requires[i + 1] # "$cap"
    BY <1>1, <2>2, <2>3, <2>5, AppendProperties DEF next
  <2>6. QED
    BY <2>4, <2>5
<1> HIDE DEF Sound
<1>13. n \in Sound
  BY <1>1, <1>11, <1>12, NaturalInduction
<1>14. QED
  BY <1>1, <1>10, <1>13 DEF Sound

=============================================================================
