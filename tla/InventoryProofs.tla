--------------------------- MODULE InventoryProofs ---------------------------
(***************************************************************************)
(* What CollectInventory counts, for every tree, however often it changes  *)
(* during the walk: the counts are the sizes of sets of paths that the     *)
(* walk has seen, all of what was there all the time among them.           *)
(***************************************************************************)
EXTENDS Inventory, RecursionLemmas, FiniteSetTheorems

-----------------------------------------------------------------------------
(* Sizes.                                                                  *)

LEMMA OneMore ==
  ASSUME NEW S, IsFiniteSet(S), NEW e, e \notin S
  PROVE  /\ IsFiniteSet(S \cup {e})
         /\ Cardinality(S) \in Nat /\ Cardinality(S \cup {e}) = Cardinality(S) + 1
BY FS_AddElement, FS_CardinalityType

LEMMA NoLarger ==
  ASSUME NEW T, IsFiniteSet(T), NEW S, S \subseteq T
  PROVE  /\ IsFiniteSet(S) /\ Cardinality(S) \in Nat /\ Cardinality(T) \in Nat
         /\ Cardinality(S) <= Cardinality(T)
BY FS_Subset, FS_CardinalityType

(* Pairs of one element with the members of a set are as many as these.    *)
LEMMA PairsWith ==
  ASSUME NEW A, IsFiniteSet(A), NEW e
  PROVE  /\ IsFiniteSet({e} \X A)
         /\ Cardinality({e} \X A) = Cardinality(A) /\ Cardinality(A) \in Nat
<1> DEFINE f == [a \in A |-> <<e, a>>]
<1>1. f \in Bijection(A, {e} \X A)
  <2>1. f \in [A -> {e} \X A] /\ \A a, b \in A : f[a] = f[b] => a = b
    OBVIOUS
  <2>2. \A t \in {e} \X A : \E a \in A : f[a] = t
    OBVIOUS
  <2>3. QED
    BY <2>1, <2>2 DEF Bijection, Injection, Surjection, IsInjective
<1>2. ExistsBijection(A, {e} \X A)
  BY <1>1 DEF ExistsBijection
<1>3. QED
  BY <1>2, FS_Bijection, FS_CardinalityType

LEMMA Disjoint ==
  ASSUME NEW S, IsFiniteSet(S), NEW T, IsFiniteSet(T), S \cap T = {}
  PROVE  /\ IsFiniteSet(S \cup T)
         /\ Cardinality(S) \in Nat /\ Cardinality(T) \in Nat
         /\ Cardinality(S \cup T) = Cardinality(S) + Cardinality(T)
BY FS_Union, FS_EmptySet, FS_CardinalityType

(* A file has as many lines as physicalLines says.                         *)
LEMMA LinesAre ==
  ASSUME NEW text \in Seq(STRING)
  PROVE  /\ IsFiniteSet(LineStarts(text)) /\ IsFiniteSet(DOMAIN text)
         /\ Cardinality(LineStarts(text)) = physicalLines(text)
         /\ Cardinality(DOMAIN text) = Len(text)
<1> DEFINE n == Len(text)
           Ends == {i \in DOMAIN text : text[i] = "end"}
           Inner == {i \in 1 .. n - 1 : text[i] = "end"}
           Later == {i \in 2 .. n : text[i - 1] = "end"}
<1>1. /\ DOMAIN text = 1 .. n /\ n \in Nat
      /\ IsFiniteSet(1 .. n) /\ Cardinality(1 .. n) = n
  BY FS_Interval, LenProperties
<1>2. IsFiniteSet(Ends) /\ IsFiniteSet(Inner) /\ IsFiniteSet(Later) /\ IsFiniteSet(LineStarts(text))
  <2>1. /\ Ends \subseteq 1 .. n /\ Inner \subseteq 1 .. n /\ Later \subseteq 1 .. n
        /\ LineStarts(text) \subseteq 1 .. n
    BY <1>1 DEF LineStarts
  <2>2. QED
    BY <1>1, <2>1, NoLarger
<1>3. Cardinality(Later) = Cardinality(Inner)
  <2> DEFINE f == [i \in Inner |-> i + 1]
  <2>1. f \in [Inner -> Later]
    BY <1>1
  <2>2. \A i, j \in Inner : f[i] = f[j] => i = j
    BY <1>1
  <2>3. ASSUME NEW t \in Later PROVE \E i \in Inner : f[i] = t
    <3>1. t - 1 \in Inner /\ f[t - 1] = t
      BY <1>1
    <3>2. QED
      BY <3>1
  <2>4. f \in Bijection(Inner, Later)
    <3> HIDE DEF f, Inner, Later
    <3>1. QED
      BY <2>1, <2>2, <2>3 DEF Bijection, Injection, Surjection, IsInjective
  <2>5. ExistsBijection(Inner, Later)
    BY <2>4 DEF ExistsBijection
  <2>6. QED
    BY <1>2, <2>5, FS_Bijection
<1>4. CASE text = <<>>
  <2>1. LineStarts(text) = {} /\ n = 0
    BY <1>4 DEF LineStarts
  <2>2. QED
    BY <1>1, <1>2, <1>4, <2>1, FS_EmptySet DEF physicalLines
<1>5. CASE text # <<>>
  <2>1. n >= 1 /\ Last(text) = text[n]
    BY <1>1, <1>5, EmptySeq DEF Last
  <2>2. LineStarts(text) = Later \cup {1} /\ 1 \notin Later
    BY <1>1, <2>1 DEF LineStarts
  <2> HIDE DEF Later
  <2>3. Cardinality(LineStarts(text)) = Cardinality(Later) + 1
    BY <1>2, <2>2, OneMore
  <2>4. CASE text[n] = "end"
    <3>1. Ends = Inner \cup {n} /\ n \notin Inner
      BY <1>1, <2>1, <2>4
    <3> HIDE DEF Ends, Inner
    <3>2. Cardinality(Ends) = Cardinality(Inner) + 1 /\ Cardinality(Inner) \in Nat
      BY <1>2, <3>1, OneMore
    <3>3. physicalLines(text) = Cardinality(Ends)
      BY <1>5, <2>1, <2>4, <3>2 DEF physicalLines, Ends
    <3>4. QED
      BY <1>1, <1>2, <1>3, <2>3, <3>2, <3>3
  <2>5. CASE text[n] # "end"
    <3>1. Ends = Inner
      BY <1>1, <2>1, <2>5
    <3>2. physicalLines(text) = 1 + Cardinality(Ends)
      BY <1>5, <2>1, <2>5 DEF physicalLines
    <3> HIDE DEF Ends, Inner
    <3>3. Cardinality(Inner) \in Nat
      BY <1>2, FS_CardinalityType
    <3>4. QED
      BY <1>1, <1>2, <1>3, <2>3, <3>1, <3>2, <3>3
  <2>6. QED
    BY <2>4, <2>5
<1>6. QED
  BY <1>4, <1>5

-----------------------------------------------------------------------------
(* What the counts are made of.                                            *)

Known == ToSet(Paths)

(* What may be found at a path.                                            *)
Entry(e) == \E path \in Known : \E node \in Nodes(path) : e = <<path, node>>

Entries(some) == IsFiniteSet(some) /\ \A e \in some : Entry(e)

LEMMA EntryIs ==
  ASSUME NEW e, Entry(e)
  PROVE  /\ e = <<e[1], e[2]>> /\ e[1] \in Known /\ e[2] \in Nodes(e[1])
         /\ e[2].kind = "regular" => e[2] # Directory /\ e[2] # Link /\ e[2].text \in Seq(STRING)
         /\ e[2].kind # "regular" => e[2] = Directory \/ e[2] = Link
         /\ Directory # Link
<1>1. PICK path \in Known : \E node \in Nodes(path) : e = <<path, node>>
  BY DEF Entry
<1>2. PICK node \in Nodes(path) : e = <<path, node>>
  BY <1>1
<1>3. node = Directory \/ node = Link \/ \E text \in Texts : node = Regular(text)
  BY <1>2 DEF Nodes
<1>4. Directory.kind = "directory" /\ Link.kind = "link"
  BY DEF Directory, Link
<1>5. \A text : Regular(text).kind = "regular" /\ Regular(text).text = text
  BY DEF Regular
<1>6. e[1] = path /\ e[2] = node
  BY <1>2
<1>7. QED
  BY <1>2, <1>3, <1>4, <1>5, <1>6, PathsAssumption

(* Sets of entries, and the lines and the bytes in them, are finite.       *)
LEMMA InsideFinite ==
  ASSUME NEW some, Entries(some), \A e \in some : e[2].kind = "regular"
  PROVE  IsFiniteSet(LinesIn(some)) /\ IsFiniteSet(BytesIn(some))
<1> DEFINE L == {{e} \X LineStarts(e[2].text) : e \in some}
           B == {{e} \X DOMAIN e[2].text : e \in some}
           l == [e \in some |-> {e} \X LineStarts(e[2].text)]
           b == [e \in some |-> {e} \X DOMAIN e[2].text]
<1>1. l \in Surjection(some, L) /\ b \in Surjection(some, B)
  BY DEF Surjection
<1>2. ASSUME NEW e \in some
      PROVE  IsFiniteSet({e} \X LineStarts(e[2].text)) /\ IsFiniteSet({e} \X DOMAIN e[2].text)
  BY EntryIs, LinesAre, PairsWith DEF Entries
<1>3. IsFiniteSet(L) /\ IsFiniteSet(B)
  <2> HIDE DEF l, b, L, B
  <2>1. QED
    BY <1>1, FS_Surjection DEF Entries
<1>4. (\A part \in L : IsFiniteSet(part)) /\ (\A part \in B : IsFiniteSet(part))
  BY <1>2
<1>5. LinesIn(some) = UNION L /\ BytesIn(some) = UNION B
  BY DEF LinesIn, BytesIn
<1> HIDE DEF L, B
<1>6. QED
  BY <1>3, <1>4, <1>5, FS_UNION

LEMMA FilesAre ==
  ASSUME NEW some, Entries(some), NEW paths
  PROVE  /\ Entries(Of(paths, some)) /\ Entries(Files(some)) /\ Entries(Real(some))
         /\ \A e \in Of(paths, some) : e[2].kind = "regular"
<1>1. Of(paths, some) \subseteq some /\ Files(some) \subseteq some /\ Real(some) \subseteq some
  BY DEF Of, Files, Real
<1>2. IsFiniteSet(Of(paths, some)) /\ IsFiniteSet(Files(some)) /\ IsFiniteSet(Real(some))
  BY <1>1, NoLarger DEF Entries
<1>3. QED
  BY <1>1, <1>2 DEF Entries, Of, Files

(* The more there is, the more is counted.                                 *)
LEMMA CountsGrow ==
  ASSUME NEW more, Entries(more), NEW some, Real(some) \subseteq more
  PROVE  \A count \in DOMAIN Nothing :
           Expected(some)[count] \in Nat /\ Expected(some)[count] <= Expected(more)[count]
<1> DEFINE less == Real(some)
           all == Real(more)
           directories(real) == {e \in real : e[2] = Directory /\ e[1] # Git}
           readme(real) == \E e \in real : e[1] = Readme /\ e[2].kind = "regular"
<1>1. less \subseteq all /\ Entries(all)
  BY FilesAre DEF Real
<1>2. ASSUME NEW paths
      PROVE  /\ Cardinality(Of(paths, less)) \in Nat
             /\ Cardinality(Of(paths, less)) <= Cardinality(Of(paths, all))
             /\ Cardinality(LinesIn(Of(paths, less))) \in Nat
             /\ Cardinality(LinesIn(Of(paths, less))) <= Cardinality(LinesIn(Of(paths, all)))
             /\ Cardinality(BytesIn(Of(paths, less))) \in Nat
             /\ Cardinality(BytesIn(Of(paths, less))) <= Cardinality(BytesIn(Of(paths, all)))
  <2>1. Of(paths, less) \subseteq Of(paths, all)
    BY <1>1 DEF Of, Files
  <2>2. /\ LinesIn(Of(paths, less)) \subseteq LinesIn(Of(paths, all))
        /\ BytesIn(Of(paths, less)) \subseteq BytesIn(Of(paths, all))
    <3> DEFINE S == Of(paths, less)
               T == Of(paths, all)
    <3>1. S \subseteq T
      BY <2>1
    <3> HIDE DEF S, T
    <3>2. LinesIn(S) \subseteq LinesIn(T) /\ BytesIn(S) \subseteq BytesIn(T)
      BY <3>1 DEF LinesIn, BytesIn
    <3>3. QED
      BY <3>2 DEF S, T
  <2>3. IsFiniteSet(Of(paths, all))
    BY <1>1, FilesAre DEF Entries
  <2>4. IsFiniteSet(LinesIn(Of(paths, all))) /\ IsFiniteSet(BytesIn(Of(paths, all)))
    BY <1>1, FilesAre, InsideFinite
  <2>5. QED
    BY <2>1, <2>2, <2>3, <2>4, NoLarger
<1>3. /\ Cardinality(Files(less)) \in Nat
      /\ Cardinality(Files(less)) <= Cardinality(Files(all))
  <2>1. Files(less) \subseteq Files(all) /\ IsFiniteSet(Files(all))
    BY <1>1, FilesAre DEF Files, Entries
  <2>2. QED
    BY <2>1, NoLarger
<1>4. /\ Cardinality(directories(less)) \in Nat
      /\ Cardinality(directories(less)) <= Cardinality(directories(all))
  <2>1. directories(less) \subseteq directories(all) /\ directories(all) \subseteq all
    BY <1>1
  <2> HIDE DEF directories
  <2>2. QED
    BY <1>1, <2>1, NoLarger DEF Entries
<1>5. One(readme(less)) \in Nat /\ One(readme(less)) <= One(readme(all))
  <2>1. readme(less) => readme(all)
    BY <1>1
  <2> HIDE DEF readme
  <2>2. QED
    BY <2>1 DEF One
<1>6. QED
  <2> DEFINE counts(real) ==
        [RootReadmeExcluded |-> One(readme(real)),
         GoFiles |-> Cardinality(Of(GoFiles, real)),
         GoPhysicalLines |-> Cardinality(LinesIn(Of(GoFiles, real))),
         GoooFiles |-> Cardinality(Of(GoooFiles, real)),
         GoooPhysicalLines |-> Cardinality(LinesIn(Of(GoooFiles, real))),
         DescendantDirs |-> Cardinality(directories(real)),
         RegularFiles |-> Cardinality(Files(real)),
         GeneratedFiles |-> Cardinality(Of(Generated, real)),
         GeneratedBytes |-> Cardinality(BytesIn(Of(Generated, real)))]
  <2>1. Expected(some) = counts(less) /\ Expected(more) = counts(all)
    BY DEF Expected
  <2> HIDE DEF readme, directories, less, all
  <2>2. QED
    BY <1>2, <1>3, <1>4, <1>5, <2>1 DEF Nothing

(* One more file of a kind: it and what is in it are counted.              *)
LEMMA FileAdded ==
  ASSUME NEW seen, Entries(seen), NEW e, Entry(e), e \notin seen, NEW paths
  PROVE  LET files == Of(paths, seen \cup {e})
             one   == One(e[1] \in paths)
         IN  /\ e \in Files({e}) =>
                  /\ Cardinality(files) = Cardinality(Of(paths, seen)) + one
                  /\ Cardinality(LinesIn(files)) =
                       Cardinality(LinesIn(Of(paths, seen))) + one * physicalLines(e[2].text)
                  /\ Cardinality(BytesIn(files)) =
                       Cardinality(BytesIn(Of(paths, seen))) + one * Len(e[2].text)
             /\ e \notin Files({e}) => files = Of(paths, seen)
<1> DEFINE old == Of(paths, seen)
           new == Of(paths, seen \cup {e})
<1>1. e \notin Files({e}) \/ e[1] \notin paths => new = old
  BY DEF Of, Files
<1>2. ASSUME e \in Files({e}) PROVE physicalLines(e[2].text) \in Nat /\ Len(e[2].text) \in Nat
  <2>1. e[2].text \in Seq(STRING)
    BY <1>2, EntryIs DEF Files
  <2>2. QED
    BY <2>1, LinesAre, FS_CardinalityType
<1>3. /\ Entries(old) /\ Cardinality(old) \in Nat
      /\ IsFiniteSet(LinesIn(old)) /\ IsFiniteSet(BytesIn(old))
  <2>1. Entries(old) /\ \A d \in old : d[2].kind = "regular"
    BY FilesAre
  <2> HIDE DEF old
  <2>2. QED
    BY <2>1, InsideFinite, FS_CardinalityType DEF Entries
<1>4. Cardinality(LinesIn(old)) \in Nat /\ Cardinality(BytesIn(old)) \in Nat
  BY <1>3, FS_CardinalityType
<1>5. ASSUME e \in Files({e}), e[1] \notin paths
      PROVE  /\ Cardinality(new) = Cardinality(old) + One(e[1] \in paths)
             /\ Cardinality(LinesIn(new)) =
                  Cardinality(LinesIn(old)) + One(e[1] \in paths) * physicalLines(e[2].text)
             /\ Cardinality(BytesIn(new)) =
                  Cardinality(BytesIn(old)) + One(e[1] \in paths) * Len(e[2].text)
  <2>1. One(e[1] \in paths) = 0 /\ new = old
    BY <1>1, <1>5 DEF One
  <2> DEFINE n == physicalLines(e[2].text)
             m == Len(e[2].text)
  <2>2. n \in Nat /\ m \in Nat
    BY <1>2, <1>5
  <2> HIDE DEF n, m
  <2>3. 0 * n = 0 /\ 0 * m = 0
    BY <2>2
  <2> HIDE DEF old, new
  <2>4. QED
    BY <1>3, <1>4, <2>1, <2>3 DEF n, m
<1>6. ASSUME e \in Files({e}), e[1] \in paths
      PROVE  /\ Cardinality(new) = Cardinality(old) + One(e[1] \in paths)
             /\ Cardinality(LinesIn(new)) =
                  Cardinality(LinesIn(old)) + One(e[1] \in paths) * physicalLines(e[2].text)
             /\ Cardinality(BytesIn(new)) =
                  Cardinality(BytesIn(old)) + One(e[1] \in paths) * Len(e[2].text)
  <2> DEFINE text == e[2].text
             lines == {e} \X LineStarts(text)
             bytes == {e} \X DOMAIN text
  <2>1. One(e[1] \in paths) = 1 /\ new = old \cup {e} /\ e \notin old
    BY <1>6 DEF One, Of, Files
  <2>2. text \in Seq(STRING)
    BY <1>6, EntryIs DEF Files
  <2>3. Cardinality(new) = Cardinality(old) + 1
    <3> HIDE DEF old, new
    <3>1. QED
      BY <1>3, <2>1, OneMore DEF Entries
  <2>4. /\ LinesIn(new) = LinesIn(old) \cup lines /\ LinesIn(old) \cap lines = {}
        /\ BytesIn(new) = BytesIn(old) \cup bytes /\ BytesIn(old) \cap bytes = {}
    <3> HIDE DEF old, new
    <3>1. LinesIn(new) = LinesIn(old) \cup lines /\ BytesIn(new) = BytesIn(old) \cup bytes
      BY <2>1 DEF LinesIn, BytesIn
    <3>2. LinesIn(old) \cap lines = {} /\ BytesIn(old) \cap bytes = {}
      BY <2>1 DEF LinesIn, BytesIn
    <3>3. QED
      BY <3>1, <3>2
  <2>5. /\ IsFiniteSet(lines) /\ Cardinality(lines) = physicalLines(text)
        /\ IsFiniteSet(bytes) /\ Cardinality(bytes) = Len(text)
    <3>1. /\ IsFiniteSet(LineStarts(text)) /\ Cardinality(LineStarts(text)) = physicalLines(text)
          /\ IsFiniteSet(DOMAIN text) /\ Cardinality(DOMAIN text) = Len(text)
      BY <2>2, LinesAre
    <3>2. QED
      BY <3>1, PairsWith
  <2> HIDE DEF old, new, lines, bytes
  <2>6. /\ Cardinality(LinesIn(new)) = Cardinality(LinesIn(old)) + physicalLines(text)
        /\ Cardinality(BytesIn(new)) = Cardinality(BytesIn(old)) + Len(text)
    BY <1>3, <2>4, <2>5, Disjoint
  <2>7. 1 * physicalLines(text) = physicalLines(text) /\ 1 * Len(text) = Len(text)
    BY <1>2, <1>6
  <2>8. QED
    BY <2>1, <2>3, <2>6, <2>7
<1>7. QED
  BY <1>1, <1>5, <1>6

(* The counts after one more path are those of VisitPresent.               *)
LEMMA VisitCounts ==
  ASSUME NEW seen, Entries(seen), NEW e, Entry(e), e \notin seen,
         \A d \in seen \cup {e} : d[1] \notin InGit, inventory = Expected(seen)
  PROVE  Expected(seen \cup {e}) =
           IF e[1] = Git \/ e[2] = Link THEN inventory
           ELSE IF e[2] = Directory THEN [inventory EXCEPT !.DescendantDirs = @ + 1]
           ELSE IF e[1] = Readme THEN [inventory EXCEPT !.RootReadmeExcluded = 1]
           ELSE Counted(e[1], e[2].text)
<1> DEFINE new == seen \cup {e}
           directories(real) == {d \in real : d[2] = Directory /\ d[1] # Git}
           readme(real) == \E d \in real : d[1] = Readme /\ d[2].kind = "regular"
           file == e \in Files({e})
<1>1. Real(seen) = seen /\ Real(new) = new
  BY DEF Real
<1>2. /\ Expected(seen).RootReadmeExcluded = One(readme(seen))
      /\ Expected(new).RootReadmeExcluded = One(readme(new))
      /\ Expected(seen).DescendantDirs = Cardinality(directories(seen))
      /\ Expected(new).DescendantDirs = Cardinality(directories(new))
  BY <1>1 DEF Expected
<1>3. e[2].kind # "regular" <=> e[2] = Directory \/ e[2] = Link
  BY EntryIs
<1>4. /\ file <=> e[1] # Git /\ e[2] # Link /\ e[2] # Directory /\ e[1] # Readme
      /\ Directory # Link
  BY <1>3, EntryIs DEF Files
<1>5. IF e[2] = Directory /\ e[1] # Git
      THEN Cardinality(directories(new)) = Cardinality(directories(seen)) + 1
      ELSE directories(new) = directories(seen)
  <2>1. directories(seen) \subseteq seen /\ e \notin directories(seen)
    OBVIOUS
  <2>2. IsFiniteSet(directories(seen))
    BY <2>1, NoLarger DEF Entries
  <2>3. directories(new) = IF e[2] = Directory /\ e[1] # Git THEN directories(seen) \cup {e}
                           ELSE directories(seen)
    OBVIOUS
  <2> HIDE DEF directories, new
  <2>4. QED
    BY <2>1, <2>2, <2>3, OneMore
<1>6. One(readme(new)) = IF e[1] = Readme /\ e[2].kind = "regular" THEN 1 ELSE One(readme(seen))
  BY DEF One
<1>7. IF file THEN Cardinality(Files(new)) = Cardinality(Files(seen)) + 1 ELSE Files(new) = Files(seen)
  <2>1. IsFiniteSet(Files(seen)) /\ e \notin Files(seen)
    BY FilesAre DEF Entries, Files
  <2>2. Files(new) = IF file THEN Files(seen) \cup {e} ELSE Files(seen)
    BY DEF Files
  <2> HIDE DEF file, new
  <2>3. QED
    BY <2>1, <2>2, OneMore
<1> DEFINE counts(real, dirs, top) ==
      [RootReadmeExcluded |-> top,
       GoFiles |-> Cardinality(Of(GoFiles, real)),
       GoPhysicalLines |-> Cardinality(LinesIn(Of(GoFiles, real))),
       GoooFiles |-> Cardinality(Of(GoooFiles, real)),
       GoooPhysicalLines |-> Cardinality(LinesIn(Of(GoooFiles, real))),
       DescendantDirs |-> dirs,
       RegularFiles |-> Cardinality(Files(real)),
       GeneratedFiles |-> Cardinality(Of(Generated, real)),
       GeneratedBytes |-> Cardinality(BytesIn(Of(Generated, real)))]
<1>8. /\ Expected(seen) = counts(seen, Cardinality(directories(seen)), One(readme(seen)))
      /\ Expected(new) = counts(new, Cardinality(directories(new)), One(readme(new)))
  BY <1>1 DEF Expected
<1>9. ASSUME ~file
      PROVE  counts(new, Cardinality(directories(new)), One(readme(new))) =
             counts(seen, Cardinality(directories(new)), One(readme(new)))
  <2>1. \A paths : Of(paths, new) = Of(paths, seen)
    BY <1>9, FileAdded
  <2> HIDE DEF directories, readme, new, file
  <2>2. QED
    BY <1>7, <1>9, <2>1
<1>10. CASE e[1] = Git \/ e[2] = Link
  <2> HIDE DEF directories, readme, new, file, counts
  <2>1. ~file /\ directories(new) = directories(seen) /\ One(readme(new)) = One(readme(seen))
    BY <1>3, <1>4, <1>5, <1>6, <1>10, PathsAssumption
  <2>2. QED
    BY <1>8, <1>9, <1>10, <2>1 DEF new
<1>11. CASE e[1] # Git /\ e[2] = Directory
  <2>1. /\ ~file /\ e[2] # Link /\ One(readme(new)) = One(readme(seen))
        /\ Cardinality(directories(new)) = Cardinality(directories(seen)) + 1
    BY <1>3, <1>4, <1>5, <1>6, <1>11
  <2> HIDE DEF directories, readme, new, file
  <2>2. Expected(new) = [inventory EXCEPT !.DescendantDirs = @ + 1]
    BY <1>8, <1>9, <2>1
  <2>3. QED
    BY <1>11, <2>1, <2>2 DEF new
<1>12. CASE e[1] # Git /\ e[2] \notin {Directory, Link} /\ e[1] = Readme
  <2>1. ~file /\ directories(new) = directories(seen) /\ One(readme(new)) = 1
    BY <1>3, <1>4, <1>5, <1>6, <1>12
  <2> HIDE DEF directories, readme, new, file
  <2>2. Expected(new) = [inventory EXCEPT !.RootReadmeExcluded = 1]
    BY <1>8, <1>9, <2>1
  <2>3. QED
    BY <1>12, <2>2 DEF new
<1>13. CASE file
  <2>1. /\ e[1] # Git /\ e[2] # Link /\ e[2] # Directory /\ e[1] # Readme
        /\ directories(new) = directories(seen) /\ One(readme(new)) = One(readme(seen))
        /\ Cardinality(Files(new)) = Cardinality(Files(seen)) + 1
    BY <1>4, <1>5, <1>6, <1>7, <1>13
  <2>2. ASSUME NEW paths
        PROVE  /\ Cardinality(Of(paths, new)) = Cardinality(Of(paths, seen)) + One(e[1] \in paths)
               /\ Cardinality(LinesIn(Of(paths, new))) =
                    Cardinality(LinesIn(Of(paths, seen))) + One(e[1] \in paths) * physicalLines(e[2].text)
               /\ Cardinality(BytesIn(Of(paths, new))) =
                    Cardinality(BytesIn(Of(paths, seen))) + One(e[1] \in paths) * Len(e[2].text)
    BY <1>13, FileAdded
  <2> HIDE DEF directories, readme, new, file
  <2>3. Expected(new) = Counted(e[1], e[2].text)
    <3> DEFINE size(some) == Cardinality(some)
               lines(paths) == One(e[1] \in paths) * physicalLines(e[2].text)
               bytes(paths) == One(e[1] \in paths) * Len(e[2].text)
               one(paths) == One(e[1] \in paths)
    <3>1. /\ size(Of(GoFiles, new)) = size(Of(GoFiles, seen)) + one(GoFiles)
          /\ size(Of(GoooFiles, new)) = size(Of(GoooFiles, seen)) + one(GoooFiles)
          /\ size(Of(Generated, new)) = size(Of(Generated, seen)) + one(Generated)
      BY <2>2
    <3>2. /\ size(LinesIn(Of(GoFiles, new))) = size(LinesIn(Of(GoFiles, seen))) + lines(GoFiles)
          /\ size(LinesIn(Of(GoooFiles, new))) = size(LinesIn(Of(GoooFiles, seen))) + lines(GoooFiles)
          /\ size(BytesIn(Of(Generated, new))) = size(BytesIn(Of(Generated, seen))) + bytes(Generated)
      BY <2>2
    <3>3. Counted(e[1], e[2].text) =
            [inventory EXCEPT !.RegularFiles = @ + 1,
               !.GoFiles = @ + one(GoFiles), !.GoPhysicalLines = @ + lines(GoFiles),
               !.GoooFiles = @ + one(GoooFiles), !.GoooPhysicalLines = @ + lines(GoooFiles),
               !.GeneratedFiles = @ + one(Generated), !.GeneratedBytes = @ + bytes(Generated)]
      BY DEF Counted
    <3> DEFINE d == Cardinality(directories(seen))
               t == One(readme(seen))
               now == Counted(e[1], e[2].text)
               then == counts(new, d, t)
    <3>4. inventory = counts(seen, d, t)
      BY <1>8
    <3> HIDE DEF lines, bytes, one, d, t
    <3>5. now = then
      <4>1. now = [count \in DOMAIN Nothing |-> now[count]]
        BY <3>3, <3>4 DEF Nothing
      <4>2. then = [count \in DOMAIN Nothing |-> then[count]]
        BY DEF Nothing
      <4>3. /\ now.RootReadmeExcluded = t /\ now.DescendantDirs = d
            /\ now.RegularFiles = size(Files(new))
        BY <2>1, <3>3, <3>4
      <4>4. /\ now.GoFiles = size(Of(GoFiles, new))
            /\ now.GoPhysicalLines = size(LinesIn(Of(GoFiles, new)))
        BY <3>1, <3>2, <3>3, <3>4
      <4>5. /\ now.GoooFiles = size(Of(GoooFiles, new))
            /\ now.GoooPhysicalLines = size(LinesIn(Of(GoooFiles, new)))
        BY <3>1, <3>2, <3>3, <3>4
      <4>6. /\ now.GeneratedFiles = size(Of(Generated, new))
            /\ now.GeneratedBytes = size(BytesIn(Of(Generated, new)))
        BY <3>1, <3>2, <3>3, <3>4
      <4>7. \A count \in DOMAIN Nothing : now[count] = then[count]
        <5> HIDE DEF now
        <5>1. QED
          BY <4>3, <4>4, <4>5, <4>6 DEF Nothing
      <4> HIDE DEF now, then
      <4>8. QED
        BY <4>1, <4>2, <4>7, Zenon
    <3>6. Expected(new) = then
      BY <1>8, <2>1 DEF d, t
    <3>7. QED
      BY <3>5, <3>6
  <2>4. QED
    BY <2>1, <2>3 DEF new
<1>14. QED
  BY <1>4, <1>10, <1>11, <1>12, <1>13

-----------------------------------------------------------------------------
(* The walk.                                                               *)

Paths1(some) == {e[1] : e \in some}

(* What is there is of the kinds that may be, each in its directory.       *)
Shape ==
  /\ DOMAIN tree \subseteq Known /\ Closed(DOMAIN tree)
  /\ \A path \in DOMAIN tree : tree[path] \in Nodes(path)
  /\ todo \subseteq DOMAIN Paths /\ Entries(ever)
  /\ stayed \subseteq Present(tree) /\ Present(tree) \subseteq ever
  /\ Closed(Paths1(stayed))

(* seen is what Walk has looked at.  No path of it is still listed, or in  *)
(* .git; a path is listed when its directory has been looked at, and what  *)
(* stays there is then listed or seen, or its directory is not yet seen.   *)
Walked(seen) ==
  LET looked == Paths1(seen)
      listed == looked \cup {Paths[i] : i \in todo}
  IN  /\ seen \subseteq ever /\ inventory = Expected(seen)
      /\ \A i \in todo : Paths[i] \notin looked
      /\ \A path \in listed : path \notin InGit /\ Parent[path] \in looked \cup {"."}
      /\ \A e \in stayed :
           \/ e[1] \in InGit \/ e \in seen \/ e[1] \in {Paths[i] : i \in todo}
           \/ Parent[e[1]] \notin looked \cup {"."}

InventoryInv == Shape /\ (\E seen : Walked(seen)) /\ (pc = "done" => todo = {})

(* What is there, as entries.                                              *)
LEMMA PathsAre ==
  /\ DOMAIN Paths = 1 .. Len(Paths) /\ Len(Paths) \in Nat
  /\ IsFiniteSet(Known) /\ "." \notin Known
  /\ \A i \in DOMAIN Paths : Paths[i] \in Known
  /\ \A path \in Known : \E i \in DOMAIN Paths : Paths[i] = path
  /\ \A i, j \in DOMAIN Paths : Paths[i] = Paths[j] => i = j
<1>1. /\ DOMAIN Paths = 1 .. Len(Paths) /\ Len(Paths) \in Nat
      /\ \A i \in DOMAIN Paths : Paths[i] # "."
  BY PathsAssumption, LenProperties, ElementOfSeq
<1>2. /\ \A i \in DOMAIN Paths : Paths[i] \in Known
      /\ \A path \in Known : \E i \in DOMAIN Paths : Paths[i] = path
  BY DEF Known, ToSet
<1>3. Paths \in Surjection(1 .. Len(Paths), Known)
  BY <1>1, <1>2, PathsAssumption DEF Surjection
<1>4. IsFiniteSet(Known)
  BY <1>1, <1>3, FS_Interval, FS_Surjection
<1>5. QED
  BY <1>1, <1>2, <1>4, PathsAssumption DEF IsInjective

LEMMA PresentAre ==
  ASSUME NEW t, DOMAIN t \subseteq Known, \A path \in DOMAIN t : t[path] \in Nodes(path)
  PROVE  Entries(Present(t)) /\ Paths1(Present(t)) = DOMAIN t
<1> DEFINE f == [path \in DOMAIN t |-> <<path, t[path]>>]
<1>1. f \in Surjection(DOMAIN t, Present(t))
  BY DEF Surjection, Present
<1>2. IsFiniteSet(DOMAIN t)
  BY PathsAre, NoLarger
<1> HIDE DEF f
<1>3. IsFiniteSet(Present(t))
  BY <1>1, <1>2, FS_Surjection
<1>4. \A e \in Present(t) : Entry(e)
  BY DEF Present, Entry
<1>5. Paths1(Present(t)) = DOMAIN t
  <2>1. \A e \in Present(t) : e[1] \in DOMAIN t
    BY DEF Present
  <2>2. ASSUME NEW path \in DOMAIN t PROVE path \in Paths1(Present(t))
    <3>1. <<path, t[path]>> \in Present(t) /\ <<path, t[path]>>[1] = path
      BY DEF Present
    <3> DEFINE e == <<path, t[path]>>
    <3> HIDE DEF e
    <3>2. e \in Present(t) /\ path = e[1]
      BY <3>1 DEF e
    <3>3. QED
      BY <3>2 DEF Paths1
  <2>3. QED
    BY <2>1, <2>2 DEF Paths1
<1>6. QED
  BY <1>3, <1>4, <1>5 DEF Entries

LEMMA NothingIsExpected == Expected({}) = Nothing
<1>1. /\ Real({}) = {} /\ Files({}) = {} /\ \A paths : Of(paths, {}) = {}
      /\ LinesIn({}) = {} /\ BytesIn({}) = {}
  BY DEF Real, Files, Of, LinesIn, BytesIn
<1>2. Cardinality({}) = 0 /\ {e \in {} : e[2] = Directory /\ e[1] # Git} = {}
  BY FS_EmptySet
<1>3. One(\E e \in {} : e[1] = Readme /\ e[2].kind = "regular") = 0
  BY DEF One
<1>4. QED
  BY <1>1, <1>2, <1>3 DEF Expected, Nothing

LEMMA InitInventory == Init => InventoryInv
<1>1. SUFFICES ASSUME Init PROVE InventoryInv
  OBVIOUS
<1>2. /\ DOMAIN tree \subseteq Known /\ Closed(DOMAIN tree)
      /\ \A path \in DOMAIN tree : tree[path] \in Nodes(path)
  <2>1. PICK names \in SUBSET Known :
          /\ Closed(names)
          /\ tree \in {t \in [names -> UNION {Nodes(path) : path \in names}] :
                         \A path \in names : t[path] \in Nodes(path)}
    BY <1>1 DEF Init, Known
  <2>2. DOMAIN tree = names
    BY <2>1
  <2>3. QED
    BY <2>1, <2>2
<1>3. Entries(Present(tree)) /\ Paths1(Present(tree)) = DOMAIN tree
  BY <1>2, PresentAre
<1>4. todo = Names(".", DOMAIN tree) /\ stayed = Present(tree) /\ ever = Present(tree)
  BY <1>1 DEF Init
<1>5. todo \subseteq DOMAIN Paths
  BY <1>4 DEF Names
<1>6. Shape
  BY <1>2, <1>3, <1>4, <1>5 DEF Shape
<1>7. Walked({})
  <2>1. inventory = Expected({})
    BY <1>1, NothingIsExpected DEF Init
  <2>2. ASSUME NEW i \in todo PROVE Paths[i] \notin InGit /\ Parent[Paths[i]] = "."
    <3>1. i \in DOMAIN Paths /\ Parent[Paths[i]] = "."
      BY <1>4 DEF Names
    <3>2. "." \notin InGit \cup {Git}
      BY PathsAre, PathsAssumption DEF Known
    <3>3. QED
      BY <3>1, <3>2, PathsAssumption
  <2>3. ASSUME NEW e \in stayed, Parent[e[1]] = "."
        PROVE  e[1] \in {Paths[i] : i \in todo}
    <3>1. e[1] \in DOMAIN tree
      BY <1>3, <1>4 DEF Paths1
    <3>2. PICK i \in DOMAIN Paths : Paths[i] = e[1]
      BY <1>2, <3>1, PathsAre
    <3>3. i \in todo
      BY <1>4, <2>3, <3>1, <3>2 DEF Names
    <3>4. QED
      BY <3>2, <3>3
  <2>4. Paths1({}) = {}
    BY DEF Paths1
  <2>5. QED
    BY <2>1, <2>2, <2>3, <2>4 DEF Walked
<1>8. QED
  BY <1>1, <1>6, <1>7 DEF InventoryInv, Init

(* The next path, of which Walk knows that it is listed.                   *)
LEMMA FirstListed ==
  ASSUME Shape, todo # {}
  PROVE  Min(todo) \in todo /\ Visited \in Known /\ Visited = Paths[Min(todo)]
<1>1. todo \subseteq Nat /\ todo \subseteq DOMAIN Paths
  BY PathsAre DEF Shape
<1>2. \E n \in todo : \A m \in todo : n <= m
  BY <1>1, LeastNatural
<1>3. Min(todo) \in todo
  BY <1>2 DEF Min
<1>4. QED
  BY <1>1, <1>3, PathsAre DEF Visited

LEMMA VisitPreserves ==
  ASSUME InventoryInv, VisitPresent, UNCHANGED <<tree, stayed, ever>>
  PROVE  InventoryInv'
<1>1. PICK seen : Walked(seen)
  BY DEF InventoryInv
<1> DEFINE path == Visited
           node == tree[path]
           e == <<path, node>>
           new == seen \cup {e}
           below == IF path # Git /\ node = Directory THEN Names(path, DOMAIN tree) ELSE {}
<1>2. /\ Shape /\ todo # {} /\ path \in DOMAIN tree /\ pc' = pc /\ pc = "walk"
      /\ todo' = (todo \ {Min(todo)}) \cup below
  BY DEF InventoryInv, VisitPresent
<1>3. Min(todo) \in todo /\ path = Paths[Min(todo)] /\ path \in Known /\ Min(todo) \in DOMAIN Paths
  BY <1>2, FirstListed DEF Shape
<1>4. /\ path \notin Paths1(seen) /\ path \notin InGit
      /\ Parent[path] \in Paths1(seen) \cup {"."}
      /\ seen \subseteq ever /\ inventory = Expected(seen)
  BY <1>1, <1>3 DEF Walked
<1>5. /\ node \in Nodes(path) /\ e \in Present(tree) /\ e \in ever /\ Entry(e)
      /\ e[1] = path /\ e[2] = node /\ e \notin seen
  BY <1>2, <1>3, <1>4 DEF Shape, Present, Entry, Paths1
<1>6. below \subseteq DOMAIN Paths /\ \A i \in below : Parent[Paths[i]] = path /\ path # Git
  BY DEF Names
<1>7. Shape'
  BY <1>2, <1>6 DEF Shape
<1>8. Paths1(new) = Paths1(seen) \cup {path}
  <2> HIDE DEF e, path
  <2>1. QED
    BY <1>5 DEF Paths1
<1>9. Entries(seen)
  <2>1. IsFiniteSet(seen)
    BY <1>2, <1>4, NoLarger DEF Shape, Entries
  <2>2. QED
    BY <1>2, <1>4, <2>1 DEF Shape, Entries
<1>10. inventory' = Expected(new)
  <2>1. ASSUME NEW d \in new PROVE d[1] \notin InGit
    BY <1>1, <1>4, <1>5 DEF Walked, Paths1
  <2>2. inventory' =
          IF path = Git \/ node = Link THEN inventory
          ELSE IF node = Directory THEN [inventory EXCEPT !.DescendantDirs = @ + 1]
          ELSE IF path = Readme THEN [inventory EXCEPT !.RootReadmeExcluded = 1]
          ELSE Counted(path, node.text)
    BY DEF VisitPresent
  <2> HIDE DEF e, path, node
  <2>3. QED
    BY <1>4, <1>5, <1>9, <2>1, <2>2, VisitCounts
<1>11. ASSUME NEW i \in below PROVE Paths[i] \notin Paths1(new)
  <2>1. i \in DOMAIN Paths /\ Parent[Paths[i]] = path /\ path # "."
    BY <1>3, <1>6, PathsAre
  <2>2. PICK j \in 1 .. i - 1 : path = Paths[j]
    BY <2>1, PathsAssumption
  <2>3. Paths[i] # path
    <3>1. i \in Nat /\ j \in DOMAIN Paths /\ j # i
      BY <2>1, PathsAre
    <3>2. QED
      BY <2>1, <2>2, <3>1, PathsAre
  <2>4. Paths[i] \notin Paths1(seen)
    BY <1>1, <1>4, <2>1 DEF Walked
  <2>5. QED
    BY <1>8, <2>3, <2>4
<1>12. ASSUME NEW i \in todo' PROVE Paths[i] \notin Paths1(new)
  <2>1. CASE i \in below
    BY <1>11, <2>1
  <2>2. CASE i \in todo /\ i # Min(todo)
    <3>1. Paths[i] \notin Paths1(seen) /\ Paths[i] # path
      BY <1>1, <1>2, <1>3, <2>2, PathsAre DEF Walked, Shape
    <3>2. QED
      BY <1>8, <3>1
  <2>3. QED
    BY <1>2, <2>1, <2>2
<1>13. ASSUME NEW p \in Paths1(new) \cup {Paths[i] : i \in todo'}
       PROVE  p \notin InGit /\ Parent[p] \in Paths1(new) \cup {"."}
  <2>1. CASE p \in Paths1(seen) \cup {Paths[i] : i \in todo}
    BY <1>1, <1>8, <2>1 DEF Walked
  <2>2. CASE p \in {Paths[i] : i \in below}
    <3>1. Parent[p] = path /\ path # Git
      BY <1>6, <2>2
    <3>2. p \notin InGit
      BY <1>4, <3>1, PathsAssumption
    <3>3. QED
      BY <1>8, <3>1, <3>2
  <2>3. QED
    BY <1>2, <1>3, <1>8, <1>13, <2>1, <2>2
<1>14. ASSUME NEW d \in stayed, d[1] \notin InGit, d \notin new, Parent[d[1]] \in Paths1(new) \cup {"."}
       PROVE  d[1] \in {Paths[i] : i \in todo'}
  <2>1. d \in Present(tree) /\ d[1] \in DOMAIN tree /\ d = <<d[1], tree[d[1]]>>
    BY <1>2 DEF Shape, Present
  <2>2. d[1] # path
    BY <1>14, <2>1
  <2>3. CASE Parent[d[1]] = path
    <3>1. path # Git
      BY <1>2, <1>14, <2>1, <2>3, PathsAssumption DEF Shape, Known
    <3>2. PICK i \in DOMAIN Paths : Paths[i] = d[1]
      BY <1>2, <2>1, PathsAre DEF Shape
    <3>3. path \in Directories
      BY <1>3, <2>3, <3>2, PathsAre, PathsAssumption
    <3>4. node = Directory
      BY <1>5, <3>3 DEF Nodes
    <3>5. i \in below
      BY <2>1, <2>3, <3>1, <3>2, <3>4 DEF Names
    <3>6. QED
      BY <1>2, <3>2, <3>5
  <2>4. CASE Parent[d[1]] # path
    <3>1. d[1] \in {Paths[i] : i \in todo}
      BY <1>1, <1>8, <1>14, <2>4 DEF Walked
    <3>2. QED
      BY <1>2, <1>3, <2>2, <3>1
  <2>5. QED
    BY <2>3, <2>4
<1> HIDE DEF new, below, e, path, node
<1>15. new \subseteq ever
  BY <1>4, <1>5 DEF new
<1> PICK now : now = new
  OBVIOUS
<1>16. Walked(now)'
  BY <1>10, <1>12, <1>13, <1>14, <1>15 DEF Walked
<1>17. QED
  BY <1>2, <1>7, <1>16 DEF InventoryInv

(* Somebody changes the tree: what is seen is seen.                        *)
LEMMA ChangePreserves == InventoryInv /\ Change => InventoryInv'
<1>1. SUFFICES ASSUME InventoryInv, Change PROVE InventoryInv'
  OBVIOUS
<1>2. PICK seen : Walked(seen)
  BY <1>1 DEF InventoryInv
<1>3. /\ stayed' = stayed \cap Present(tree') /\ ever' = ever \cup Present(tree')
      /\ todo' = todo /\ inventory' = inventory /\ pc' = pc /\ Shape
  BY <1>1 DEF Change, InventoryInv
<1>4. ASSUME NEW path \in DOMAIN tree, \A other \in DOMAIN tree : Parent[other] # path,
             tree' = [other \in DOMAIN tree \ {path} |-> tree[other]]
      PROVE  /\ DOMAIN tree' \subseteq Known /\ Closed(DOMAIN tree')
             /\ \A other \in DOMAIN tree' : tree'[other] \in Nodes(other)
             /\ Closed(Paths1(stayed'))
  <2>1. DOMAIN tree' = DOMAIN tree \ {path}
    BY <1>4
  <2>2. Paths1(stayed') = Paths1(stayed) \ {path} /\ Paths1(stayed) \subseteq DOMAIN tree
    <3>1. ASSUME NEW e \in stayed
          PROVE  e[1] \in DOMAIN tree /\ e = <<e[1], tree[e[1]]>>
      BY <1>3 DEF Shape, Present
    <3>2. ASSUME NEW e \in stayed, e[1] # path PROVE e \in Present(tree')
      BY <1>4, <3>1, <3>2 DEF Present
    <3>3. \A e \in Present(tree') : e[1] # path
      BY <1>4 DEF Present
    <3>4. QED
      BY <1>3, <3>1, <3>2, <3>3 DEF Paths1
  <2>3. QED
    BY <1>3, <1>4, <2>1, <2>2 DEF Shape, Closed
<1>5. ASSUME NEW path \in Known \ DOMAIN tree, NEW node \in Nodes(path),
             Closed(DOMAIN tree \cup {path}),
             tree' = [other \in DOMAIN tree \cup {path} |->
                        IF other = path THEN node ELSE tree[other]]
      PROVE  /\ DOMAIN tree' \subseteq Known /\ Closed(DOMAIN tree')
             /\ \A other \in DOMAIN tree' : tree'[other] \in Nodes(other)
             /\ Closed(Paths1(stayed'))
  <2>1. stayed' = stayed
    BY <1>3, <1>5 DEF Shape, Present
  <2>2. QED
    BY <1>3, <1>5, <2>1 DEF Shape
<1>6. /\ DOMAIN tree' \subseteq Known /\ Closed(DOMAIN tree')
      /\ \A other \in DOMAIN tree' : tree'[other] \in Nodes(other)
      /\ Closed(Paths1(stayed'))
  BY <1>1, <1>4, <1>5 DEF Change, Known
<1>7. Entries(ever')
  <2>1. Entries(ever) /\ Entries(Present(tree'))
    BY <1>3, <1>6, PresentAre DEF Shape
  <2>2. QED
    BY <1>3, <2>1, FS_Union DEF Entries
<1>8. Shape'
  BY <1>3, <1>6, <1>7 DEF Shape
<1>9. Walked(seen)'
  BY <1>2, <1>3 DEF Walked
<1>10. QED
  BY <1>1, <1>3, <1>8, <1>9 DEF InventoryInv

LEMMA InventoryAlways == Spec => []InventoryInv
<1>1. ASSUME InventoryInv, [Next]_vars PROVE InventoryInv'
  <2>1. CASE VisitPresent /\ UNCHANGED <<tree, stayed, ever, changes>>
    BY <1>1, <2>1, VisitPreserves
  <2>2. CASE Change
    BY <1>1, <2>2, ChangePreserves
  <2>3. CASE \/ UNCHANGED vars
             \/ (VisitGone \/ Finish) /\ UNCHANGED <<tree, stayed, ever, changes>>
    <3>1. /\ UNCHANGED <<tree, todo, inventory, stayed, ever>>
          /\ pc' = "done" => todo = {} \/ pc = "done"
      BY <2>3 DEF vars, VisitGone, Finish
    <3>2. Shape'
      BY <1>1, <3>1 DEF InventoryInv, Shape
    <3>3. PICK seen : Walked(seen)
      BY <1>1 DEF InventoryInv
    <3>4. Walked(seen)'
      BY <3>1, <3>3 DEF Walked
    <3>5. QED
      BY <1>1, <3>1, <3>2, <3>4 DEF InventoryInv
  <2>4. QED
    BY <1>1, <2>1, <2>2, <2>3 DEF Next, Walk
<1>2. QED
  BY <1>1, InitInventory, PTL DEF Spec

(* What stayed all the time has been seen when Walk is done, for its       *)
(* directory has: of the paths that are not, none comes first.             *)
LEMMA AllSeen ==
  ASSUME Shape, NEW seen, Walked(seen), todo = {}
  PROVE  Real(stayed) \subseteq seen
<1> DEFINE Missed(i) == \E e \in stayed : e[1] = Paths[i] /\ e[1] \notin InGit /\ e \notin seen
           T == {i \in DOMAIN Paths : Missed(i)}
<1>1. ASSUME T # {} PROVE FALSE
  <2>1. T \subseteq Nat
    BY PathsAre
  <2>2. PICK i \in T : \A j \in T : i <= j
    <3> HIDE DEF T
    <3>1. QED
      BY <1>1, <2>1, LeastNatural
  <2>3. PICK e \in stayed : e[1] = Paths[i] /\ e[1] \notin InGit /\ e \notin seen
    BY <2>2
  <2>4. Parent[e[1]] \notin Paths1(seen) \cup {"."}
    BY <2>3 DEF Walked
  <2>5. PICK j \in 1 .. i - 1 : Parent[e[1]] = Paths[j]
    BY <2>2, <2>3, <2>4, PathsAssumption
  <2>6. j \in DOMAIN Paths /\ j < i
    BY <2>2, <2>5, PathsAre
  <2>7. PICK f \in stayed : f[1] = Paths[j]
    BY <2>3, <2>4, <2>5 DEF Shape, Closed, Paths1
  <2>8. e[1] \in Known
    BY <2>2, <2>3, PathsAre
  <2>9. f[1] \notin InGit
    BY <2>3, <2>5, <2>7, <2>8, PathsAssumption DEF Known
  <2>10. f \notin seen
    BY <2>4, <2>5, <2>7 DEF Paths1
  <2>11. j \in T
    BY <2>6, <2>7, <2>9, <2>10
  <2>12. QED
    BY <2>2, <2>6, <2>11, PathsAre
<1>2. ASSUME NEW e \in stayed, e[1] \notin InGit PROVE e \in seen
  <2>1. e[1] \in Known
    BY <1>2 DEF Shape, Present
  <2>2. QED
    BY <1>1, <1>2, <2>1, PathsAre
<1>3. QED
  BY <1>2 DEF Real

(* The counts of a walk that succeeds lie between those of what was there  *)
(* all the time and those of what was ever there, for every tree and every *)
(* number of changes during the walk.                                      *)
THEOREM CountsAreExact == Spec => []InventoryIsExact
<1>1. ASSUME InventoryInv, pc = "done" PROVE InventoryIsExact
  <2>1. PICK seen : Walked(seen)
    BY <1>1 DEF InventoryInv
  <2>2. Shape /\ todo = {} /\ seen \subseteq ever /\ inventory = Expected(seen) /\ Entries(ever)
    BY <1>1, <2>1 DEF InventoryInv, Walked, Shape
  <2>3. Entries(seen)
    BY <2>2, NoLarger DEF Entries
  <2>4. Real(stayed) \subseteq seen /\ Real(seen) \subseteq ever
    BY <2>1, <2>2, AllSeen DEF Real
  <2>5. QED
    BY <2>2, <2>3, <2>4, CountsGrow DEF InventoryIsExact
<1>2. InventoryInv => InventoryIsExact
  BY <1>1 DEF InventoryIsExact
<1>3. QED
  BY <1>2, InventoryAlways, PTL
=============================================================================
