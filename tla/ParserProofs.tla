---------------------------- MODULE ParserProofs ----------------------------
(***************************************************************************)
(* What the two parsers make of a text, for every text.                    *)
(*                                                                         *)
(* ParseSourceBytes: which lines fail a source, what is kept of the others, *)
(* and which edits make no difference.  From this, what an admitted source *)
(* can be relied on for.                                                   *)
(*                                                                         *)
(* ParseExpression: which texts it accepts, and what printing the result,  *)
(* or writing it to a file and reading it back, gives.  By induction on    *)
(* the length of the text, since the arguments of a call are shorter.      *)
(***************************************************************************)
EXTENDS Source, Expression, RecursionLemmas, FiniteSetTheorems

-----------------------------------------------------------------------------
(* One line.                                                               *)

Bad(line) == line.word # "" /\ Malformed(line.word, Uncommented(line.fields))
Says(line) == Declared(line.word, Uncommented(line.fields))

IsList(row) == row \in Seq(Range(row))

IsDecl(source) ==
  /\ source = [part \in Parts |-> source[part]]
  /\ source["failed"] \in BOOLEAN
  /\ \A word \in Listed : IsList(source[word])

(* What a part is after a line that is not bad.                            *)
After(was, part, line) ==
  IF part # line.word THEN was
  ELSE IF part \in Listed THEN Append(was, Says(line)) ELSE Says(line)

(* A list with one element more.                                           *)
LEMMA ListAppend ==
  ASSUME NEW row, IsList(row), NEW value
  PROVE  /\ IsList(Append(row, value)) /\ Len(row) \in Nat
         /\ Len(Append(row, value)) = Len(row) + 1
         /\ DOMAIN row = 1 .. Len(row) /\ DOMAIN Append(row, value) = 1 .. Len(row) + 1
         /\ \A i \in 1 .. Len(row) : Append(row, value)[i] = row[i]
         /\ Append(row, value)[Len(row) + 1] = value
<1> DEFINE S == Range(row) \cup {value}
           longer == Append(row, value)
<1>1. row \in Seq(S) /\ value \in S
  BY SeqMonotonic DEF IsList
<1>2. /\ longer \in Seq(S) /\ Len(row) \in Nat /\ Len(longer) = Len(row) + 1
      /\ DOMAIN row = 1 .. Len(row) /\ DOMAIN longer = 1 .. Len(row) + 1
      /\ \A i \in 1 .. Len(row) : longer[i] = row[i]
      /\ longer[Len(row) + 1] = value
  BY <1>1, AppendProperties, LenProperties
<1>3. longer \in Seq(Range(longer))
  <2> HIDE DEF longer, S
  <2>1. \A i \in 1 .. Len(longer) : longer[i] \in Range(longer)
    BY <1>2 DEF Range
  <2>2. longer = [i \in 1 .. Len(longer) |-> longer[i]] /\ Len(longer) \in Nat
    BY <1>2, LenProperties
  <2>3. [i \in 1 .. Len(longer) |-> longer[i]] \in Seq(Range(longer))
    BY <2>1, <2>2, IsASeq
  <2>4. QED
    BY <2>2, <2>3
<1>4. QED
  BY <1>2, <1>3 DEF IsList

(* A line that declares something has a part of its own.                   *)
LEMMA WordsHaveParts ==
  ASSUME NEW line, line.word # "", ~Bad(line)
  PROVE  line.word \in Parts \ {"failed"}
<1>1. ~Malformed(line.word, Uncommented(line.fields))
  BY DEF Bad
<1>2. line.word \in {"gooo", "precedence", "unknown_fields"} \/ line.word \in DOMAIN Keys
  BY <1>1 DEF Malformed
<1>3. "failed" \notin DOMAIN Keys
  BY DEF Keys
<1>4. QED
  BY <1>2, <1>3 DEF Parts

(* The words that may be declared often, and those that may not.           *)
LEMMA ListedParts ==
  /\ Listed \subseteq Parts
  /\ Listed \cap {"failed", "gooo", "precedence", "unknown_fields", "denominator",
                  "authority", ""} = {}
BY DEF Listed, Parts, Keys

(* A line that is not bad changes the part of its word and no other.       *)
LEMMA GoodLine ==
  ASSUME NEW before, NEW line, IsDecl(before), ~before["failed"], ~Bad(line)
  PROVE  /\ IsDecl(ParseLine(before, line)) /\ ~ParseLine(before, line)["failed"]
         /\ \A part \in Parts :
              ParseLine(before, line)[part] = After(before[part], part, line)
<1> DEFINE after == ParseLine(before, line)
           word == line.word
           declared == Says(line)
<1>0. DOMAIN before = Parts /\ "failed" \in Parts /\ "" \notin Parts
  BY DEF IsDecl, Parts, Keys
<1>1. CASE word = ""
  <2>1. after = before
    BY <1>1 DEF ParseLine
  <2>2. QED
    BY <2>1, <1>0, <1>1 DEF After
<1>2. CASE word # ""
  <2>1. after = [before EXCEPT ![word] = IF word \in Listed THEN Append(@, declared)
                                         ELSE declared]
    BY <1>2 DEF ParseLine, Put, Bad, Says
  <2>2. word \in Parts \ {"failed"}
    BY <1>2, WordsHaveParts
  <2> HIDE DEF after, declared
  <2>3. /\ after = [part \in Parts |-> after[part]]
        /\ \A part \in Parts \ {word} : after[part] = before[part]
        /\ after[word] = IF word \in Listed THEN Append(before[word], declared)
                         ELSE declared
    BY <2>1, <2>2, <1>0
  <2>4. \A part \in Parts : after[part] = After(before[part], part, line)
    BY <2>3 DEF After, declared
  <2>5. \A part \in Listed : IsList(after[part])
    <3> SUFFICES ASSUME NEW part \in Listed PROVE IsList(after[part])
      OBVIOUS
    <3>1. IsList(before[part]) /\ part \in Parts
      BY ListedParts DEF IsDecl
    <3>2. QED
      BY <3>1, <2>3, ListAppend
  <2>6. after["failed"] = before["failed"]
    BY <2>2, <2>3, <1>0
  <2>7. QED
    BY <2>3, <2>4, <2>5, <2>6 DEF IsDecl, after
<1>3. QED
  BY <1>1, <1>2

(* A bad line fails, and nothing is read any more.                         *)
LEMMA BadLine ==
  ASSUME NEW before, NEW line, IsDecl(before), before["failed"] \/ Bad(line)
  PROVE  IsDecl(ParseLine(before, line)) /\ ParseLine(before, line)["failed"]
<1>0. DOMAIN before = Parts /\ "failed" \in Parts /\ "failed" \notin Listed
  BY ListedParts DEF IsDecl, Parts
<1>1. CASE before["failed"]
  BY <1>1 DEF ParseLine
<1>2. CASE ~before["failed"]
  <2> DEFINE after == ParseLine(before, line)
  <2>1. after = [before EXCEPT !["failed"] = TRUE]
    BY <1>2 DEF ParseLine, Bad
  <2> HIDE DEF after
  <2>2. /\ after = [part \in Parts |-> after[part]] /\ after["failed"] = TRUE
        /\ \A part \in Parts \ {"failed"} : after[part] = before[part]
    BY <2>1, <1>0
  <2>3. \A part \in Listed : IsList(after[part])
    BY <2>2, <1>0, ListedParts DEF IsDecl
  <2>4. QED
    BY <2>2, <2>3 DEF IsDecl, after
<1>3. QED
  BY <1>1, <1>2

(* Only the word of a line counts, and what stands before a comment.       *)
SameLine(left, right) ==
  left.word = right.word /\ Uncommented(left.fields) = Uncommented(right.fields)

(* Lines that differ behind a comment only have the same effect.           *)
LEMMA SameEffect ==
  ASSUME NEW before, NEW left, NEW right, SameLine(left, right)
  PROVE  ParseLine(before, left) = ParseLine(before, right)
BY DEF SameLine, ParseLine

-----------------------------------------------------------------------------
(* A text.                                                                 *)

(* A text can be read to any of its lines, one line after the other.       *)
LEMMA ReadingLemma ==
  ASSUME NEW text \in Seq(LineType)
  PROVE  /\ Reading(text)[0] = Blank
         /\ \A n \in 1 .. Len(text) :
              Reading(text)[n] = ParseLine(Reading(text)[n - 1], text[n])
<1> DEFINE Turn(g, m) == [n \in 0 .. m |->
                            IF n = 0 THEN Blank ELSE ParseLine(g[n - 1], text[n])]
           Done == {m \in Nat : \E g : g = Turn(g, m)}
           read == CHOOSE g : g = Turn(g, Len(text))
<1>1. 0 \in Done
  <2>1. [n \in 0 .. 0 |-> Blank] = Turn([n \in 0 .. 0 |-> Blank], 0)
    OBVIOUS
  <2>2. QED
    BY <2>1
<1>2. ASSUME NEW m \in Nat, m \in Done PROVE m + 1 \in Done
  <2>1. PICK g : g = Turn(g, m)
    BY <1>2
  <2> DEFINE next == ParseLine(g[m], text[m + 1])
             h == [n \in 0 .. m + 1 |-> IF n = m + 1 THEN next ELSE g[n]]
  <2>2. \A n \in 0 .. m : g[n] = IF n = 0 THEN Blank ELSE ParseLine(g[n - 1], text[n])
    BY <2>1
  <2>3. \A n \in 0 .. m + 1 : h[n] = IF n = 0 THEN Blank ELSE ParseLine(h[n - 1], text[n])
    <3> SUFFICES ASSUME NEW n \in 0 .. m + 1
                 PROVE  h[n] = IF n = 0 THEN Blank ELSE ParseLine(h[n - 1], text[n])
      OBVIOUS
    <3>1. CASE n = 0
      BY <3>1, <2>2
    <3>2. CASE n \in 1 .. m
      <4>1. h[n] = g[n] /\ h[n - 1] = g[n - 1] /\ n # 0 /\ n \in 0 .. m
        BY <3>2
      <4>2. QED
        BY <4>1, <2>2
    <3>3. CASE n = m + 1
      <4>1. h[n] = next /\ h[n - 1] = g[m] /\ n # 0
        BY <3>3
      <4>2. QED
        BY <4>1, <3>3
    <3>4. QED
      BY <3>1, <3>2, <3>3
  <2>4. h = Turn(h, m + 1)
    <3>1. h = [n \in 0 .. m + 1 |-> h[n]]
      OBVIOUS
    <3> HIDE DEF h
    <3>2. QED
      BY <3>1, <2>3
  <2> HIDE DEF h
  <2>5. \E other : other = Turn(other, m + 1)
    BY <2>4
  <2>6. QED
    BY <2>5
<1>3. Len(text) \in Done
  <2> HIDE DEF Done
  <2>1. Nat \subseteq Done
    BY <1>1, <1>2, NaturalInduction
  <2>2. QED
    BY <2>1, LenProperties
<1>4. read = Turn(read, Len(text)) /\ Len(text) \in Nat
  BY <1>3
<1>5. Reading(text) = read
  BY DEF Reading
<1> HIDE DEF read
<1>6. QED
  BY <1>4, <1>5

(* Induction over the lines of a text: what holds of nothing read, and      *)
(* with one line more if it holds without, holds of all that is read.      *)
LEMMA LineInduction ==
  ASSUME NEW k \in Nat, NEW m \in Nat, NEW S, k \in S,
         \A n \in k .. m : n < m /\ n \in S => n + 1 \in S
  PROVE  k .. m \subseteq S
<1> DEFINE T == {i \in Nat : k + i <= m => k + i \in S}
<1>1. 0 \in T
  OBVIOUS
<1>2. \A i \in Nat : i \in T => i + 1 \in T
  <2> SUFFICES ASSUME NEW i \in Nat, i \in T, k + i + 1 <= m PROVE k + i + 1 \in S
    OBVIOUS
  <2>1. k + i \in S /\ k + i \in k .. m /\ k + i < m
    OBVIOUS
  <2>2. QED
    BY <2>1
<1>3. Nat \subseteq T
  <2> HIDE DEF T
  <2>1. QED
    BY <1>1, <1>2, NaturalInduction
<1>4. ASSUME NEW n \in k .. m PROVE n \in S
  <2>1. n - k \in T /\ k + (n - k) = n
    BY <1>3
  <2>2. QED
    BY <2>1
<1>5. QED
  BY <1>4

(* Nothing read is a declaration, without an error.                        *)
LEMMA BlankIsDecl == IsDecl(Blank) /\ ~Blank["failed"]
<1>1. Blank = [part \in Parts |-> Blank[part]]
  BY DEF Blank
<1>2. Blank["failed"] = FALSE
  BY DEF Blank, Parts
<1>3. ASSUME NEW word \in Listed PROVE IsList(Blank[word])
  <2>1. /\ word \in Parts
        /\ word \notin {"failed", "gooo", "denominator", "authority"}
    BY ListedParts
  <2>2. Blank[word] = <<>>
    BY <2>1 DEF Blank
  <2>3. <<>> \in Seq(Range(Blank[word]))
    BY EmptySeq
  <2>4. QED
    BY <2>2, <2>3 DEF IsList
<1>4. QED
  BY <1>1, <1>2, <1>3 DEF IsDecl

(* Reading fails at the first bad line, and never without one.             *)
LEMMA TextShape ==
  ASSUME NEW text \in Seq(LineType), NEW n \in 0 .. Len(text)
  PROVE  /\ IsDecl(Reading(text)[n])
         /\ Reading(text)[n]["failed"] <=> \E i \in 1 .. n : Bad(text[i])
<1> DEFINE read == Reading(text)
           Shape(k) == IsDecl(read[k]) /\ (read[k]["failed"] <=> \E i \in 1 .. k : Bad(text[i]))
           Shaped == {k \in Nat : Shape(k)}
<1>1. Len(text) \in Nat
  BY LenProperties
<1>2. 0 \in Shaped
  BY ReadingLemma, BlankIsDecl
<1>3. ASSUME NEW k \in 0 .. Len(text), k < Len(text), k \in Shaped
      PROVE  k + 1 \in Shaped
  <2>1. read[k + 1] = ParseLine(read[k], text[k + 1])
    <3>1. k + 1 \in 1 .. Len(text) /\ (k + 1) - 1 = k
      BY <1>1, <1>3
    <3>2. QED
      BY <3>1, ReadingLemma
  <2>2. IsDecl(read[k]) /\ (read[k]["failed"] <=> \E i \in 1 .. k : Bad(text[i]))
    BY <1>3
  <2>3. (\E i \in 1 .. k + 1 : Bad(text[i]))
        <=> (\E i \in 1 .. k : Bad(text[i])) \/ Bad(text[k + 1])
    BY <1>3
  <2> HIDE DEF read
  <2>4. CASE read[k]["failed"] \/ Bad(text[k + 1])
    BY <2>1, <2>2, <2>3, <2>4, <1>3, BadLine
  <2>5. CASE ~read[k]["failed"] /\ ~Bad(text[k + 1])
    BY <2>1, <2>2, <2>3, <2>5, <1>3, GoodLine
  <2>6. QED
    BY <2>4, <2>5
<1>4. 0 .. Len(text) \subseteq Shaped
  <2> HIDE DEF Shaped
  <2>1. QED
    BY <1>1, <1>2, <1>3, LineInduction
<1>5. QED
  BY <1>4

(* One more line that is not bad, after n of them.                         *)
LEMMA NextLine ==
  ASSUME NEW text \in Seq(LineType), \A i \in DOMAIN text : ~Bad(text[i]),
         NEW n \in 0 .. Len(text), n < Len(text)
  PROVE  \A part \in Parts :
           Reading(text)[n + 1][part] = After(Reading(text)[n][part], part, text[n + 1])
<1>1. Len(text) \in Nat /\ DOMAIN text = 1 .. Len(text)
  BY LenProperties
<1>2. n + 1 \in 1 .. Len(text) /\ (n + 1) - 1 = n /\ n \in Nat
  BY <1>1
<1>3. Reading(text)[n + 1] = ParseLine(Reading(text)[n], text[n + 1])
  BY <1>2, ReadingLemma
<1>4. IsDecl(Reading(text)[n]) /\ ~Reading(text)[n]["failed"]
  BY <1>1, <1>2, TextShape
<1>5. QED
  BY <1>1, <1>2, <1>3, <1>4, GoodLine

(* So for the whole text.                                                  *)
LEMMA AllRead ==
  ASSUME NEW text \in Seq(LineType)
  PROVE  /\ IsDecl(ParseSourceBytes(text))
         /\ ParseSourceBytes(text)["failed"] <=> \E i \in DOMAIN text : Bad(text[i])
<1>1. Len(text) \in Nat /\ DOMAIN text = 1 .. Len(text) /\ Len(text) \in 0 .. Len(text)
  BY LenProperties
<1>2. QED
  BY <1>1, TextShape DEF ParseSourceBytes

(* What a line declares is kept, unless its word is one of those that are  *)
(* declared once.                                                          *)
LEMMA Recorded ==
  ASSUME NEW text \in Seq(LineType), \A i \in DOMAIN text : ~Bad(text[i]),
         NEW i \in DOMAIN text, text[i].word \in Listed
  PROVE  Says(text[i]) \in Range(ParseSourceBytes(text)[text[i].word])
<1> DEFINE word == text[i].word
           row(n) == Reading(text)[n][word]
           In(n) == Says(text[i]) \in Range(row(n))
           Kept == {n \in Nat : In(n)}
<1>1. Len(text) \in Nat /\ i \in 1 .. Len(text) /\ DOMAIN text = 1 .. Len(text)
  BY LenProperties
<1>2. \A n \in 0 .. Len(text) : IsList(row(n))
  BY <1>1, TextShape DEF IsDecl
<1>3. \A n \in 0 .. Len(text) - 1 :
        row(n + 1) = IF text[n + 1].word = word THEN Append(row(n), Says(text[n + 1]))
                     ELSE row(n)
  <2> SUFFICES ASSUME NEW n \in 0 .. Len(text) - 1
               PROVE  row(n + 1) = IF text[n + 1].word = word
                                   THEN Append(row(n), Says(text[n + 1])) ELSE row(n)
    OBVIOUS
  <2>1. word \in Parts /\ word \in Listed
    BY ListedParts
  <2>2. n \in 0 .. Len(text) /\ n < Len(text)
    BY <1>1
  <2>3. row(n + 1) = After(row(n), word, text[n + 1])
    BY <2>1, <2>2, NextLine
  <2> HIDE DEF row, word
  <2>4. QED
    BY <2>1, <2>3 DEF After
<1> HIDE DEF row, word
<1>4. i \in Kept
  <2>1. i - 1 \in 0 .. Len(text) - 1 /\ (i - 1) + 1 = i /\ i - 1 \in 0 .. Len(text)
    BY <1>1
  <2>2. row(i) = Append(row(i - 1), Says(text[i]))
    BY <1>3, <2>1 DEF word
  <2>3. Says(text[i]) \in Range(Append(row(i - 1), Says(text[i])))
    <3>1. IsList(row(i - 1))
      BY <1>2, <2>1
    <3>2. QED
      BY <3>1, ListAppend DEF Range
  <2>4. In(i)
    BY <2>2, <2>3
  <2> HIDE DEF In
  <2>5. QED
    BY <2>4, <1>1
<1>5. ASSUME NEW n \in i .. Len(text), n < Len(text), n \in Kept PROVE n + 1 \in Kept
  <2>1. n \in 0 .. Len(text) - 1 /\ n \in 0 .. Len(text) /\ n + 1 \in Nat
    BY <1>1, <1>5
  <2>2. IsList(row(n)) /\ Says(text[i]) \in Range(row(n))
    BY <1>2, <1>5, <2>1
  <2>3. Says(text[i]) \in Range(Append(row(n), Says(text[n + 1])))
    BY <2>2, ListAppend DEF Range
  <2>4. row(n + 1) = Append(row(n), Says(text[n + 1])) \/ row(n + 1) = row(n)
    BY <1>3, <2>1
  <2>5. In(n + 1)
    BY <2>2, <2>3, <2>4
  <2> HIDE DEF In
  <2>6. QED
    BY <2>1, <2>5
<1>6. Len(text) \in Kept
  <2> HIDE DEF Kept, In
  <2>1. i .. Len(text) \subseteq Kept
    <3>1. i \in Nat /\ \A n \in i .. Len(text) : n < Len(text) /\ n \in Kept => n + 1 \in Kept
      BY <1>1, <1>5
    <3>2. QED
      BY <3>1, <1>1, <1>4, LineInduction
  <2>2. QED
    BY <1>1, <2>1
<1>7. QED
  BY <1>6 DEF row, word, ParseSourceBytes

(* Two texts that have come to the same after k lines and go on alike.     *)
LEMMA SameFrom ==
  ASSUME NEW left \in Seq(LineType), NEW right \in Seq(LineType),
         NEW m \in 0 .. Len(left), m <= Len(right), NEW k \in 0 .. m,
         Reading(left)[k] = Reading(right)[k],
         \A i \in k + 1 .. m : SameLine(left[i], right[i])
  PROVE  Reading(left)[m] = Reading(right)[m]
<1> DEFINE Alike == {n \in Nat : Reading(left)[n] = Reading(right)[n]}
<1>1. Len(left) \in Nat /\ Len(right) \in Nat /\ k \in Nat /\ m \in Nat /\ m \in k .. m
  BY LenProperties
<1>2. k \in Alike
  BY <1>1
<1>3. ASSUME NEW n \in k .. m, n < m, n \in Alike PROVE n + 1 \in Alike
  <2>1. /\ n + 1 \in 1 .. Len(left) /\ n + 1 \in 1 .. Len(right) /\ n + 1 \in k + 1 .. m
        /\ (n + 1) - 1 = n /\ n + 1 \in Nat
    BY <1>1, <1>3
  <2>2. /\ Reading(left)[n + 1] = ParseLine(Reading(left)[n], left[n + 1])
        /\ Reading(right)[n + 1] = ParseLine(Reading(right)[n], right[n + 1])
    BY <2>1, ReadingLemma
  <2>3. SameLine(left[n + 1], right[n + 1])
    BY <2>1
  <2>4. Reading(left)[n] = Reading(right)[n]
    BY <1>3
  <2>5. QED
    BY <2>1, <2>2, <2>3, <2>4, SameEffect
<1>4. k .. m \subseteq Alike
  <2> HIDE DEF Alike
  <2>1. QED
    BY <1>1, <1>2, <1>3, LineInduction
<1>5. QED
  BY <1>1, <1>4

-----------------------------------------------------------------------------
(* What an edit of the text does to what is read.                          *)

(* A list with one element more at its head.                               *)
LEMMA ListCons ==
  ASSUME NEW S, NEW row \in Seq(S), NEW value \in S
  PROVE  /\ <<value>> \o row \in Seq(S) /\ Len(row) \in Nat
         /\ Len(<<value>> \o row) = Len(row) + 1
         /\ DOMAIN (<<value>> \o row) = 1 .. Len(row) + 1 /\ DOMAIN row = 1 .. Len(row)
         /\ (<<value>> \o row)[1] = value
         /\ \A i \in 1 .. Len(row) : (<<value>> \o row)[i + 1] = row[i]
<1> DEFINE one == <<value>>
           longer == one \o row
<1>1. one \in Seq(S) /\ Len(one) = 1 /\ one[1] = value
  OBVIOUS
<1> HIDE DEF one
<1>2. /\ longer \in Seq(S) /\ Len(longer) = 1 + Len(row)
      /\ \A i \in 1 .. 1 + Len(row) :
           longer[i] = IF i <= Len(one) THEN one[i] ELSE row[i - Len(one)]
  BY <1>1, ConcatProperties
<1> HIDE DEF longer
<1>3. Len(row) \in Nat /\ DOMAIN row = 1 .. Len(row) /\ DOMAIN longer = 1 .. Len(longer)
  BY <1>2, LenProperties
<1>4. longer[1] = value
  BY <1>1, <1>2, <1>3
<1>5. \A i \in 1 .. Len(row) : longer[i + 1] = row[i]
  <2> SUFFICES ASSUME NEW i \in 1 .. Len(row) PROVE longer[i + 1] = row[i]
    OBVIOUS
  <2>1. i + 1 \in 1 .. 1 + Len(row) /\ ~(i + 1 <= 1) /\ (i + 1) - 1 = i
    BY <1>3
  <2>2. QED
    BY <1>1, <1>2, <2>1
<1>6. QED
  BY <1>1, <1>2, <1>3, <1>4, <1>5 DEF longer, one

(* Elements at both ends may be added in any order.                        *)
LEMMA ConsAppend ==
  ASSUME NEW row, IsList(row), NEW head, NEW last
  PROVE  Append(<<head>> \o row, last) = <<head>> \o Append(row, last)
<1> DEFINE S == Range(row) \cup {head, last}
           one == <<head>>
           end == <<last>>
<1>1. row \in Seq(S) /\ one \in Seq(S) /\ end \in Seq(S) /\ head \in S /\ last \in S
  BY SeqMonotonic DEF IsList
<1> HIDE DEF one, S
<1>2. one \o row \in Seq(S)
  BY <1>1, ConcatProperties
<1>3. Append(one \o row, last) = (one \o row) \o end
  BY <1>1, <1>2, AppendIsConcat
<1>4. Append(row, last) = row \o end
  BY <1>1, AppendIsConcat
<1> HIDE DEF end
<1>5. (one \o row) \o end = one \o (row \o end)
  BY <1>1, ConcatAssociative
<1>6. QED
  BY <1>3, <1>4, <1>5 DEF one

(* A line that is not bad, written above all others: what it declares comes *)
(* first or, of a word that is declared once, until the word comes again.  *)
UnderIt(line, text, n, part) ==
  IF part # line.word THEN Reading(text)[n][part]
  ELSE IF part \in Listed THEN <<Says(line)>> \o Reading(text)[n][part]
  ELSE IF \E i \in 1 .. n : text[i].word = part THEN Reading(text)[n][part]
  ELSE Says(line)

(* Such a line is there and makes no other difference.                     *)
LEMMA OnTop ==
  ASSUME NEW text \in Seq(LineType), NEW line \in LineType,
         ~Bad(line), \A i \in DOMAIN text : ~Bad(text[i]),
         NEW part \in Parts
  PROVE  ParseSourceBytes(<<line>> \o text)[part] = UnderIt(line, text, Len(text), part)
<1> DEFINE longer == <<line>> \o text
           Under(n) == Reading(longer)[n + 1][part] = UnderIt(line, text, n, part)
           Done == {n \in Nat : Under(n)}
<1>1. /\ longer \in Seq(LineType) /\ Len(text) \in Nat /\ Len(longer) = Len(text) + 1
      /\ DOMAIN longer = 1 .. Len(text) + 1 /\ DOMAIN text = 1 .. Len(text)
      /\ longer[1] = line /\ \A i \in 1 .. Len(text) : longer[i + 1] = text[i]
  BY ListCons
<1> HIDE DEF longer
<1>2. \A i \in DOMAIN longer : ~Bad(longer[i])
  <2> SUFFICES ASSUME NEW i \in DOMAIN longer PROVE ~Bad(longer[i])
    OBVIOUS
  <2>1. i = 1 \/ (i - 1 \in 1 .. Len(text) /\ (i - 1) + 1 = i)
    BY <1>1
  <2>2. QED
    BY <2>1, <1>1
<1>3. \A n \in 0 .. Len(text) :
        Reading(longer)[n + 1][part]
        = After(Reading(longer)[n][part], part, longer[n + 1])
  BY <1>1, <1>2, NextLine
<1>4. 0 \in Done
  <2>1. Reading(longer)[0] = Blank /\ Reading(text)[0] = Blank
    BY <1>1, ReadingLemma
  <2>2. Reading(longer)[1][part] = After(Blank[part], part, line)
    BY <1>1, <1>3, <2>1
  <2>3. part \in Listed => Blank[part] = <<>>
    BY ListedParts DEF Blank
  <2>4. part \in Listed => Append(Blank[part], Says(line)) = <<Says(line)>> \o Blank[part]
    <3> DEFINE S == {Says(line)}
               none == <<>>
    <3>1. none \in Seq(S) /\ Says(line) \in S /\ <<Says(line)>> \in Seq(S)
      BY EmptySeq
    <3>2. Append(none, Says(line)) = <<Says(line)>>
      OBVIOUS
    <3>3. <<Says(line)>> \o none = <<Says(line)>>
      BY <3>1, ConcatEmptySeq
    <3>4. QED
      BY <2>3, <3>2, <3>3
  <2>5. ~\E i \in 1 .. 0 : text[i].word = part
    OBVIOUS
  <2>6. UnderIt(line, text, 0, part) = After(Blank[part], part, line)
    <3>1. UnderIt(line, text, 0, part) =
            IF part # line.word THEN Blank[part]
            ELSE IF part \in Listed THEN <<Says(line)>> \o Blank[part] ELSE Says(line)
      BY <2>1, <2>5 DEF UnderIt
    <3>2. QED
      BY <3>1, <2>4 DEF After
  <2>7. 0 + 1 = 1
    OBVIOUS
  <2>8. Under(0)
    BY <2>2, <2>6, <2>7
  <2> HIDE DEF Under
  <2>9. QED
    BY <2>8
<1>5. ASSUME NEW n \in 0 .. Len(text), n < Len(text), n \in Done PROVE n + 1 \in Done
  <2> DEFINE was == Reading(text)[n][part]
             now == Reading(text)[n + 1][part]
             added == text[n + 1]
  <2>1. n + 1 \in 0 .. Len(text) /\ n + 1 \in 1 .. Len(text) /\ n \in Nat /\ n + 1 \in Nat
    BY <1>1, <1>5
  <2>2. now = After(was, part, added)
    BY <1>1, <1>5, NextLine
  <2>3. Reading(longer)[n + 2][part] = After(UnderIt(line, text, n, part), part, added)
    <3>1. Reading(longer)[(n + 1) + 1][part]
          = After(Reading(longer)[n + 1][part], part, longer[(n + 1) + 1])
      BY <1>3, <2>1
    <3>2. longer[(n + 1) + 1] = added /\ (n + 1) + 1 = n + 2
      BY <1>1, <2>1
    <3>3. Reading(longer)[n + 1][part] = UnderIt(line, text, n, part)
      BY <1>5
    <3>4. QED
      BY <3>1, <3>2, <3>3
  <2>4. part \in Listed => IsList(was)
    BY <1>1, <1>5, TextShape DEF IsDecl
  <2>5. part \in Listed =>
          Append(<<Says(line)>> \o was, Says(added)) = <<Says(line)>> \o Append(was, Says(added))
    BY <2>4, ConsAppend
  <2>6. (\E i \in 1 .. n + 1 : text[i].word = part)
        <=> (\E i \in 1 .. n : text[i].word = part) \/ added.word = part
    BY <2>1
  <2>7. UnderIt(line, text, n + 1, part) = After(UnderIt(line, text, n, part), part, added)
    <3> HIDE DEF was, now, added
    <3>1. /\ UnderIt(line, text, n, part) =
               IF part # line.word THEN was
               ELSE IF part \in Listed THEN <<Says(line)>> \o was
               ELSE IF \E i \in 1 .. n : text[i].word = part THEN was
               ELSE Says(line)
          /\ UnderIt(line, text, n + 1, part) =
               IF part # line.word THEN now
               ELSE IF part \in Listed THEN <<Says(line)>> \o now
               ELSE IF \E i \in 1 .. n + 1 : text[i].word = part THEN now
               ELSE Says(line)
      BY DEF UnderIt, was, now
    <3>2. QED
      BY <3>1, <2>2, <2>5, <2>6 DEF After
  <2>8. Under(n + 1)
    <3>1. (n + 1) + 1 = n + 2
      BY <2>1
    <3>2. QED
      BY <2>3, <2>7, <3>1
  <2> HIDE DEF Under
  <2>9. QED
    BY <2>1, <2>8
<1>6. Len(text) \in Done
  <2> HIDE DEF Done
  <2>1. 0 .. Len(text) \subseteq Done
    BY <1>1, <1>4, <1>5, LineInduction
  <2>2. QED
    BY <1>1, <2>1
<1>7. QED
  BY <1>1, <1>6 DEF ParseSourceBytes, longer

(* A line below all others is read after them.                             *)
LEMMA AtBottom ==
  ASSUME NEW text \in Seq(LineType), NEW line \in LineType
  PROVE  ParseSourceBytes(Append(text, line)) = ParseLine(ParseSourceBytes(text), line)
<1> DEFINE longer == Append(text, line)
           n == Len(text)
<1>1. /\ longer \in Seq(LineType) /\ n \in Nat /\ Len(longer) = n + 1
      /\ longer[n + 1] = line /\ \A i \in 1 .. n : longer[i] = text[i]
  BY AppendProperties, LenProperties
<1> HIDE DEF longer
<1>2. Reading(longer)[n] = Reading(text)[n]
  <2>1. \A i \in 0 + 1 .. n : SameLine(text[i], longer[i])
    BY <1>1 DEF SameLine
  <2>2. Reading(text)[0] = Reading(longer)[0]
    BY <1>1, ReadingLemma
  <2>3. n \in 0 .. Len(text) /\ n <= Len(longer) /\ 0 \in 0 .. n
    BY <1>1
  <2> HIDE DEF n
  <2>4. QED
    BY <2>1, <2>2, <2>3, <1>1, SameFrom
<1>3. Reading(longer)[n + 1] = ParseLine(Reading(longer)[n], line)
  <2>1. n + 1 \in 1 .. Len(longer) /\ (n + 1) - 1 = n
    BY <1>1
  <2>2. QED
    BY <2>1, <1>1, ReadingLemma
<1>4. QED
  BY <1>1, <1>2, <1>3 DEF ParseSourceBytes, longer

(* Neighbours of different words may change places.                        *)
LEMMA Exchanged ==
  ASSUME NEW text \in Seq(LineType), \A j \in DOMAIN text : ~Bad(text[j]),
         NEW i \in DOMAIN text, i < Len(text), text[i].word # text[i + 1].word,
         NEW other, other = [text EXCEPT ![i] = text[i + 1], ![i + 1] = text[i]]
  PROVE  ParseSourceBytes(other) = ParseSourceBytes(text)
<1> DEFINE n == Len(text)
           left == text[i]
           right == text[i + 1]
           half == [text EXCEPT ![i] = right]
<1>1. /\ n \in Nat /\ DOMAIN text = 1 .. n /\ i \in 1 .. n /\ i + 1 \in 1 .. n
      /\ left \in LineType /\ right \in LineType
  BY LenProperties, ElementOfSeq
<1>2. /\ other \in Seq(LineType) /\ Len(other) = n /\ other[i] = right /\ other[i + 1] = left
      /\ \A j \in 1 .. n : j \notin {i, i + 1} => other[j] = text[j]
  <2>1. half \in Seq(LineType) /\ Len(half) = n /\ \A j \in 1 .. n : half[j] = IF j = i THEN right ELSE text[j]
    BY <1>1, ExceptSeq
  <2>2. other = [half EXCEPT ![i + 1] = left]
    OBVIOUS
  <2> HIDE DEF half, left, right
  <2>3. other \in Seq(LineType) /\ Len(other) = n /\ \A j \in 1 .. n : other[j] = IF j = i + 1 THEN left ELSE half[j]
    <3> DEFINE place == i + 1
    <3>1. place \in 1 .. Len(half) /\ other = [half EXCEPT ![place] = left]
      BY <1>1, <2>1, <2>2
    <3> HIDE DEF place
    <3> DEFINE swapped == [half EXCEPT ![place] = left]
    <3>2. /\ swapped \in Seq(LineType) /\ Len(swapped) = Len(half)
          /\ \A j \in 1 .. Len(half) : swapped[j] = IF j = place THEN left ELSE half[j]
      <4>1. half \in Seq(LineType) /\ left \in LineType
        BY <1>1, <2>1
      <4>2. QED
        BY ONLY <3>1, <4>1, ExceptSeq
    <3> HIDE DEF swapped
    <3>3. other = swapped
      BY <3>1 DEF swapped
    <3>4. QED
      BY <2>1, <3>2, <3>3 DEF place
  <2>4. QED
    BY <1>1, <2>1, <2>3
<1> HIDE DEF n, left, right
<1>3. DOMAIN other = 1 .. n /\ \A j \in DOMAIN other : ~Bad(other[j])
  <2>1. DOMAIN other = 1 .. n
    BY <1>2, LenProperties
  <2>2. ~Bad(left) /\ ~Bad(right)
    BY <1>1 DEF left, right
  <2>3. QED
    BY <2>1, <2>2, <1>1, <1>2
<1>4. Reading(text)[i - 1] = Reading(other)[i - 1]
  <2>1. \A j \in 0 + 1 .. i - 1 : SameLine(text[j], other[j])
    BY <1>1, <1>2 DEF SameLine
  <2>2. Reading(text)[0] = Reading(other)[0]
    BY <1>2, ReadingLemma
  <2>3. i - 1 \in 0 .. Len(text) /\ i - 1 <= Len(other) /\ 0 \in 0 .. i - 1
    BY <1>1, <1>2 DEF n
  <2>4. QED
    BY <2>1, <2>2, <2>3, <1>2, SameFrom
<1>5. Reading(text)[i + 1] = Reading(other)[i + 1]
  <2> DEFINE was(part) == Reading(text)[i - 1][part]
             one == Reading(text)[i + 1]
             two == Reading(other)[i + 1]
  <2>1. i - 1 \in 0 .. n /\ i \in 0 .. n /\ i - 1 < n /\ i < n /\ (i - 1) + 1 = i
    BY <1>1
  <2>2. ASSUME NEW part \in Parts PROVE one[part] = two[part]
    <3>1. /\ Reading(text)[i][part] = After(was(part), part, left)
          /\ one[part] = After(Reading(text)[i][part], part, right)
      <4>1. Reading(text)[(i - 1) + 1][part] = After(was(part), part, text[(i - 1) + 1])
        BY <2>1, NextLine DEF n
      <4>2. one[part] = After(Reading(text)[i][part], part, text[i + 1])
        BY <2>1, NextLine DEF n
      <4>3. QED
        BY <2>1, <4>1, <4>2 DEF left, right
    <3>2. /\ Reading(other)[i][part] = After(was(part), part, right)
          /\ two[part] = After(Reading(other)[i][part], part, left)
      <4>1. Reading(other)[(i - 1) + 1][part]
            = After(Reading(other)[i - 1][part], part, other[(i - 1) + 1])
        BY <2>1, <1>2, <1>3, NextLine
      <4>2. two[part] = After(Reading(other)[i][part], part, other[i + 1])
        BY <2>1, <1>2, <1>3, NextLine
      <4>3. QED
        BY <2>1, <1>2, <1>4, <4>1, <4>2
    <3>3. left.word # right.word
      BY DEF left, right
    <3> HIDE DEF was, one, two
    <3>4. QED
      BY <3>1, <3>2, <3>3 DEF After
  <2>3. IsDecl(one) /\ IsDecl(two)
    <3>1. i + 1 \in 0 .. Len(text) /\ i + 1 \in 0 .. Len(other)
      BY <1>1, <1>2 DEF n
    <3>2. QED
      BY <3>1, <1>2, TextShape
  <2> HIDE DEF one, two
  <2>4. one = [part \in Parts |-> one[part]] /\ two = [part \in Parts |-> two[part]]
    BY <2>3, Zenon DEF IsDecl
  <2>5. [part \in Parts |-> one[part]] = [part \in Parts |-> two[part]]
    BY <2>2
  <2>6. one = two
    BY <2>4, <2>5, Zenon
  <2>7. QED
    BY <2>6 DEF one, two
<1>6. Reading(text)[n] = Reading(other)[n]
  <2>1. \A j \in (i + 1) + 1 .. n : SameLine(text[j], other[j])
    BY <1>1, <1>2 DEF SameLine
  <2>2. n \in 0 .. Len(text) /\ n <= Len(other) /\ i + 1 \in 0 .. n
    BY <1>1, <1>2 DEF n
  <2>3. QED
    BY <2>1, <2>2, <1>2, <1>5, SameFrom
<1>7. QED
  BY <1>2, <1>6 DEF ParseSourceBytes, n

(* What stands before the first comment, or everything.                    *)
LEMMA BeforeComment ==
  ASSUME NEW S, NEW fields \in Seq(S)
  PROVE  /\ (\A j \in 1 .. Len(fields) : fields[j] # Comment) => Uncommented(fields) = fields
         /\ \A m \in 1 .. Len(fields) :
              fields[m] = Comment /\ (\A j \in 1 .. m - 1 : fields[j] # Comment)
              => Uncommented(fields) = SubSeq(fields, 1, m - 1)
<1> DEFINE at == {j \in 1 .. Len(fields) : fields[j] = Comment}
           cut == IF at # {} THEN Min(at) ELSE 0
<1>1. Len(fields) \in Nat
  BY LenProperties
<1>2. Uncommented(fields) = IF cut = 0 THEN fields ELSE SubSeq(fields, 1, cut - 1)
  BY DEF Uncommented, SelectInSeq
<1>3. ASSUME NEW m \in 1 .. Len(fields), fields[m] = Comment,
             \A j \in 1 .. m - 1 : fields[j] # Comment
      PROVE  cut = m
  <2>1. m \in at /\ \A j \in at : m <= j
    BY <1>1, <1>3
  <2>2. \A j \in at : j \in Int
    BY <1>1
  <2> HIDE DEF at
  <2>3. Min(at) = m
    <3> DEFINE least == CHOOSE j \in at : \A i \in at : j <= i
    <3>1. least \in at /\ \A i \in at : least <= i
      BY <2>1
    <3>2. Min(at) = least
      BY DEF Min
    <3> HIDE DEF least
    <3>3. QED
      BY <2>1, <2>2, <3>1, <3>2
  <2>4. QED
    BY <2>1, <2>3
<1>4. (\A j \in 1 .. Len(fields) : fields[j] # Comment) => cut = 0
  OBVIOUS
<1> HIDE DEF cut
<1>5. QED
  BY <1>1, <1>2, <1>3, <1>4

(* A comment at the end of a line hides nothing.                           *)
LEMMA CommentUnread ==
  ASSUME NEW S, NEW fields \in Seq(S)
  PROVE  Uncommented(InsertAt(fields, Len(fields) + 1, Comment)) = Uncommented(fields)
<1> DEFINE T == S \cup {Comment}
           n == Len(fields)
           longer == Append(fields, Comment)
<1>1. fields \in Seq(T) /\ Comment \in T /\ n \in Nat
  BY SeqMonotonic, LenProperties
<1>2. InsertAt(fields, n + 1, Comment) = longer
  <2> DEFINE one == <<Comment>>
             rest == SubSeq(fields, n + 1, n)
  <2>1. SubSeq(fields, 1, (n + 1) - 1) = fields
    BY <1>1, SubSeqFull
  <2>2. rest = <<>>
    BY <1>1, SubSeqEmpty
  <2>3. one \in Seq(T) /\ longer = fields \o one
    BY <1>1, AppendIsConcat
  <2>4. fields \o one \in Seq(T)
    BY <1>1, <2>3, ConcatProperties
  <2>5. (fields \o one) \o <<>> = fields \o one
    BY <2>4, ConcatEmptySeq
  <2>6. InsertAt(fields, n + 1, Comment) = (SubSeq(fields, 1, (n + 1) - 1) \o one) \o rest
    BY DEF InsertAt
  <2> HIDE DEF one, rest, longer
  <2>7. QED
    BY <2>1, <2>2, <2>3, <2>5, <2>6
<1>3. /\ longer \in Seq(T) /\ Len(longer) = n + 1 /\ longer[n + 1] = Comment
      /\ \A i \in 1 .. n : longer[i] = fields[i]
  BY <1>1, AppendProperties, LenProperties
<1> HIDE DEF longer, T
<1>4. ASSUME NEW m \in 0 .. n PROVE SubSeq(longer, 1, m) = SubSeq(fields, 1, m)
  <2>1. SubSeq(longer, 1, m) = [i \in 1 .. m |-> longer[i]]
    BY <1>1, <1>3
  <2>2. SubSeq(fields, 1, m) = [i \in 1 .. m |-> fields[i]]
    BY <1>1
  <2>3. \A i \in 1 .. m : longer[i] = fields[i]
    BY <1>1, <1>3
  <2>4. QED
    BY <2>1, <2>2, <2>3
<1>5. CASE \A j \in 1 .. n : fields[j] # Comment
  <2>1. Uncommented(fields) = fields
    BY <1>1, <1>5, BeforeComment
  <2>2. n + 1 \in 1 .. Len(longer) /\ (n + 1) - 1 = n /\ \A j \in 1 .. n : longer[j] # Comment
    BY <1>1, <1>3, <1>5
  <2>3. Uncommented(longer) = SubSeq(longer, 1, n)
    BY <1>3, <2>2, BeforeComment
  <2>4. SubSeq(longer, 1, n) = SubSeq(fields, 1, n) /\ SubSeq(fields, 1, n) = fields
    BY <1>1, <1>4, SubSeqFull
  <2>5. QED
    BY <1>2, <2>1, <2>3, <2>4
<1>6. CASE \E j \in 1 .. n : fields[j] = Comment
  <2> DEFINE at == {j \in 1 .. n : fields[j] = Comment}
  <2>1. PICK m \in at : \A j \in at : m <= j
    <3>1. at \in SUBSET Nat /\ at # {}
      BY <1>1, <1>6
    <3> HIDE DEF at
    <3>2. QED
      BY <3>1, LeastNatural
  <2>2. /\ m \in 1 .. n /\ fields[m] = Comment
        /\ \A j \in 1 .. m - 1 : fields[j] # Comment
    BY <1>1, <2>1
  <2>3. Uncommented(fields) = SubSeq(fields, 1, m - 1)
    BY <1>1, <2>2, BeforeComment
  <2>4. /\ m \in 1 .. Len(longer) /\ longer[m] = Comment /\ m - 1 \in 0 .. n
        /\ \A j \in 1 .. m - 1 : longer[j] # Comment
    BY <1>1, <1>3, <2>2
  <2>5. Uncommented(longer) = SubSeq(longer, 1, m - 1)
    BY <1>3, <2>4, BeforeComment
  <2>6. QED
    BY <1>2, <1>4, <2>3, <2>4, <2>5
<1>7. QED
  BY <1>5, <1>6

(* A comment leaves lines lines; at the end of one it changes nothing.     *)
LEMMA Commented ==
  ASSUME NEW text \in Seq(LineType), NEW i \in DOMAIN text, NEW k \in 0 .. Len(text[i].fields),
         NEW other, other = [text EXCEPT ![i].fields = InsertAt(@, k + 1, Comment)]
  PROVE  /\ other \in Seq(LineType)
         /\ k = Len(text[i].fields) => ParseSourceBytes(other) = ParseSourceBytes(text)
<1> DEFINE n == Len(text)
           line == text[i]
           longer == [line EXCEPT !.fields = InsertAt(@, k + 1, Comment)]
<1>1. n \in Nat /\ i \in 1 .. n /\ line \in LineType /\ line.fields \in Seq(FieldType)
  <2>1. n \in Nat /\ i \in 1 .. n
    BY LenProperties
  <2>2. line \in LineType
    BY <2>1, ElementOfSeq
  <2>3. QED
    BY <2>1, <2>2 DEF LineType
<1>2. Len(line.fields) \in Nat /\ Comment \in FieldType
  BY <1>1, LenProperties DEF FieldType
<1>3. InsertAt(line.fields, k + 1, Comment) \in Seq(FieldType)
  <2> DEFINE fields == line.fields
             before == SubSeq(fields, 1, (k + 1) - 1)
             rest == SubSeq(fields, k + 1, Len(fields))
             one == <<Comment>>
  <2>1. before \in Seq(FieldType) /\ rest \in Seq(FieldType)
    <3>1. (k + 1) - 1 \in Int /\ k + 1 \in Int /\ Len(fields) \in Int
      BY <1>2
    <3>2. \A j \in 1 .. (k + 1) - 1 : fields[j] \in FieldType
      BY <1>1, <1>2, ElementOfSeq
    <3>3. \A j \in k + 1 .. Len(fields) : fields[j] \in FieldType
      BY <1>1, <1>2, ElementOfSeq
    <3> HIDE DEF fields
    <3>4. QED
      BY <3>1, <3>2, <3>3, SubSeqProperties
  <2>2. one \in Seq(FieldType)
    BY <1>2
  <2> HIDE DEF before, rest, one
  <2>3. (before \o one) \o rest \in Seq(FieldType)
    BY <2>1, <2>2, ConcatProperties
  <2>4. QED
    BY <2>3 DEF InsertAt, before, rest, one
<1>4. /\ longer \in LineType /\ longer.word = line.word
      /\ longer.fields = InsertAt(line.fields, k + 1, Comment)
  BY <1>1, <1>3 DEF LineType
<1>5. other = [text EXCEPT ![i] = longer]
  OBVIOUS
<1> HIDE DEF longer
<1>6. /\ other \in Seq(LineType) /\ Len(other) = n
      /\ \A j \in 1 .. n : other[j] = IF j = i THEN longer ELSE text[j]
  <2> DEFINE changed == [text EXCEPT ![i] = longer]
  <2>1. /\ changed \in Seq(LineType) /\ Len(changed) = n
        /\ \A j \in 1 .. n : changed[j] = IF j = i THEN longer ELSE text[j]
    BY <1>1, <1>4, ExceptSeq
  <2> HIDE DEF changed
  <2>2. other = changed
    BY <1>5 DEF changed
  <2>3. QED
    BY <2>1, <2>2
<1>7. ASSUME k = Len(line.fields) PROVE ParseSourceBytes(other) = ParseSourceBytes(text)
  <2>1. SameLine(line, longer)
    <3>1. Uncommented(InsertAt(line.fields, Len(line.fields) + 1, Comment))
          = Uncommented(line.fields)
      BY <1>1, CommentUnread
    <3>2. QED
      BY <3>1, <1>4, <1>7 DEF SameLine
  <2>2. \A j \in 0 + 1 .. n : SameLine(text[j], other[j])
    <3> SUFFICES ASSUME NEW j \in 1 .. n PROVE SameLine(text[j], other[j])
      OBVIOUS
    <3>1. other[j] = IF j = i THEN longer ELSE text[j]
      BY <1>6
    <3>2. CASE j = i
      BY <2>1, <3>1, <3>2
    <3>3. CASE j # i
      BY <3>1, <3>3 DEF SameLine
    <3>4. QED
      BY <3>2, <3>3
  <2>3. Reading(text)[0] = Reading(other)[0]
    BY <1>6, ReadingLemma
  <2>4. n \in 0 .. Len(text) /\ n <= Len(other) /\ 0 \in 0 .. n
    BY <1>1, <1>6
  <2>5. Reading(text)[n] = Reading(other)[n]
    <3> HIDE DEF n
    <3>1. QED
      BY <1>6, <2>2, <2>3, <2>4, SameFrom
  <2>6. QED
    BY <1>6, <2>5 DEF ParseSourceBytes
<1>8. QED
  BY <1>6, <1>7

-----------------------------------------------------------------------------
(* The file as it is edited: the lines are lines, and what is known of     *)
(* them is what was read last.                                             *)
SourceInv ==
  /\ lines \in Seq(LineType)
  /\ decl = ParseSourceBytes(lines) /\ verdict = Verdict(decl, contract)

(* The edits make sequences of lines out of sequences of lines.            *)
LEMMA RemovedAt ==
  ASSUME NEW S, NEW row \in Seq(S), NEW i \in DOMAIN row
  PROVE  RemoveAt(row, i) \in Seq(S)
<1> DEFINE before == SubSeq(row, 1, i - 1)
           rest == SubSeq(row, i + 1, Len(row))
<1>1. i \in 1 .. Len(row) /\ Len(row) \in Nat /\ \A j \in 1 .. Len(row) : row[j] \in S
  BY LenProperties, ElementOfSeq
<1>2. before \in Seq(S) /\ rest \in Seq(S)
  <2>1. i - 1 \in Int /\ i + 1 \in Int /\ Len(row) \in Int /\ 1 \in Int
    BY <1>1
  <2>2. (\A j \in 1 .. i - 1 : row[j] \in S) /\ \A j \in i + 1 .. Len(row) : row[j] \in S
    BY <1>1
  <2>3. QED
    BY <2>1, <2>2, SubSeqProperties
<1> HIDE DEF before, rest
<1>3. before \o rest \in Seq(S)
  BY <1>2, ConcatProperties
<1>4. QED
  BY <1>3 DEF RemoveAt, before, rest

LEMMA Respelt ==
  ASSUME NEW text \in Seq(LineType), NEW i \in DOMAIN text, NEW k \in DOMAIN text[i].fields,
         NEW field \in FieldType
  PROVE  [text EXCEPT ![i].fields[k] = field] \in Seq(LineType)
<1> DEFINE line == text[i]
           respelt == [line.fields EXCEPT ![k] = field]
           longer == [line EXCEPT !.fields = respelt]
<1>1. i \in 1 .. Len(text) /\ line \in LineType
  BY LenProperties, ElementOfSeq
<1>2. line.fields \in Seq(FieldType) /\ k \in 1 .. Len(line.fields)
  BY <1>1, LenProperties DEF LineType
<1>3. respelt \in Seq(FieldType)
  <2> DEFINE fields == line.fields
  <2>1. fields \in Seq(FieldType) /\ k \in 1 .. Len(fields)
    BY <1>2
  <2> HIDE DEF fields
  <2>2. [fields EXCEPT ![k] = field] \in Seq(FieldType)
    BY <2>1, ExceptSeq
  <2>3. QED
    BY <2>2 DEF fields
<1> HIDE DEF respelt
<1>4. longer \in LineType
  BY <1>1, <1>3 DEF LineType
<1>5. [text EXCEPT ![i] = longer] \in Seq(LineType)
  <2> HIDE DEF longer
  <2>1. QED
    BY <1>1, <1>4, ExceptSeq
<1>6. QED
  BY <1>5 DEF longer, respelt

LEMMA SwappedAt ==
  ASSUME NEW S, NEW row \in Seq(S), NEW i \in DOMAIN row, i < Len(row)
  PROVE  [row EXCEPT ![i] = row[i + 1], ![i + 1] = row[i]] \in Seq(S)
<1> DEFINE n == Len(row)
           swapped == [row EXCEPT ![i] = row[i + 1], ![i + 1] = row[i]]
<1>1. /\ n \in Nat /\ row = [j \in 1 .. n |-> row[j]] /\ i \in 1 .. n /\ i + 1 \in 1 .. n
      /\ \A j \in 1 .. n : row[j] \in S
  BY LenProperties, ElementOfSeq
<1>2. swapped = [j \in 1 .. n |-> swapped[j]] /\ \A j \in 1 .. n : swapped[j] \in S
  BY <1>1
<1> HIDE DEF swapped, n
<1>3. [j \in 1 .. n |-> swapped[j]] \in Seq(S)
  BY <1>1, <1>2, IsASeq
<1>4. QED
  BY <1>2, <1>3 DEF swapped

(* SourceInv is inductive.                                                 *)
LEMMA InitSourceInv == Init => SourceInv
BY TextsAssumption DEF Init, SourceInv

LEMMA NextSourceInv ==
  ASSUME SourceInv, [Next]_vars
  PROVE  SourceInv'
<1> DEFINE Reread == decl' = ParseSourceBytes(lines') /\ verdict' = Verdict(decl', contract')
<1> USE DEF SourceInv
<1>1. lines' \in Seq(LineType) /\ Reread => SourceInv'
  OBVIOUS
<1>2. CASE UNCHANGED vars
  BY <1>2 DEF vars, Verdict
<1>3. ASSUME NEW i \in DOMAIN lines, Drop(i) PROVE SourceInv'
  BY <1>1, <1>3, RemovedAt DEF Drop, Edited, Read
<1>4. ASSUME NEW i \in DOMAIN lines, Swap(i) PROVE SourceInv'
  BY <1>1, <1>4, SwappedAt DEF Swap, Edited, Read
<1>5. ASSUME NEW line \in LineType, NEW top \in BOOLEAN, Insert(line, top) PROVE SourceInv'
  <2>1. <<line>> \o lines \in Seq(LineType) /\ Append(lines, line) \in Seq(LineType)
    BY ListCons, AppendProperties
  <2>2. QED
    BY <1>1, <1>5, <2>1 DEF Insert, Edited, Read
<1>6. ASSUME NEW i \in DOMAIN lines, NEW k \in DOMAIN lines[i].fields,
             NEW field \in Respellings, Respell(i, k, field)
      PROVE  SourceInv'
  <2>1. field \in FieldType
    BY TextsAssumption
  <2>2. QED
    BY <1>1, <1>6, <2>1, Respelt DEF Respell, Edited, Read
<1>7. ASSUME NEW i \in DOMAIN lines, NEW k \in 0 .. Len(lines[i].fields), CommentAfter(i, k)
      PROVE  SourceInv'
  <2>1. lines' \in Seq(LineType)
    BY <1>7, Commented DEF CommentAfter
  <2>2. QED
    BY <1>1, <1>7, <2>1 DEF CommentAfter, Edited, Read
<1>8. CASE ReplaceContract
  BY <1>1, <1>8 DEF ReplaceContract, Read
<1>9. \A i \in DOMAIN lines : lines[i] \in LineType
  BY LenProperties, ElementOfSeq
<1>10. CASE Next
  BY <1>3, <1>4, <1>5, <1>6, <1>7, <1>8, <1>9, <1>10, TextsAssumption DEF Next
<1>11. QED
  BY <1>2, <1>10

LEMMA SourceInvAlways == Spec => []SourceInv
BY InitSourceInv, NextSourceInv, PTL DEF Spec

-----------------------------------------------------------------------------
(* What an admitted source can be relied on for.                           *)

(* What is known of an admitted file: none of its lines is bad.            *)
LEMMA Admitted ==
  ASSUME SourceInv, verdict = "admitted"
  PROVE  /\ lines \in Seq(LineType) /\ decl = ParseSourceBytes(lines) /\ IsDecl(decl)
         /\ ~decl["failed"] /\ ValidateSource(decl, contract)
         /\ \A i \in DOMAIN lines : ~Bad(lines[i])
<1>1. ~decl["failed"] /\ ValidateSource(decl, contract)
  BY DEF SourceInv, Verdict
<1>2. QED
  BY <1>1, AllRead DEF SourceInv

(* A map by identity, of a row in which no identity is repeated.           *)
LEMMA Looked ==
  ASSUME NEW row, IsList(row), IsInjective([i \in DOMAIN row |-> row[i].id])
  PROVE  /\ DOMAIN ById(row) = {row[i].id : i \in DOMAIN row}
         /\ \A i \in DOMAIN row : ById(row)[row[i].id] = row[i]
<1> DEFINE keys == [i \in DOMAIN row |-> row[i].id]
           at(key) == {i \in DOMAIN keys : keys[i] = key}
<1>1. DOMAIN keys = DOMAIN row /\ Range(keys) = {row[i].id : i \in DOMAIN row}
  BY DEF Range
<1>2. ById(row) = [key \in Range(keys) |-> row[Max(at(key))]]
  BY DEF ById, Assigned
<1>3. ASSUME NEW i \in DOMAIN row PROVE Max(at(row[i].id)) = i
  <2>1. i \in Int
    BY LenProperties DEF IsList
  <2>2. at(row[i].id) = {i}
    BY <1>1 DEF IsInjective
  <2> HIDE DEF at
  <2>3. Max({i}) = i
    BY <2>1 DEF Max
  <2>4. QED
    BY <2>2, <2>3
<1> HIDE DEF keys, at
<1>4. QED
  BY <1>1, <1>2, <1>3

(* Of an admitted source newEnvironment loses no declaration, and finds    *)
(* what the operations refer to (lower.go:97-121).                         *)
THEOREM EnvironmentLosesNothing == Spec => []EnvironmentIsTotal
<1>1. SourceInv => EnvironmentIsTotal
  <2> SUFFICES ASSUME SourceInv, verdict = "admitted" PROVE EnvironmentIsTotal
    BY DEF EnvironmentIsTotal
  <2> DEFINE Mapped == {"operation", "stage", "origin", "capability", "effect", "rule"}
             env == newEnvironment(decl)
  <2>1. Mapped \subseteq Listed \ {"case"}
    BY DEF Listed, Keys
  <2>2. validateUniqueIDs(decl) /\ validateRequiredDeclarations(decl)
    BY Admitted DEF ValidateSource
  <2>3. ASSUME NEW word \in Mapped
        PROVE  /\ DOMAIN env[word] = Named(decl, word)
               /\ \A i \in DOMAIN decl[word] : env[word][decl[word][i].id] = decl[word][i]
    <3>1. IsList(decl[word])
      BY <2>1, Admitted DEF IsDecl
    <3>2. IsInjective([i \in DOMAIN decl[word] |-> decl[word][i].id])
      BY <2>1, <2>2 DEF validateUniqueIDs, ids
    <3>3. env[word] = ById(decl[word])
      BY DEF newEnvironment
    <3>4. Named(decl, word) = {decl[word][i].id : i \in DOMAIN decl[word]}
      BY DEF Named, ids, Range
    <3> HIDE DEF env
    <3>5. QED
      BY <3>1, <3>2, <3>3, <3>4, Looked
  <2>4. DOMAIN env = Mapped
    BY DEF newEnvironment
  <2>5. ASSUME NEW id \in DOMAIN env["operation"]
        PROVE  OperationBound(decl, env["operation"][id])
    <3>1. DOMAIN env["operation"] = {decl["operation"][i].id : i \in DOMAIN decl["operation"]}
      BY <2>3 DEF Named, ids, Range
    <3>2. PICK i \in DOMAIN decl["operation"] : id = decl["operation"][i].id
      BY <3>1
    <3>3. env["operation"][id] = decl["operation"][i]
      BY <2>3, <3>2
    <3>4. OperationBound(decl, decl["operation"][i])
      BY <2>2 DEF validateRequiredDeclarations
    <3>5. QED
      BY <3>3, <3>4
  <2>6. /\ DOMAIN env["stage"] = Named(decl, "stage")
        /\ DOMAIN env["origin"] = Named(decl, "origin")
        /\ DOMAIN env["capability"] = Named(decl, "capability")
        /\ DOMAIN env["effect"] = Named(decl, "effect")
    BY <2>3
  <2> HIDE DEF env
  <2>7. \A id \in DOMAIN env["operation"] :
          LET operation == env["operation"][id]
          IN  /\ operation.stage \in DOMAIN env["stage"]
              /\ operation.origin \in DOMAIN env["origin"]
              /\ Texts(Range(operation.requires) \ {"$cap"}) \subseteq DOMAIN env["capability"]
              /\ Texts(Range(operation.effects)) \subseteq DOMAIN env["effect"]
    BY <2>5, <2>6 DEF OperationBound
  <2>8. \A word \in DOMAIN env : \A i \in DOMAIN decl[word] :
          env[word][decl[word][i].id] = decl[word][i]
    BY <2>3, <2>4
  <2>9. QED
    BY <2>7, <2>8 DEF EnvironmentIsTotal, env
<1>2. QED
  BY <1>1, SourceInvAlways, PTL

(* A key of an operation that is not written before a comment is empty.    *)
LEMMA UnwrittenKey ==
  ASSUME NEW line, line.word = "operation",
         NEW key \in Keys["operation"] \ {"requires", "effects"},
         \A i \in DOMAIN Uncommented(line.fields) : Uncommented(line.fields)[i].key # key
  PROVE  Says(line)[key] = NoText
<1> DEFINE fields == Uncommented(line.fields)
           values == parseKeyValues(fields)
<1>1. key \in {"id", "kind", "input", "output", "stage", "origin", "pre", "post"}
  BY DEF Keys
<1>2. key \notin Numbers /\ key \notin Rows /\ key # "properties"
  BY <1>1 DEF Numbers, Rows, AuthorityKeys
<1>3. Says(line) = Declaration("operation", values)
  BY DEF Says, Declared
<1> HIDE DEF values
<1>4. Says(line)[key] = Text(values, key)
  BY <1>2, <1>3 DEF Declaration
<1>5. key \notin DOMAIN values
  BY DEF values, parseKeyValues, Assigned, Range
<1>6. QED
  BY <1>4, <1>5 DEF Text

(* In an operation of an admitted source only its two rows can be missing  *)
(* without an error (parse.go:91-96, lower.go:250-267).                    *)
THEOREM OnlyRowsAreMissed == Spec => []OnlyRowsDefault
<1>1. SourceInv => OnlyRowsDefault
  <2> SUFFICES ASSUME SourceInv, verdict = "admitted",
                      NEW i \in DOMAIN lines, lines[i].word = "operation",
                      NEW key \in Keys["operation"] \ {"requires", "effects"},
                      key \notin {field.key : field \in Range(Uncommented(lines[i].fields))}
               PROVE  FALSE
    BY DEF OnlyRowsDefault
  <2> DEFINE operation == Says(lines[i])
  <2>1. operation[key] = NoText
    <3>1. \A j \in DOMAIN Uncommented(lines[i].fields) :
            Uncommented(lines[i].fields)[j].key # key
      BY DEF Range
    <3>2. QED
      BY <3>1, UnwrittenKey
  <2>2. "operation" \in Listed /\ {"type", "stage", "origin", "operation"} \subseteq Listed \ {"case"}
    BY DEF Listed, Keys
  <2>3. PICK j \in DOMAIN decl["operation"] : operation = decl["operation"][j]
    <3>1. operation \in Range(decl["operation"])
      BY <2>2, Admitted, Recorded
    <3> HIDE DEF operation
    <3>2. QED
      BY <3>1 DEF Range
  <2>4. OperationBound(decl, operation)
    BY <2>3, Admitted DEF ValidateSource, validateRequiredDeclarations
  <2>5. \A word \in {"type", "stage", "origin", "operation"} : NoText \notin Named(decl, word)
    BY <2>2, Admitted DEF ValidateSource, validateUniqueIDs
  <2>6. operation.id \in Named(decl, "operation")
    BY <2>3 DEF Named, ids, Range
  <2> HIDE DEF operation
  <2>7. \A k \in {"id", "kind", "input", "output", "stage", "origin", "pre", "post"} :
          operation[k] # NoText
    BY <2>4, <2>5, <2>6 DEF OperationBound
  <2>8. key \in {"id", "kind", "input", "output", "stage", "origin", "pre", "post"}
    BY DEF Keys
  <2>9. QED
    BY <2>1, <2>7, <2>8
<1>2. QED
  BY <1>1, SourceInvAlways, PTL

(* A line above others of its word that are declared once is not noticed.  *)
LEMMA Overridden ==
  ASSUME NEW text \in Seq(LineType), NEW line \in LineType,
         ~Bad(line), \A i \in DOMAIN text : ~Bad(text[i]),
         line.word \notin Listed, line.word = "" \/ \E i \in DOMAIN text : text[i].word = line.word
  PROVE  ParseSourceBytes(<<line>> \o text) = ParseSourceBytes(text)
<1> DEFINE one == ParseSourceBytes(<<line>> \o text)
           two == ParseSourceBytes(text)
<1>1. <<line>> \o text \in Seq(LineType) /\ DOMAIN text = 1 .. Len(text)
  BY ListCons
<1>2. IsDecl(one) /\ IsDecl(two)
  BY <1>1, AllRead
<1>3. ASSUME NEW part \in Parts PROVE one[part] = two[part]
  <2>1. "" \notin Parts
    BY DEF Parts, Keys
  <2>2. one[part] = UnderIt(line, text, Len(text), part)
    BY OnTop
  <2>3. part = line.word => \E i \in 1 .. Len(text) : text[i].word = part
    BY <1>1, <2>1
  <2>4. QED
    BY <2>2, <2>3 DEF UnderIt, ParseSourceBytes
<1> HIDE DEF one, two
<1>4. one = [part \in Parts |-> one[part]] /\ two = [part \in Parts |-> two[part]]
  BY <1>2, Zenon DEF IsDecl
<1>5. [part \in Parts |-> one[part]] = [part \in Parts |-> two[part]]
  BY <1>3
<1>6. one = two
  BY <1>4, <1>5, Zenon
<1>7. QED
  BY <1>6 DEF one, two

(* A second declaration of an identity, at either end.                     *)
LEMMA Twice ==
  ASSUME NEW row, IsList(row), NEW value \in Range(row),
         NEW longer, longer \in {<<value>> \o row, Append(row, value)}
  PROVE  /\ Len(longer) # Len(row)
         /\ ~IsInjective([i \in DOMAIN longer |-> longer[i].id])
<1> DEFINE S == Range(row)
           n == Len(row)
           keys == [i \in DOMAIN longer |-> longer[i].id]
<1>1. row \in Seq(S) /\ value \in S /\ n \in Nat /\ DOMAIN row = 1 .. n
  BY LenProperties DEF IsList
<1>2. PICK i \in 1 .. n : row[i] = value
  BY <1>1 DEF Range
<1>3. Len(longer) = n + 1 /\ DOMAIN longer = 1 .. n + 1
  BY <1>1, ListCons, ListAppend
<1>4. \E j, k \in 1 .. n + 1 : j # k /\ longer[j] = value /\ longer[k] = value
  <2>1. CASE longer = <<value>> \o row
    <3>1. longer[1] = value /\ longer[i + 1] = value
      BY <1>1, <1>2, <2>1, ListCons
    <3>2. 1 \in 1 .. n + 1 /\ i + 1 \in 1 .. n + 1 /\ 1 # i + 1
      BY <1>1, <1>2
    <3>3. QED
      BY <3>1, <3>2
  <2>2. CASE longer = Append(row, value)
    <3>1. longer[i] = value /\ longer[n + 1] = value
      BY <1>1, <1>2, <2>2, ListAppend
    <3>2. i \in 1 .. n + 1 /\ n + 1 \in 1 .. n + 1 /\ i # n + 1
      BY <1>1, <1>2
    <3>3. QED
      BY <3>1, <3>2
  <2>3. QED
    BY <2>1, <2>2
<1>5. PICK j, k \in 1 .. n + 1 : j # k /\ longer[j] = value /\ longer[k] = value
  BY <1>4
<1>6. j \in DOMAIN keys /\ k \in DOMAIN keys /\ keys[j] = keys[k] /\ j # k
  BY <1>3, <1>5
<1> HIDE DEF keys
<1>7. ~IsInjective(keys)
  BY <1>6 DEF IsInjective
<1>8. Len(longer) # Len(row)
  <2> DEFINE before == Len(row)
             after == Len(longer)
  <2>1. before \in Nat /\ after = before + 1
    BY <1>1, <1>3
  <2> HIDE DEF before, after
  <2>2. after # before
    BY ONLY <2>1
  <2>3. QED
    BY <2>2 DEF before, after
<1>9. QED
  BY <1>7, <1>8 DEF keys

(* A copy of a line of a word that may be declared often is refused.       *)
LEMMA CopyRefused ==
  ASSUME SourceInv, verdict = "admitted", NEW i \in DOMAIN lines, NEW top \in BOOLEAN,
         Insert(lines[i], top), lines[i].word \in Listed
  PROVE  verdict' = "refused"
<1> DEFINE line == lines[i]
           word == line.word
           text == IF top THEN <<line>> \o lines ELSE Append(lines, line)
           after == ParseSourceBytes(text)
           row == decl[word]
           value == Says(line)
<1>1. /\ lines \in Seq(LineType) /\ decl = ParseSourceBytes(lines) /\ IsDecl(decl)
      /\ ~decl["failed"] /\ ValidateSource(decl, contract)
      /\ \A j \in DOMAIN lines : ~Bad(lines[j])
  BY Admitted
<1>2. line \in LineType /\ ~Bad(line) /\ word \in Listed /\ word \in Parts
  BY <1>1, LenProperties, ElementOfSeq, ListedParts
<1>3. decl' = after /\ verdict' = Verdict(after, contract)
  BY DEF Insert, Edited, Read
<1>4. IsList(row) /\ value \in Range(row)
  BY <1>1, <1>2, Recorded DEF IsDecl
<1>5. ~after["failed"] /\ after[word] \in {<<value>> \o row, Append(row, value)}
  <2>1. CASE top
    <3>1. after = ParseSourceBytes(<<line>> \o lines)
      BY <2>1
    <3> HIDE DEF line, after
    <3>2. \A part \in Parts : after[part] = UnderIt(line, lines, Len(lines), part)
      BY <1>1, <1>2, <3>1, OnTop
    <3>3. \A part \in Parts :
            UnderIt(line, lines, Len(lines), part) =
              IF part # line.word THEN decl[part]
              ELSE IF part \in Listed THEN <<Says(line)>> \o decl[part]
              ELSE UnderIt(line, lines, Len(lines), part)
      BY <1>1 DEF UnderIt, ParseSourceBytes
    <3>4. after[word] = <<value>> \o row
      BY <1>2, <3>2, <3>3
    <3>5. after["failed"] = decl["failed"]
      <4>1. "failed" \in Parts /\ line.word # "failed"
        BY <1>2, ListedParts DEF Parts
      <4>2. QED
        BY <3>2, <3>3, <4>1
    <3>6. QED
      BY <1>1, <3>4, <3>5
  <2>2. CASE ~top
    <3>1. after = ParseLine(decl, line)
      BY <1>1, <1>2, <2>2, AtBottom
    <3>2. ~after["failed"] /\ after[word] = After(decl[word], word, line)
      BY <1>1, <1>2, <3>1, GoodLine
    <3>3. QED
      BY <1>2, <3>2 DEF After
  <2>3. QED
    BY <2>1, <2>2
<1> HIDE DEF after, row, value, line
<1>6. /\ Len(after[word]) # Len(row)
      /\ ~IsInjective([j \in DOMAIN after[word] |-> after[word][j].id])
  BY <1>4, <1>5, Twice
<1>7. ~ValidateSource(after, contract)
  <2>1. CASE word = "case"
    <3>1. Len(row) = FixedCaseCount
      BY <1>1, <2>1 DEF ValidateSource, CasesMatch, row
    <3>2. QED
      BY <1>6, <2>1, <3>1 DEF ValidateSource, CasesMatch
  <2>2. CASE word # "case"
    BY <1>2, <1>6, <2>2 DEF ValidateSource, validateUniqueIDs, ids
  <2>3. QED
    BY <2>1, <2>2
<1>8. QED
  BY <1>3, <1>5, <1>7 DEF Verdict

(* A line that is overridden changes nothing.                              *)
LEMMA OverriddenAdmitted ==
  ASSUME SourceInv, verdict = "admitted", NEW line \in LineType, Insert(line, TRUE),
         ~Bad(line), line.word \notin Listed,
         line.word = "" \/ \E i \in DOMAIN lines : lines[i].word = line.word
  PROVE  verdict' = "admitted" /\ decl' = decl
<1>1. lines' = <<line>> \o lines /\ contract' = contract /\ decl' = ParseSourceBytes(lines')
      /\ verdict' = Verdict(decl', contract')
  BY DEF Insert, Edited, Read
<1>2. ParseSourceBytes(<<line>> \o lines) = ParseSourceBytes(lines)
  BY Admitted, Overridden
<1>3. QED
  BY <1>1, <1>2 DEF SourceInv

(* What is declared twice is refused, unless its word is one that is       *)
(* declared once, and then the lower of two equal lines counts            *)
(* (lower.go:142-183).                                                     *)
THEOREM CopiesAreRefused == Spec => RepeatsAreRefused
<1> DEFINE Copied(i, top) ==
             verdict = "admitted" /\ Insert(lines[i], top)
             => IF lines[i].word \in Listed THEN verdict' = "refused"
                ELSE top => verdict' = "admitted" /\ decl' = decl
<1>1. SourceInv => [\A i \in DOMAIN lines, top \in BOOLEAN : Copied(i, top)]_vars
  <2> SUFFICES ASSUME SourceInv, NEW i \in DOMAIN lines, NEW top \in BOOLEAN,
                      verdict = "admitted", Insert(lines[i], top)
               PROVE  IF lines[i].word \in Listed THEN verdict' = "refused"
                      ELSE top => verdict' = "admitted" /\ decl' = decl
    OBVIOUS
  <2>1. lines[i] \in LineType /\ ~Bad(lines[i])
    BY Admitted, LenProperties, ElementOfSeq
  <2>2. CASE lines[i].word \in Listed
    BY <2>2, CopyRefused
  <2>3. CASE lines[i].word \notin Listed
    <3>1. ASSUME top PROVE verdict' = "admitted" /\ decl' = decl
      <4>1. Insert(lines[i], TRUE)
        BY <3>1
      <4>2. QED
        BY <2>1, <2>3, <4>1, OverriddenAdmitted
    <3>2. QED
      BY <2>3, <3>1
  <2>4. QED
    BY <2>2, <2>3
<1>2. QED
  BY <1>1, SourceInvAlways, PTL DEF RepeatsAreRefused

(* Lines of different words may be exchanged and commented: the file reads *)
(* as before (parse.go:26-126).                                            *)
THEOREM SomeEditsAreNeutral == Spec => NeutralEdits
<1> DEFINE Neutral(i) ==
             \/ Swap(i) /\ lines[i].word # lines[i + 1].word
             \/ CommentAfter(i, Len(lines[i].fields))
           Same == verdict' = verdict /\ (verdict = "unreadable" \/ decl' = decl)
<1>1. ASSUME SourceInv, NEW i \in DOMAIN lines, Neutral(i) PROVE Same
  <2>1. /\ verdict # "unreadable" /\ contract' = contract
        /\ decl' = ParseSourceBytes(lines') /\ verdict' = Verdict(decl', contract')
    BY <1>1 DEF Swap, CommentAfter, Edited, MayEdit, Read
  <2>2. \A j \in DOMAIN lines : ~Bad(lines[j])
    BY <1>1, <2>1, AllRead DEF SourceInv, Verdict
  <2>3. ParseSourceBytes(lines') = ParseSourceBytes(lines)
    <3>1. CASE Swap(i) /\ lines[i].word # lines[i + 1].word
      BY <1>1, <2>2, <3>1, Exchanged DEF Swap, SourceInv
    <3>2. CASE CommentAfter(i, Len(lines[i].fields))
      <4> DEFINE k == Len(lines[i].fields)
      <4>1. k \in 0 .. Len(lines[i].fields)
        <5>1. lines[i] \in LineType
          BY <1>1, LenProperties, ElementOfSeq DEF SourceInv
        <5>2. lines[i].fields \in Seq(FieldType)
          BY <5>1 DEF LineType
        <5>3. QED
          BY <5>2, LenProperties
      <4>2. lines' = [lines EXCEPT ![i].fields = InsertAt(@, k + 1, Comment)]
        BY <3>2 DEF CommentAfter
      <4>3. k = Len(lines[i].fields) /\ lines \in Seq(LineType) /\ i \in DOMAIN lines
        BY <1>1 DEF SourceInv
      <4> DEFINE text == lines
                 other == [text EXCEPT ![i].fields = InsertAt(@, k + 1, Comment)]
      <4> HIDE DEF k
      <4>4. ParseSourceBytes(other) = ParseSourceBytes(text)
        BY <4>1, <4>3, Commented
      <4> HIDE DEF other
      <4>5. lines' = other
        BY <4>2 DEF other
      <4>6. QED
        BY <4>4, <4>5
    <3>3. QED
      BY <1>1, <3>1, <3>2
  <2>4. QED
    BY <1>1, <2>1, <2>3 DEF SourceInv
<1>2. SourceInv => [(\E i \in DOMAIN lines : Neutral(i)) => Same]_vars
  <2> HIDE DEF Neutral, Same
  <2>1. QED
    BY <1>1
<1>3. QED
  BY <1>2, SourceInvAlways, PTL DEF NeutralEdits

(* Of two lines of a word that is declared once the lower one counts, and  *)
(* nothing is said of the upper one (parse.go:60-63).                      *)
THEOREM UpperLinesAreIgnored == Spec => LaterLineWins
<1> DEFINE Added(line) ==
             /\ verdict = "admitted" /\ Insert(line, TRUE)
             /\ ~ParseSourceBytes(<<line>>).failed /\ line.word \notin Listed
             /\ line.word \in {lines[i].word : i \in DOMAIN lines}
           Same == verdict' = "admitted" /\ decl' = decl
<1>1. ASSUME SourceInv, NEW line \in Extras, Added(line) PROVE Same
  <2>1. line \in LineType
    BY TextsAssumption
  <2>2. ~Bad(line)
    <3> DEFINE one == <<line>>
    <3>1. one \in Seq(LineType) /\ 1 \in DOMAIN one /\ one[1] = line
      BY <2>1
    <3>2. ~ParseSourceBytes(one)["failed"]
      BY <1>1
    <3> HIDE DEF one
    <3>3. QED
      BY <3>1, <3>2, AllRead
  <2>3. QED
    BY <1>1, <2>1, <2>2, OverriddenAdmitted
<1>2. SourceInv => [\A line \in Extras : Added(line) => Same]_vars
  <2> HIDE DEF Added, Same
  <2>1. QED
    BY <1>1
<1>3. QED
  BY <1>2, SourceInvAlways, PTL DEF LaterLineWins

-----------------------------------------------------------------------------
(* Texts, put together and taken apart.                                    *)

RawText == Seq(Alphabet)

(* Induction over a text, by its first character.                          *)
LEMMA TextInduction ==
  ASSUME NEW T, <<>> \in T, \A s \in RawText : s # <<>> /\ Tail(s) \in T => s \in T
  PROVE  RawText \subseteq T
<1> DEFINE S == {n \in Nat : \A s \in RawText : Len(s) = n => s \in T}
<1>1. 0 \in S
  <2>1. \A s \in RawText : Len(s) = 0 => s = <<>>
    BY EmptySeq DEF RawText
  <2>2. QED
    BY <2>1
<1>2. ASSUME NEW n \in Nat, n \in S PROVE n + 1 \in S
  <2>1. ASSUME NEW s \in RawText, Len(s) = n + 1 PROVE s \in T
    <3>1. s # <<>>
      BY <2>1, EmptySeq DEF RawText
    <3>2. Tail(s) \in RawText /\ Len(Tail(s)) = n
      BY <2>1, <3>1, HeadTailProperties DEF RawText
    <3>3. QED
      BY <1>2, <3>1, <3>2
  <2>2. QED
    BY <2>1
<1> HIDE DEF S
<1>3. Nat \subseteq S
  BY <1>1, <1>2, NaturalInduction
<1>4. ASSUME NEW s \in RawText PROVE s \in T
  <2>1. Len(s) \in Nat
    BY LenProperties DEF RawText
  <2>2. QED
    BY <1>3, <2>1 DEF S
<1>5. QED
  BY <1>4

(* Induction by the length of a text.                                      *)
LEMMA LengthInduction ==
  ASSUME NEW T,
         \A s \in RawText : (\A t \in RawText : Len(t) < Len(s) => t \in T) => s \in T
  PROVE  RawText \subseteq T
<1> DEFINE S == {n \in Nat : \A s \in RawText : Len(s) < n => s \in T}
<1>0. \A s \in RawText : Len(s) \in Nat
  BY LenProperties DEF RawText
<1>1. 0 \in S
  BY <1>0
<1>2. ASSUME NEW n \in Nat, n \in S PROVE n + 1 \in S
  <2>1. ASSUME NEW s \in RawText, Len(s) < n + 1 PROVE s \in T
    <3>1. \A t \in RawText : Len(t) < Len(s) => Len(t) < n
      BY <1>0, <2>1
    <3>2. QED
      BY <1>2, <3>1
  <2>2. QED
    BY <2>1
<1> HIDE DEF S
<1>3. Nat \subseteq S
  BY <1>1, <1>2, NaturalInduction
<1>4. ASSUME NEW s \in RawText PROVE s \in T
  <2>1. Len(s) + 1 \in Nat /\ Len(s) < Len(s) + 1
    BY <1>0
  <2>2. Len(s) + 1 \in S
    BY <1>3, <2>1
  <2>3. QED
    BY <2>1, <2>2 DEF S
<1>5. QED
  BY <1>4

(* A character and what follows.                                           *)
LEMMA Prefixed ==
  ASSUME NEW c \in Alphabet, NEW t \in RawText
  PROVE  /\ <<c>> \in RawText /\ <<c>> \o t \in RawText /\ <<c>> \o t # <<>>
         /\ Head(<<c>> \o t) = c /\ Tail(<<c>> \o t) = t /\ Len(<<c>> \o t) = Len(t) + 1
<1> DEFINE u == <<c>> \o t
<1>1. <<c>> \in RawText /\ Len(<<c>>) = 1 /\ <<c>>[1] = c /\ Len(t) \in Nat
  BY LenProperties DEF RawText
<1>2. /\ u \in RawText /\ Len(u) = Len(t) + 1
      /\ u[1] = c /\ \A i \in 1 .. Len(t) : u[i + 1] = t[i]
  <2>1. /\ u \in RawText /\ Len(u) = 1 + Len(t)
        /\ \A i \in 1 .. 1 + Len(t) : u[i] = IF i <= 1 THEN <<c>>[i] ELSE t[i - 1]
    BY <1>1, ConcatProperties DEF RawText
  <2>2. QED
    BY <1>1, <2>1
<1> HIDE DEF u
<1>3. u # <<>>
  BY <1>1, <1>2, EmptySeq DEF RawText
<1>4. /\ Tail(u) \in RawText /\ Len(Tail(u)) = Len(t)
      /\ \A i \in 1 .. Len(t) : Tail(u)[i] = t[i]
  BY <1>1, <1>2, <1>3, HeadTailProperties DEF RawText
<1>5. Tail(u) = t
  BY <1>4, SeqEqual DEF RawText
<1>6. QED
  BY <1>1, <1>2, <1>3, <1>5 DEF u

LEMMA Uncons ==
  ASSUME NEW s \in RawText, s # <<>>
  PROVE  /\ Head(s) \in Alphabet /\ Head(s) = s[1] /\ Tail(s) \in RawText
         /\ s = <<Head(s)>> \o Tail(s) /\ Len(Tail(s)) = Len(s) - 1 /\ Len(s) \in Nat
<1>1. /\ Head(s) \in Alphabet /\ Tail(s) \in RawText /\ Len(Tail(s)) = Len(s) - 1
      /\ \A i \in 1 .. Len(Tail(s)) : Tail(s)[i] = s[i + 1]
  BY HeadTailProperties DEF RawText
<1>2. Len(s) \in Nat /\ Head(s) = s[1]
  BY LenProperties DEF RawText
<1>3. <<Head(s)>> \in RawText /\ Len(<<Head(s)>>) = 1 /\ <<Head(s)>>[1] = s[1]
  BY <1>1, <1>2 DEF RawText
<1> DEFINE h == <<Head(s)>>
           t == Tail(s)
           u == h \o t
<1> HIDE DEF h, t
<1>4. /\ u \in RawText /\ Len(u) = 1 + Len(t)
      /\ \A i \in 1 .. 1 + Len(t) : u[i] = IF i <= 1 THEN h[i] ELSE t[i - 1]
  BY <1>1, <1>3, ConcatProperties DEF RawText, h, t
<1>5. \A i \in 1 .. Len(u) : u[i] = s[i]
  BY <1>1, <1>2, <1>3, <1>4 DEF h, t
<1>6. u = s
  <2> HIDE DEF u
  <2>1. QED
    BY <1>1, <1>2, <1>4, <1>5, SeqEqual DEF RawText, t
<1>7. QED
  BY <1>1, <1>2, <1>6 DEF h, t

LEMMA Together ==
  ASSUME NEW s \in RawText, NEW t \in RawText
  PROVE  /\ s \o t \in RawText /\ Len(s \o t) = Len(s) + Len(t)
         /\ Len(s) \in Nat /\ Len(t) \in Nat
         /\ \A i \in 1 .. Len(s) : (s \o t)[i] = s[i]
         /\ \A i \in 1 .. Len(t) : (s \o t)[Len(s) + i] = t[i]
<1>1. /\ s \o t \in RawText /\ Len(s \o t) = Len(s) + Len(t)
      /\ \A i \in 1 .. Len(s) + Len(t) :
           (s \o t)[i] = IF i <= Len(s) THEN s[i] ELSE t[i - Len(s)]
      /\ Len(s) \in Nat /\ Len(t) \in Nat
  BY ConcatProperties, LenProperties DEF RawText
<1> DEFINE u == s \o t
<1> HIDE DEF u
<1>2. ASSUME NEW i \in 1 .. Len(t) PROVE u[Len(s) + i] = t[i]
  <2>1. Len(s) + i \in 1 .. Len(s) + Len(t) /\ ~(Len(s) + i <= Len(s)) /\ Len(s) + i - Len(s) = i
    BY <1>1
  <2>2. QED
    BY <1>1, <2>1 DEF u
<1>3. \A i \in 1 .. Len(s) : u[i] = s[i]
  BY <1>1 DEF u
<1>4. QED
  BY <1>1, <1>2, <1>3 DEF u

LEMMA Associates ==
  ASSUME NEW s \in RawText, NEW t \in RawText, NEW u \in RawText
  PROVE  (s \o t) \o u = s \o (t \o u)
BY ConcatAssociative DEF RawText

LEMMA EmptyText ==
  /\ <<>> \in RawText /\ Len(<<>>) = 0
  /\ \A s \in RawText : s \o <<>> = s /\ <<>> \o s = s /\ (s # <<>> => Len(s) >= 1)
BY EmptySeq, ConcatEmptySeq DEF RawText

(* A text around one of its characters.                                    *)
LEMMA Around ==
  ASSUME NEW s \in RawText, NEW i \in 1 .. Len(s)
  PROVE  LET before == SubSeq(s, 1, i - 1)
             after == SubSeq(s, i + 1, Len(s))
         IN  /\ before \in RawText /\ after \in RawText /\ <<s[i]>> \in RawText /\ s[i] \in Alphabet
             /\ Len(before) = i - 1 /\ Len(after) = Len(s) - i /\ Len(s) \in Nat
             /\ s = before \o (<<s[i]>> \o after)
             /\ \A j \in 1 .. i - 1 : before[j] = s[j]
             /\ \A j \in 1 .. Len(s) - i : after[j] = s[i + j]
<1> DEFINE before == SubSeq(s, 1, i - 1)
           after == SubSeq(s, i + 1, Len(s))
           c == <<s[i]>>
<1>1. Len(s) \in Nat /\ \A j \in 1 .. Len(s) : s[j] \in Alphabet
  BY LenProperties, ElementOfSeq DEF RawText
<1>2. /\ before \in RawText /\ Len(before) = i - 1
      /\ \A j \in 1 .. i - 1 : before[j] = s[j]
  <2>1. \A j \in 1 .. i - 1 : s[j] \in Alphabet
    BY <1>1
  <2>2. /\ before \in RawText /\ Len(before) = IF 1 <= i - 1 THEN i - 1 - 1 + 1 ELSE 0
        /\ \A j \in 1 .. i - 1 - 1 + 1 : before[j] = s[1 + j - 1]
    BY <1>1, <2>1, SubSeqProperties DEF RawText
  <2> HIDE DEF before
  <2>3. QED
    BY <1>1, <2>2
<1>3. /\ after \in RawText /\ Len(after) = Len(s) - i
      /\ \A j \in 1 .. Len(s) - i : after[j] = s[i + j]
  <2>1. \A j \in i + 1 .. Len(s) : s[j] \in Alphabet
    BY <1>1
  <2>2. /\ after \in RawText
        /\ Len(after) = IF i + 1 <= Len(s) THEN Len(s) - (i + 1) + 1 ELSE 0
        /\ \A j \in 1 .. Len(s) - (i + 1) + 1 : after[j] = s[i + 1 + j - 1]
    BY <1>1, <2>1, SubSeqProperties DEF RawText
  <2> HIDE DEF after
  <2>3. QED
    BY <1>1, <2>2
<1>4. c \in RawText /\ Len(c) = 1 /\ c[1] = s[i]
  BY <1>1 DEF RawText
<1> HIDE DEF before, after, c
<1> DEFINE rest == c \o after
           whole == before \o rest
<1>5. /\ rest \in RawText /\ Len(rest) = 1 + Len(after) /\ rest[1] = s[i]
      /\ \A j \in 1 .. Len(after) : rest[1 + j] = after[j]
  <2>1. /\ rest \in RawText /\ Len(rest) = Len(c) + Len(after)
        /\ \A j \in 1 .. Len(c) : rest[j] = c[j]
        /\ \A j \in 1 .. Len(after) : rest[Len(c) + j] = after[j]
    BY <1>3, <1>4, Together
  <2> HIDE DEF rest
  <2>2. QED
    BY <1>4, <2>1
<1> HIDE DEF rest
<1>6. /\ whole \in RawText /\ Len(whole) = Len(before) + Len(rest)
      /\ \A j \in 1 .. Len(before) : whole[j] = before[j]
      /\ \A j \in 1 .. Len(rest) : whole[Len(before) + j] = rest[j]
  BY <1>2, <1>5, Together
<1> HIDE DEF whole
<1>7. ASSUME NEW j \in 1 .. Len(s) PROVE whole[j] = s[j]
  <2>1. CASE j < i
    BY <1>1, <1>2, <1>6, <2>1
  <2>2. CASE j = i
    <3>1. Len(before) + 1 = j /\ 1 \in 1 .. Len(rest)
      BY <1>1, <1>2, <1>3, <1>5, <2>2
    <3>2. QED
      BY <1>5, <1>6, <2>2, <3>1
  <2>3. CASE j > i
    <3>1. /\ j - i \in 1 .. Len(after) /\ Len(before) + (1 + (j - i)) = j
          /\ 1 + (j - i) \in 1 .. Len(rest) /\ i + (j - i) = j
      BY <1>1, <1>2, <1>3, <1>5, <2>3
    <3>2. rest[1 + (j - i)] = s[j]
      BY <1>3, <1>5, <3>1
    <3>3. QED
      BY <1>6, <3>1, <3>2
  <2>4. QED
    BY <1>1, <2>1, <2>2, <2>3
<1>8. whole = s
  <2>1. Len(whole) = Len(s)
    BY <1>1, <1>2, <1>3, <1>5, <1>6
  <2>2. QED
    BY <1>6, <1>7, <2>1, SeqEqual DEF RawText
<1>9. QED
  BY <1>1, <1>2, <1>3, <1>4, <1>8 DEF before, after, c, rest, whole

-----------------------------------------------------------------------------
(* A text without its blanks.                                              *)

Gap == " "
Comma == ","
Opening == "("
Closing == ")"
Brace == "{"

Marks == {Gap, Comma, Opening, Closing, Brace}

LEMMA MarksAre ==
  /\ Gap # Comma /\ Gap # Opening /\ Gap # Closing /\ Gap # Brace
  /\ Comma # Opening /\ Comma # Closing /\ Comma # Brace
  /\ Opening # Closing /\ Opening # Brace /\ Closing # Brace
  /\ Alphabet = Letters \cup Marks /\ Letters \cap Marks = {}
<1>1. /\ Gap # Comma /\ Gap # Opening /\ Gap # Closing /\ Gap # Brace
      /\ Comma # Opening /\ Comma # Closing /\ Comma # Brace
      /\ Opening # Closing /\ Opening # Brace /\ Closing # Brace
  BY DEF Gap, Comma, Opening, Closing, Brace
<1>2. Alphabet = Letters \cup Marks
  BY DEF Alphabet, Plain, Marks, Gap, Comma, Opening, Closing, Brace
<1>3. Marks = {"(", ")", ",", "{", " "}
  BY DEF Marks, Gap, Comma, Opening, Closing, Brace
<1>4. Letters \cap Marks = {}
  BY <1>3, LettersAssumption
<1>5. QED
  BY <1>1, <1>2, <1>4

LEMMA MarksInAlphabet ==
  /\ Gap \in Alphabet /\ Comma \in Alphabet /\ Opening \in Alphabet
  /\ Closing \in Alphabet /\ Brace \in Alphabet
BY MarksAre DEF Marks

Inked(c) == IF c = Gap THEN <<>> ELSE <<c>>

LEMMA NoBlanksIs ==
  NoBlanks[<<>>] = <<>> /\ \A s \in RawText : s # <<>> => NoBlanks[s] = Inked(Head(s)) \o NoBlanks[Tail(s)]
<1> DEFINE turn(f, s) == IF s = <<>> THEN <<>>
                         ELSE (IF Head(s) = " " THEN <<>> ELSE <<Head(s)>>) \o f[Tail(s)]
           fix(f) == f = [s \in RawText |-> turn(f, s)]
           size == [s \in RawText |-> Len(s)]
           step == [x \in [RawText -> RawText] \X RawText |-> turn(x[1], x[2])]
<1>1. size \in [RawText -> Nat] /\ \A s \in RawText : size[s] = Len(s)
  BY LenProperties DEF RawText
<1>2. ASSUME NEW f \in [RawText -> RawText], NEW s \in RawText
      PROVE  turn(f, s) \in RawText
  <2>1. CASE s = <<>>
    BY <2>1, EmptyText
  <2>2. CASE s # <<>>
    <3>1. Head(s) \in Alphabet /\ f[Tail(s)] \in RawText
      BY <2>2, Uncons
    <3> DEFINE t == f[Tail(s)]
               c == Head(s)
    <3>2. <<c>> \o t \in RawText /\ <<>> \o t \in RawText
      <4> HIDE DEF t, c
      <4>1. c \in Alphabet /\ t \in RawText
        BY <3>1 DEF c, t
      <4>2. QED
        BY <4>1, Prefixed, EmptyText
    <3>3. QED
      BY <2>2, <3>2
  <2>3. QED
    BY <2>1, <2>2
<1>3. step \in [[RawText -> RawText] \X RawText -> RawText]
  <2> HIDE DEF turn
  <2>1. QED
    BY <1>2
<1>4. LooksBelow(RawText, RawText, size, step)
  <2>1. ASSUME NEW s \in RawText, NEW f \in [RawText -> RawText], NEW g \in [RawText -> RawText],
               \A d \in RawText : size[d] < size[s] => f[d] = g[d]
        PROVE  turn(f, s) = turn(g, s)
    <3>1. CASE s = <<>>
      BY <3>1
    <3>2. CASE s # <<>>
      <4> DEFINE u == Tail(s)
      <4>0. u \in RawText /\ Len(u) = Len(s) - 1 /\ Len(s) \in Nat
        BY <3>2, Uncons
      <4>1. u \in RawText /\ size[u] < size[s]
        <5> HIDE DEF u, size
        <5>1. QED
          BY <1>1, <4>0
      <4>2. f[Tail(s)] = g[Tail(s)]
        BY <2>1, <4>1
      <4>3. QED
        BY <4>2
    <3>3. QED
      BY <3>1, <3>2
  <2> HIDE DEF turn
  <2>2. QED
    BY <2>1 DEF LooksBelow
<1> HIDE DEF size, turn
<1>5. \A f \in [RawText -> RawText], s \in RawText : step[<<f, s>>] = turn(f, s)
  OBVIOUS
<1> HIDE DEF step
<1>6. PICK f \in [RawText -> RawText] : Follows(f, RawText, step)
  BY <1>1, <1>3, <1>4, EmptyText, RecursionExists
<1>7. f = [s \in RawText |-> turn(f, s)]
  BY <1>5, <1>6 DEF Follows
<1>8. fix(NoBlanks)
  <2>1. NoBlanks = CHOOSE g : fix(g)
    BY DEF NoBlanks, RawText, turn
  <2>2. \E g : fix(g)
    BY <1>7
  <2> HIDE DEF fix
  <2>3. QED
    BY <2>1, <2>2
<1> DEFINE g == NoBlanks
<1>9. g = [s \in RawText |-> turn(g, s)]
  BY <1>8
<1> HIDE DEF g
<1>10. \A s \in RawText : g[s] = turn(g, s)
  BY <1>9
<1>11. QED
  BY <1>10, EmptyText DEF g, turn, Inked, Gap

LEMMA InkedIs == \A c \in Alphabet : Inked(c) \in RawText
BY Prefixed, EmptyText DEF Inked, RawText

LEMMA NoBlanksIsText == \A s \in RawText : NoBlanks[s] \in RawText
<1> DEFINE T == {s \in RawText : NoBlanks[s] \in RawText}
<1>1. <<>> \in T
  BY NoBlanksIs, EmptyText
<1>2. ASSUME NEW s \in RawText, s # <<>>, Tail(s) \in T PROVE s \in T
  <2>1. NoBlanks[s] = Inked(Head(s)) \o NoBlanks[Tail(s)] /\ Inked(Head(s)) \in RawText
    BY <1>2, NoBlanksIs, Uncons, InkedIs
  <2>2. QED
    BY <1>2, <2>1, Together
<1> HIDE DEF T
<1>3. RawText \subseteq T
  BY <1>1, <1>2, TextInduction
<1>4. QED
  BY <1>3 DEF T

(* Blanks may be taken out of each part by itself.                         *)
LEMMA NoBlanksTogether ==
  ASSUME NEW t \in RawText
  PROVE  \A s \in RawText : NoBlanks[s \o t] = NoBlanks[s] \o NoBlanks[t]
<1> DEFINE T == {s \in RawText : NoBlanks[s \o t] = NoBlanks[s] \o NoBlanks[t]}
<1>1. <<>> \in T
  BY NoBlanksIs, NoBlanksIsText, EmptyText
<1>2. ASSUME NEW s \in RawText, s # <<>>, Tail(s) \in T PROVE s \in T
  <2> DEFINE c == Head(s)
             u == Tail(s)
  <2>1. c \in Alphabet /\ u \in RawText /\ s = <<c>> \o u
    BY <1>2, Uncons
  <2>2. NoBlanks[s] = Inked(c) \o NoBlanks[u] /\ NoBlanks[u \o t] = NoBlanks[u] \o NoBlanks[t]
    BY <1>2, NoBlanksIs
  <2> HIDE DEF c, u
  <2> DEFINE b == <<c>>
  <2>a. b \in RawText
    BY <2>1, Prefixed
  <2>b. u \o t \in RawText /\ s \o t \in RawText
    BY <2>1, Together
  <2>c. (b \o u) \o t = b \o (u \o t)
    <3> HIDE DEF b
    <3>1. QED
      BY <2>1, <2>a, Associates
  <2>3. s \o t = <<c>> \o (u \o t) /\ u \o t \in RawText /\ s \o t \in RawText
    BY <2>1, <2>b, <2>c
  <2>4. s \o t # <<>> /\ Head(s \o t) = c /\ Tail(s \o t) = u \o t
    BY <2>1, <2>3, Prefixed
  <2>5. NoBlanks[s \o t] = Inked(c) \o NoBlanks[u \o t]
    BY <2>3, <2>4, NoBlanksIs
  <2>6. Inked(c) \o (NoBlanks[u] \o NoBlanks[t]) = (Inked(c) \o NoBlanks[u]) \o NoBlanks[t]
    <3> DEFINE i == Inked(c)
               v == NoBlanks[u]
               w == NoBlanks[t]
    <3>1. i \in RawText /\ v \in RawText /\ w \in RawText
      BY <2>1, InkedIs, NoBlanksIsText
    <3> HIDE DEF i, v, w
    <3>2. (i \o v) \o w = i \o (v \o w)
      BY <3>1, Associates
    <3>3. QED
      BY <3>2 DEF i, v, w
  <2>7. QED
    BY <2>2, <2>5, <2>6
<1> HIDE DEF T
<1>3. RawText \subseteq T
  BY <1>1, <1>2, TextInduction
<1>4. QED
  BY <1>3 DEF T

LEMMA NoBlanksOne == \A c \in Alphabet : NoBlanks[<<c>>] = Inked(c)
<1>1. SUFFICES ASSUME NEW c \in Alphabet PROVE NoBlanks[<<c>>] = Inked(c)
  OBVIOUS
<1>2. <<c>> \in RawText /\ <<c>> # <<>> /\ Head(<<c>>) = c /\ Tail(<<c>>) = <<>>
  BY DEF RawText
<1>3. NoBlanks[<<c>>] = Inked(c) \o <<>>
  BY <1>2, NoBlanksIs
<1>4. QED
  BY <1>3, InkedIs, EmptyText

IsBlank(s) == \A i \in 1 .. Len(s) : s[i] = Gap

LEMMA NoBlanksOfBlank == \A text \in RawText : IsBlank(text) <=> NoBlanks[text] = <<>>
<1> DEFINE T == {s \in RawText : IsBlank(s) <=> NoBlanks[s] = <<>>}
<1>1. <<>> \in T
  <2> DEFINE none == <<>>
  <2>1. none \in RawText /\ Len(none) = 0 /\ NoBlanks[none] = none
    BY EmptyText, NoBlanksIs
  <2> HIDE DEF none
  <2>2. IsBlank(none)
    <3>1. 1 .. Len(none) = {}
      BY <2>1
    <3>2. QED
      BY <3>1 DEF IsBlank
  <2>3. QED
    BY <2>1, <2>2 DEF none
<1>2. ASSUME NEW s \in RawText, s # <<>>, Tail(s) \in T PROVE s \in T
  <2> DEFINE c == Head(s)
             u == Tail(s)
  <2>1. /\ c \in Alphabet /\ u \in RawText /\ s = <<c>> \o u /\ s[1] = c
        /\ Len(u) = Len(s) - 1 /\ Len(s) \in Nat
    BY <1>2, Uncons
  <2>2. NoBlanks[s] = Inked(c) \o NoBlanks[u] /\ (IsBlank(u) <=> NoBlanks[u] = <<>>)
    BY <1>2, NoBlanksIs
  <2>3. \A i \in 1 .. Len(u) : u[i] = s[i + 1]
    BY <1>2, HeadTailProperties DEF RawText
  <2> HIDE DEF c, u
  <2>4. IsBlank(s) <=> c = Gap /\ IsBlank(u)
    <3>1. ASSUME IsBlank(s) PROVE c = Gap /\ IsBlank(u)
      <4>0. \A i \in 1 .. Len(s) : s[i] = Gap
        BY <3>1 DEF IsBlank
      <4>1. c = Gap
        <5>1. 1 \in 1 .. Len(s)
          BY <2>1, <1>2, EmptyText
        <5>2. QED
          BY <2>1, <4>0, <5>1
      <4>2. ASSUME NEW i \in 1 .. Len(u) PROVE u[i] = Gap
        <5>1. i + 1 \in 1 .. Len(s)
          BY <2>1
        <5>2. QED
          BY <2>3, <4>0, <5>1
      <4>3. QED
        BY <4>1, <4>2 DEF IsBlank
    <3>2. ASSUME c = Gap, IsBlank(u), NEW i \in 1 .. Len(s) PROVE s[i] = Gap
      <4>1. CASE i = 1
        BY <2>1, <3>2, <4>1
      <4>2. CASE i # 1
        <5>1. i - 1 \in 1 .. Len(u) /\ i - 1 + 1 = i
          BY <2>1, <4>2
        <5>2. QED
          BY <2>3, <3>2, <5>1 DEF IsBlank
      <4>3. QED
        BY <4>1, <4>2
    <3>3. QED
      BY <3>1, <3>2 DEF IsBlank
  <2>5. Inked(c) \o NoBlanks[u] = <<>> <=> Inked(c) = <<>> /\ NoBlanks[u] = <<>>
    BY <2>1, InkedIs, NoBlanksIsText, ConcatEqualIffEmpty DEF RawText
  <2>6. Inked(c) = <<>> <=> c = Gap
    BY <2>1, Prefixed, EmptyText DEF Inked
  <2>7. QED
    BY <2>2, <2>4, <2>5, <2>6
<1> HIDE DEF T
<1>3. RawText \subseteq T
  BY <1>1, <1>2, TextInduction
<1>4. QED
  BY <1>3 DEF T

(* Least and greatest.                                                     *)
LEMMA MinIs ==
  ASSUME NEW S, S \subseteq Nat, S # {}
  PROVE  Min(S) \in S /\ \A y \in S : Min(S) <= y
<1>1. \E x \in S : \A y \in S : x <= y
  BY LeastNatural
<1>2. QED
  BY <1>1 DEF Min

LEMMA MaxIs ==
  ASSUME NEW n \in Nat, NEW S, S \subseteq 1 .. n, S # {}
  PROVE  Max(S) \in S /\ \A y \in S : Max(S) >= y
<1> DEFINE T == {m \in Nat : \A y \in S : y <= m}
<1>1. n \in T
  OBVIOUS
<1>2. T \subseteq Nat /\ T # {}
  BY <1>1
<1>3. PICK m \in T : \A k \in T : m <= k
  BY <1>2, LeastNatural
<1>4. m \in S
  <2>1. SUFFICES ASSUME m \notin S PROVE FALSE
    OBVIOUS
  <2>2. PICK x \in S : TRUE
    OBVIOUS
  <2>3. m - 1 \in Nat
    BY <2>2
  <2>4. \A y \in S : y <= m - 1
    BY <1>3, <2>1
  <2>5. m - 1 \in T
    BY <2>3, <2>4
  <2>6. QED
    BY <1>3, <2>3, <2>5
<1>5. \A y \in S : m >= y
  BY <1>3
<1>6. \E x \in S : \A y \in S : x >= y
  BY <1>4, <1>5
<1>7. QED
  BY <1>6 DEF Max

(* Only blanks are trimmed, and no blank is left at either end.            *)
LEMMA TrimIs ==
  ASSUME NEW s \in RawText
  PROVE  LET t == TrimSpace(s)
         IN  /\ t \in RawText /\ Len(t) <= Len(s) /\ NoBlanks[t] = NoBlanks[s]
             /\ t = <<>> <=> NoBlanks[s] = <<>>
             /\ t # <<>> => t[1] # Gap /\ t[Len(t)] # Gap
<1> DEFINE ink == {i \in DOMAIN s : s[i] # Gap}
           t == TrimSpace(s)
<1>0. DOMAIN s = 1 .. Len(s)
  BY LenProperties DEF RawText
<1>1. Len(s) \in Nat /\ \A i \in 1 .. Len(s) : s[i] \in Alphabet
  BY LenProperties, ElementOfSeq DEF RawText
<1>a. ink = {i \in 1 .. Len(s) : s[i] # Gap}
  BY <1>0
<1>2. CASE ink = {}
  <2>1. IsBlank(s)
    BY <1>a, <1>2 DEF IsBlank
  <2>2. t = <<>>
    BY <1>2 DEF TrimSpace, Gap
  <2>3. QED
    BY <1>1, <2>1, <2>2, EmptyText, NoBlanksIs, NoBlanksOfBlank
<1>3. CASE ink # {}
  <2> DEFINE a == Min(ink)
             b == Max(ink)
             before == SubSeq(s, 1, a - 1)
             after == SubSeq(s, b + 1, Len(s))
  <2>1. a \in ink /\ \A i \in ink : a <= i
    <3>1. ink \subseteq Nat
      BY <1>1, <1>a
    <3> HIDE DEF ink
    <3>2. QED
      BY <1>3, <3>1, MinIs
  <2>2. b \in ink /\ \A i \in ink : b >= i
    <3>1. ink \subseteq 1 .. Len(s)
      BY <1>a
    <3> HIDE DEF ink
    <3>2. QED
      BY <1>1, <1>3, <3>1, MaxIs
  <2>3. t = SubSeq(s, a, b)
    BY <1>3 DEF TrimSpace, Gap
  <2>4. a \in 1 .. Len(s) /\ b \in 1 .. Len(s) /\ a <= b /\ s[a] # Gap /\ s[b] # Gap
    BY <1>1, <1>a, <2>1, <2>2
  <2> HIDE DEF ink, a, b
  <2>5. \A i \in 1 .. Len(s) : (i < a \/ i > b) => s[i] = Gap
    BY <1>1, <1>a, <2>1, <2>2, <2>4
  <2> HIDE DEF t
  <2>6. t \in RawText /\ Len(t) = b - a + 1 /\ \A i \in 1 .. b - a + 1 : t[i] = s[a + i - 1]
    <3>1. \A i \in a .. b : s[i] \in Alphabet
      BY <1>1, <2>4
    <3>2. a \in Int /\ b \in Int /\ a <= b
      BY <2>4
    <3>3. QED
      BY <2>3, <3>1, <3>2, SubSeqProperties DEF RawText
  <2>7. before \in RawText /\ Len(before) = a - 1 /\ \A i \in 1 .. a - 1 : before[i] = s[i]
    BY <2>4, Around
  <2>8. /\ after \in RawText /\ Len(after) = Len(s) - b
        /\ \A i \in 1 .. Len(s) - b : after[i] = s[b + i]
    BY <2>4, Around
  <2>9. s = before \o (t \o after)
    <3>1. /\ a \in 1 .. Len(s) + 1 /\ b \in a - 1 .. Len(s) /\ Len(s) \in b .. Len(s)
          /\ 1 \in 1 .. Len(s) + 1 /\ a - 1 \in 1 - 1 .. Len(s) /\ Len(s) \in a - 1 .. Len(s)
          /\ a - 1 + 1 = a
      BY <1>1, <2>4
    <3>2. t \o after = SubSeq(s, a, Len(s))
      BY <2>3, <3>1, ConcatAdjacentSubSeq DEF RawText
    <3>3. before \o SubSeq(s, a - 1 + 1, Len(s)) = SubSeq(s, 1, Len(s))
      BY <3>1, ConcatAdjacentSubSeq DEF RawText
    <3>4. SubSeq(s, 1, Len(s)) = s
      BY SubSeqFull DEF RawText
    <3>5. QED
      BY <3>1, <3>2, <3>3, <3>4
  <2> HIDE DEF before, after
  <2>10. NoBlanks[before] = <<>>
    <3>1. \A i \in 1 .. Len(before) : before[i] = Gap
      BY <2>4, <2>5, <2>7
    <3>2. QED
      BY <2>7, <3>1, NoBlanksOfBlank DEF IsBlank
  <2>11. NoBlanks[after] = <<>>
    <3>1. \A i \in 1 .. Len(after) : after[i] = Gap
      <4> SUFFICES ASSUME NEW i \in 1 .. Len(after) PROVE after[i] = Gap
        OBVIOUS
      <4>1. i \in 1 .. Len(s) - b /\ b + i \in 1 .. Len(s) /\ b + i > b
        BY <1>1, <2>4, <2>8
      <4>2. QED
        BY <2>5, <2>8, <4>1
    <3>2. QED
      BY <2>8, <3>1, NoBlanksOfBlank DEF IsBlank
  <2>12. NoBlanks[s] = NoBlanks[t]
    <3>1. t \o after \in RawText
      BY <2>6, <2>8, Together
    <3>2. NoBlanks[s] = NoBlanks[before] \o NoBlanks[t \o after]
      BY <2>7, <2>9, <3>1, NoBlanksTogether
    <3>3. NoBlanks[t \o after] = NoBlanks[t] \o NoBlanks[after]
      BY <2>6, <2>8, NoBlanksTogether
    <3>4. NoBlanks[t] \in RawText
      BY <2>6, NoBlanksIsText
    <3>5. QED
      BY <2>10, <2>11, <3>2, <3>3, <3>4, EmptyText
  <2>13. /\ t # <<>> /\ t[1] = s[a] /\ t[Len(t)] = s[b]
    <3>1. /\ Len(t) >= 1 /\ 1 \in 1 .. b - a + 1 /\ Len(t) \in 1 .. b - a + 1
          /\ a + 1 - 1 = a /\ a + Len(t) - 1 = b
      BY <2>4, <2>6
    <3>2. QED
      BY <2>6, <3>1, EmptyText
  <2>14. NoBlanks[t] # <<>>
    <3>1. ~IsBlank(t)
      <4>1. 1 \in 1 .. Len(t)
        BY <2>4, <2>6
      <4>2. QED
        BY <2>4, <2>13, <4>1 DEF IsBlank
    <3>2. QED
      BY <2>6, <3>1, NoBlanksOfBlank
  <2>15. Len(t) <= Len(s)
    BY <1>1, <2>4, <2>6
  <2>16. QED
    BY <2>4, <2>6, <2>12, <2>13, <2>14, <2>15 DEF t
<1>4. QED
  BY <1>2, <1>3

-----------------------------------------------------------------------------
(* What a text may be read as.                                             *)

Level(args) == [name : RawText, call : BOOLEAN, args : args]

LEMMA LevelGrows ==
  ASSUME NEW few, NEW many, few \subseteq many
  PROVE  Level(few) \subseteq Level(many)
<1>1. SUFFICES ASSUME NEW e \in Level(few) PROVE e \in Level(many)
  OBVIOUS
<1>2. e = [name |-> e.name, call |-> e.call, args |-> e.args]
  BY DEF Level
<1>3. e.name \in RawText /\ e.call \in BOOLEAN /\ e.args \in many
  BY DEF Level
<1>4. QED
  BY <1>2, <1>3 DEF Level

LEMMA NestedIs ==
  /\ Nested[0] = Level({<<>>})
  /\ \A n \in 1 .. MaxLength : Nested[n] = Level(Seq(Nested[n - 1]))
<1> DEFINE turn(g, n) == Level(IF n = 0 THEN {<<>>} ELSE Seq(g[n - 1]))
           Turn(g, m) == [n \in 0 .. m |-> turn(g, n)]
           Done == {m \in Nat : \E g : g = Turn(g, m)}
<1>1. 0 \in Done
  <2> DEFINE g == [n \in 0 .. 0 |-> Level({<<>>})]
  <2>1. \A n \in 0 .. 0 : g[n] = turn(g, n)
    OBVIOUS
  <2>2. g = [n \in 0 .. 0 |-> g[n]]
    OBVIOUS
  <2> HIDE DEF g, turn
  <2>3. g = Turn(g, 0)
    BY <2>1, <2>2
  <2>4. QED
    BY <2>3
<1>2. ASSUME NEW m \in Nat, m \in Done PROVE m + 1 \in Done
  <2>1. PICK g : g = Turn(g, m)
    BY <1>2
  <2> DEFINE next == turn(g, m + 1)
             h == [n \in 0 .. m + 1 |-> IF n = m + 1 THEN next ELSE g[n]]
  <2>2. \A n \in 0 .. m : g[n] = turn(g, n)
    <3> HIDE DEF turn
    <3>1. QED
      BY <2>1
  <2>3. ASSUME NEW n \in 0 .. m + 1 PROVE h[n] = turn(h, n)
    <3>1. CASE n = 0
      <4>1. h[n] = g[n] /\ n \in 0 .. m
        BY <3>1
      <4>2. QED
        BY <2>2, <3>1, <4>1
    <3>2. CASE n \in 1 .. m
      <4>1. h[n] = g[n] /\ h[n - 1] = g[n - 1] /\ n # 0 /\ n \in 0 .. m
        BY <3>2
      <4>2. QED
        BY <4>1, <2>2
    <3>3. CASE n = m + 1
      <4>1. h[n] = next /\ h[n - 1] = g[m] /\ n # 0 /\ n - 1 = m
        BY <3>3
      <4>2. QED
        BY <4>1, <3>3
    <3>4. QED
      BY <3>1, <3>2, <3>3
  <2>4. h = Turn(h, m + 1)
    <3>1. h = [n \in 0 .. m + 1 |-> h[n]]
      OBVIOUS
    <3> HIDE DEF h, turn
    <3>2. QED
      BY <3>1, <2>3
  <2> HIDE DEF h, Turn
  <2>5. \E other : other = Turn(other, m + 1)
    BY <2>4
  <2>6. QED
    BY <2>5
<1>3. MaxLength \in Done
  <2> HIDE DEF Done
  <2>1. Nat \subseteq Done
    BY <1>1, <1>2, NaturalInduction
  <2>2. QED
    BY <2>1, LengthsAssumption
<1>4. Nested = CHOOSE g : g = Turn(g, MaxLength)
  BY DEF Nested, Level, RawText
<1>5. Nested = Turn(Nested, MaxLength)
  <2>1. \E g : g = Turn(g, MaxLength)
    BY <1>3
  <2> HIDE DEF Turn
  <2>2. QED
    BY <1>4, <2>1
<1> DEFINE f == Nested
<1>6. f = Turn(f, MaxLength)
  BY <1>5
<1> HIDE DEF f
<1>7. \A n \in 0 .. MaxLength : f[n] = turn(f, n)
  <2> HIDE DEF turn
  <2>1. QED
    BY <1>6
<1>8. f[0] = turn(f, 0) /\ \A n \in 1 .. MaxLength : f[n] = turn(f, n)
  BY <1>7, LengthsAssumption
<1>9. QED
  BY <1>8 DEF f

(* Nested in more calls are also those that are nested in fewer.           *)
LEMMA NestedGrows ==
  ASSUME NEW m \in 0 .. MaxLength, NEW n \in 0 .. m
  PROVE  Nested[n] \subseteq Nested[m]
<1> DEFINE S == {i \in Nat : i < MaxLength => Nested[i] \subseteq Nested[i + 1]}
<1>1. 0 \in S
  <2>1. SUFFICES ASSUME 0 < MaxLength PROVE Nested[0] \subseteq Nested[1]
    OBVIOUS
  <2>2. Nested[1] = Level(Seq(Nested[0])) /\ Nested[0] = Level({<<>>})
    <3>1. 1 \in 1 .. MaxLength /\ 1 - 1 = 0
      BY <2>1, LengthsAssumption
    <3>2. QED
      BY <3>1, NestedIs
  <2>3. {<<>>} \subseteq Seq(Nested[0])
    BY EmptySeq
  <2>4. Level({<<>>}) \subseteq Level(Seq(Nested[0]))
    BY <2>3, LevelGrows
  <2>5. QED
    BY <2>2, <2>4
<1>2. ASSUME NEW i \in Nat, i \in S PROVE i + 1 \in S
  <2>1. SUFFICES ASSUME i + 1 < MaxLength PROVE Nested[i + 1] \subseteq Nested[i + 1 + 1]
    OBVIOUS
  <2>2. /\ Nested[i + 1] = Level(Seq(Nested[i]))
        /\ Nested[i + 1 + 1] = Level(Seq(Nested[i + 1]))
    <3>1. /\ i + 1 \in 1 .. MaxLength /\ i + 1 - 1 = i
          /\ i + 1 + 1 \in 1 .. MaxLength /\ i + 1 + 1 - 1 = i + 1
      BY <2>1, LengthsAssumption
    <3>2. QED
      BY <3>1, NestedIs
  <2>3. Nested[i] \subseteq Nested[i + 1]
    BY <1>2, <2>1, LengthsAssumption
  <2>4. Seq(Nested[i]) \subseteq Seq(Nested[i + 1])
    BY <2>3, SeqMonotonic
  <2>5. QED
    BY <2>2, <2>4, LevelGrows
<1> HIDE DEF S
<1>3. Nat \subseteq S
  BY <1>1, <1>2, NaturalInduction
<1>4. \A i \in 0 .. MaxLength : i < MaxLength => Nested[i] \subseteq Nested[i + 1]
  BY <1>3, LengthsAssumption DEF S
<1> DEFINE T == {j \in Nat : n + j <= MaxLength => Nested[n] \subseteq Nested[n + j]}
<1>5. 0 \in T
  OBVIOUS
<1>6. ASSUME NEW j \in Nat, j \in T PROVE j + 1 \in T
  <2>1. SUFFICES ASSUME n + (j + 1) <= MaxLength PROVE Nested[n] \subseteq Nested[n + (j + 1)]
    OBVIOUS
  <2>2. n + j \in 0 .. MaxLength /\ n + j < MaxLength /\ n + (j + 1) = n + j + 1
    BY <2>1, LengthsAssumption
  <2>3. Nested[n] \subseteq Nested[n + j]
    BY <1>6, <2>2
  <2>4. Nested[n + j] \subseteq Nested[n + j + 1]
    BY <1>4, <2>2
  <2>5. QED
    BY <2>2, <2>3, <2>4
<1> HIDE DEF T
<1>7. Nat \subseteq T
  BY <1>5, <1>6, NaturalInduction
<1>8. m - n \in Nat /\ n + (m - n) = m /\ m <= MaxLength
  OBVIOUS
<1>9. m - n \in T
  BY <1>7, <1>8
<1>10. QED
  BY <1>8, <1>9 DEF T

(* The arguments are nested one level less.                                *)
LEMMA NestedArgs ==
  ASSUME NEW n \in 0 .. MaxLength, NEW e \in Nested[n]
  PROVE  /\ e \in Exprs /\ e.name \in RawText /\ e.call \in BOOLEAN
         /\ e = [name |-> e.name, call |-> e.call, args |-> e.args]
         /\ e.args # <<>> => n >= 1 /\ e.args \in Seq(Nested[n - 1])
         /\ e.args \in Seq(Exprs)
         /\ \A k \in DOMAIN e.args : n >= 1 /\ e.args[k] \in Nested[n - 1]
<1>0. e \in Exprs
  <2>1. MaxLength \in 0 .. MaxLength /\ n \in 0 .. MaxLength
    BY LengthsAssumption
  <2>2. QED
    BY <2>1, NestedGrows DEF Exprs
<1>1. CASE n = 0
  <2>1. e \in Level({<<>>})
    BY <1>1, NestedIs
  <2>2. e.args = <<>> /\ DOMAIN e.args = {}
    BY <2>1 DEF Level
  <2>3. <<>> \in Seq(Exprs)
    BY EmptySeq
  <2>4. QED
    BY <1>0, <2>1, <2>2, <2>3 DEF Level
<1>2. CASE n # 0
  <2>1. n \in 1 .. MaxLength /\ n - 1 \in 0 .. MaxLength /\ MaxLength \in 0 .. MaxLength
    BY <1>2, LengthsAssumption
  <2>2. e \in Level(Seq(Nested[n - 1]))
    BY <2>1, NestedIs
  <2> DEFINE args == e.args
             below == Nested[n - 1]
  <2>3. /\ args \in Seq(below)
        /\ e.name \in RawText /\ e.call \in BOOLEAN
        /\ e = [name |-> e.name, call |-> e.call, args |-> e.args]
    BY <2>2 DEF Level
  <2>4. below \subseteq Exprs
    BY <2>1, NestedGrows DEF Exprs
  <2> HIDE DEF args, below
  <2>5. \A k \in DOMAIN args : args[k] \in below
    BY <2>3, LenProperties, ElementOfSeq
  <2>6. args \in Seq(Exprs)
    BY <2>3, <2>4, SeqMonotonic
  <2>7. QED
    BY <1>0, <2>1, <2>3, <2>5, <2>6 DEF args, below
<1>3. QED
  BY <1>1, <1>2

LEMMA ExprArgs ==
  ASSUME NEW e \in Exprs
  PROVE  /\ e.name \in RawText /\ e.call \in BOOLEAN /\ e.args \in Seq(Exprs)
         /\ e = [name |-> e.name, call |-> e.call, args |-> e.args]
         /\ \A k \in DOMAIN e.args : e.args[k] \in Exprs
<1>1. MaxLength \in 0 .. MaxLength /\ e \in Nested[MaxLength]
  BY LengthsAssumption DEF Exprs
<1>2. /\ e.name \in RawText /\ e.call \in BOOLEAN /\ e.args \in Seq(Exprs)
      /\ e = [name |-> e.name, call |-> e.call, args |-> e.args]
  BY <1>1, NestedArgs
<1>3. \A k \in DOMAIN e.args : e.args[k] \in Exprs
  BY <1>2, LenProperties, ElementOfSeq
<1>4. QED
  BY <1>2, <1>3

(* Show can be computed from the arguments up,                             *)
LEMMA ShowIs ==
  \A e \in Exprs : Show[e] =
    IF ~e.call THEN e.name
    ELSE e.name \o <<"(">> \o Joined[[k \in DOMAIN e.args |-> Show[e.args[k]]]] \o <<")">>
<1> DEFINE turn(g, e) ==
    IF ~e.call THEN e.name
    ELSE e.name \o <<"(">> \o Joined[[k \in DOMAIN e.args |-> g[e.args[k]]]] \o <<")">>
           fix(f) == f = [e \in Exprs |-> turn(f, e)]
           Good(g, n) == \A e \in Nested[n] : g[e] = turn(g, e)
           S == {n \in Nat : n <= MaxLength => \E g : Good(g, n)}
<1>1. ASSUME NEW f, NEW g, NEW e \in Exprs, \A k \in DOMAIN e.args : f[e.args[k]] = g[e.args[k]]
      PROVE  turn(f, e) = turn(g, e)
  <2>1. [k \in DOMAIN e.args |-> f[e.args[k]]] = [k \in DOMAIN e.args |-> g[e.args[k]]]
    BY <1>1
  <2>2. QED
    BY <2>1
<1> HIDE DEF turn
<1>2. 0 \in S
  <2> DEFINE g == [e \in Exprs |-> turn(<<>>, e)]
  <2>1. 0 \in 0 .. MaxLength
    BY LengthsAssumption
  <2>2. ASSUME NEW e \in Nested[0] PROVE g[e] = turn(g, e)
    <3>1. e \in Exprs /\ DOMAIN e.args = {}
      BY <2>1, NestedArgs
    <3> HIDE DEF g
    <3>2. turn(g, e) = turn(<<>>, e)
      BY <3>1, <1>1
    <3>3. QED
      BY <3>1, <3>2 DEF g
  <2> HIDE DEF g
  <2>3. QED
    BY <2>2
<1>3. ASSUME NEW n \in Nat, n \in S PROVE n + 1 \in S
  <2>1. SUFFICES ASSUME n + 1 <= MaxLength PROVE \E g : Good(g, n + 1)
    OBVIOUS
  <2>2. n + 1 \in 0 .. MaxLength /\ n + 1 - 1 = n /\ n <= MaxLength
    BY <2>1, LengthsAssumption
  <2>3. PICK f : Good(f, n)
    BY <1>3, <2>2
  <2> DEFINE g == [e \in Exprs |-> turn(f, e)]
  <2>4. \A e \in Exprs : g[e] = turn(f, e)
    OBVIOUS
  <2> HIDE DEF g
  <2>5. ASSUME NEW e \in Nested[n + 1] PROVE g[e] = turn(g, e)
    <3>1. e \in Exprs /\ \A k \in DOMAIN e.args : e.args[k] \in Nested[n] /\ e.args[k] \in Exprs
      BY <2>2, NestedArgs, ExprArgs
    <3>2. \A k \in DOMAIN e.args : f[e.args[k]] = g[e.args[k]]
      BY <2>3, <2>4, <3>1
    <3>3. turn(f, e) = turn(g, e)
      BY <1>1, <3>1, <3>2
    <3>4. QED
      BY <2>4, <3>1, <3>3
  <2>6. Good(g, n + 1)
    BY <2>5
  <2> HIDE DEF Good
  <2>7. QED
    BY <2>6
<1> HIDE DEF S
<1>4. Nat \subseteq S
  BY <1>2, <1>3, NaturalInduction
<1>5. \E g : Good(g, MaxLength)
  BY <1>4, LengthsAssumption DEF S
<1>6. PICK g : \A e \in Exprs : g[e] = turn(g, e)
  BY <1>5 DEF Exprs
<1> DEFINE f == [e \in Exprs |-> g[e]]
<1>7. \A e \in Exprs : f[e] = g[e]
  OBVIOUS
<1> HIDE DEF f
<1>8. ASSUME NEW e \in Exprs PROVE f[e] = turn(f, e)
  <2>1. \A k \in DOMAIN e.args : f[e.args[k]] = g[e.args[k]]
    BY <1>7, ExprArgs
  <2>2. turn(f, e) = turn(g, e)
    BY <1>1, <2>1
  <2>3. QED
    BY <1>6, <1>7, <2>2
<1>9. f = [e \in Exprs |-> f[e]]
  BY DEF f
<1>10. f = [e \in Exprs |-> turn(f, e)]
  BY <1>8, <1>9
<1>11. fix(Show)
  <2>1. Show = CHOOSE h : fix(h)
    BY DEF Show, turn
  <2>2. \E h : fix(h)
    BY <1>10
  <2> HIDE DEF fix
  <2>3. QED
    BY <2>1, <2>2
<1> DEFINE h == Show
<1>12. h = [e \in Exprs |-> turn(h, e)]
  BY <1>11
<1> HIDE DEF h
<1>13. \A e \in Exprs : h[e] = turn(h, e)
  BY <1>12
<1>14. QED
  BY <1>13 DEF h, turn

(* and so can what comes back from a file.                                 *)
LEMMA LoadedIs ==
  \A e \in Exprs : Loaded[e] =
    IF e.call THEN FromFile(e.name, [k \in DOMAIN e.args |-> Loaded[e.args[k]]]) ELSE e
<1> DEFINE turn(g, e) ==
    IF e.call THEN FromFile(e.name, [k \in DOMAIN e.args |-> g[e.args[k]]]) ELSE e
           fix(f) == f = [e \in Exprs |-> turn(f, e)]
           Good(g, n) == \A e \in Nested[n] : g[e] = turn(g, e)
           S == {n \in Nat : n <= MaxLength => \E g : Good(g, n)}
<1>1. ASSUME NEW f, NEW g, NEW e \in Exprs, \A k \in DOMAIN e.args : f[e.args[k]] = g[e.args[k]]
      PROVE  turn(f, e) = turn(g, e)
  <2>1. [k \in DOMAIN e.args |-> f[e.args[k]]] = [k \in DOMAIN e.args |-> g[e.args[k]]]
    BY <1>1
  <2>2. QED
    BY <2>1
<1> HIDE DEF turn
<1>2. 0 \in S
  <2> DEFINE g == [e \in Exprs |-> turn(<<>>, e)]
  <2>1. 0 \in 0 .. MaxLength
    BY LengthsAssumption
  <2>2. ASSUME NEW e \in Nested[0] PROVE g[e] = turn(g, e)
    <3>1. e \in Exprs /\ DOMAIN e.args = {}
      BY <2>1, NestedArgs
    <3> HIDE DEF g
    <3>2. turn(g, e) = turn(<<>>, e)
      BY <3>1, <1>1
    <3>3. QED
      BY <3>1, <3>2 DEF g
  <2> HIDE DEF g
  <2>3. QED
    BY <2>2
<1>3. ASSUME NEW n \in Nat, n \in S PROVE n + 1 \in S
  <2>1. SUFFICES ASSUME n + 1 <= MaxLength PROVE \E g : Good(g, n + 1)
    OBVIOUS
  <2>2. n + 1 \in 0 .. MaxLength /\ n + 1 - 1 = n /\ n <= MaxLength
    BY <2>1, LengthsAssumption
  <2>3. PICK f : Good(f, n)
    BY <1>3, <2>2
  <2> DEFINE g == [e \in Exprs |-> turn(f, e)]
  <2>4. \A e \in Exprs : g[e] = turn(f, e)
    OBVIOUS
  <2> HIDE DEF g
  <2>5. ASSUME NEW e \in Nested[n + 1] PROVE g[e] = turn(g, e)
    <3>1. e \in Exprs /\ \A k \in DOMAIN e.args : e.args[k] \in Nested[n] /\ e.args[k] \in Exprs
      BY <2>2, NestedArgs, ExprArgs
    <3>2. \A k \in DOMAIN e.args : f[e.args[k]] = g[e.args[k]]
      BY <2>3, <2>4, <3>1
    <3>3. turn(f, e) = turn(g, e)
      BY <1>1, <3>1, <3>2
    <3>4. QED
      BY <2>4, <3>1, <3>3
  <2>6. Good(g, n + 1)
    BY <2>5
  <2> HIDE DEF Good
  <2>7. QED
    BY <2>6
<1> HIDE DEF S
<1>4. Nat \subseteq S
  BY <1>2, <1>3, NaturalInduction
<1>5. \E g : Good(g, MaxLength)
  BY <1>4, LengthsAssumption DEF S
<1>6. PICK g : \A e \in Exprs : g[e] = turn(g, e)
  BY <1>5 DEF Exprs
<1> DEFINE f == [e \in Exprs |-> g[e]]
<1>7. \A e \in Exprs : f[e] = g[e]
  OBVIOUS
<1> HIDE DEF f
<1>8. ASSUME NEW e \in Exprs PROVE f[e] = turn(f, e)
  <2>1. \A k \in DOMAIN e.args : f[e.args[k]] = g[e.args[k]]
    BY <1>7, ExprArgs
  <2>2. turn(f, e) = turn(g, e)
    BY <1>1, <2>1
  <2>3. QED
    BY <1>6, <1>7, <2>2
<1>9. f = [e \in Exprs |-> f[e]]
  BY DEF f
<1>10. f = [e \in Exprs |-> turn(f, e)]
  BY <1>8, <1>9
<1>11. fix(Loaded)
  <2>1. Loaded = CHOOSE h : fix(h)
    BY DEF Loaded, turn
  <2>2. \E h : fix(h)
    BY <1>10
  <2> HIDE DEF fix
  <2>3. QED
    BY <2>1, <2>2
<1> DEFINE h == Loaded
<1>12. h = [e \in Exprs |-> turn(h, e)]
  BY <1>11
<1> HIDE DEF h
<1>13. \A e \in Exprs : h[e] = turn(h, e)
  BY <1>12
<1>14. QED
  BY <1>13 DEF h, turn

(* Texts joined by commas.                                                 *)
LEMMA JoinedIs ==
  /\ Joined[<<>>] = <<>>
  /\ \A t \in RawText : Joined[<<t>>] = t
  /\ \A t \in RawText, texts \in Seq(RawText) :
       texts # <<>> => Joined[<<t>> \o texts] = t \o <<",">> \o Joined[texts]
<1> DEFINE Lists == Seq(RawText)
           comma == <<Comma>>
           turn(f, s) == IF s = <<>> THEN <<>>
                         ELSE IF Len(s) = 1 THEN s[1]
                         ELSE s[1] \o comma \o f[Tail(s)]
           fix(f) == f = [s \in Lists |-> turn(f, s)]
           size == [s \in Lists |-> Len(s)]
           step == [x \in [Lists -> RawText] \X Lists |-> turn(x[1], x[2])]
<1>0. comma \in RawText
  <2>1. Comma \in Alphabet
    BY MarksInAlphabet
  <2>2. QED
    BY <2>1, Prefixed, EmptyText
<1>1. size \in [Lists -> Nat] /\ \A s \in Lists : size[s] = Len(s)
  BY LenProperties
<1> HIDE DEF comma
<1>a. ASSUME NEW s \in Lists, s # <<>>
      PROVE  /\ s[1] \in RawText /\ Tail(s) \in Lists /\ Len(s) \in Nat
             /\ Len(Tail(s)) = Len(s) - 1
  <2>1. Len(s) \in Nat /\ 1 \in 1 .. Len(s)
    BY <1>a, EmptySeq, LenProperties
  <2>2. QED
    BY <1>a, <2>1, HeadTailProperties, ElementOfSeq
<1>2. ASSUME NEW f \in [Lists -> RawText], NEW s \in Lists
      PROVE  turn(f, s) \in RawText
  <2>1. CASE s = <<>>
    BY <2>1, EmptyText
  <2>2. CASE s # <<>>
    <3> DEFINE t == s[1]
               u == f[Tail(s)]
    <3>1. t \in RawText /\ u \in RawText
      BY <1>a, <2>2
    <3>2. t \o comma \o u \in RawText
      <4> HIDE DEF t, u
      <4>1. t \o comma \in RawText
        BY <1>0, <3>1, Together
      <4>2. QED
        BY <3>1, <4>1, Together
    <3>3. QED
      BY <2>2, <3>1, <3>2
  <2>3. QED
    BY <2>1, <2>2
<1>3. step \in [[Lists -> RawText] \X Lists -> RawText]
  <2> HIDE DEF turn, Lists
  <2>1. QED
    BY <1>2
<1>4. LooksBelow(Lists, RawText, size, step)
  <2>1. ASSUME NEW s \in Lists, NEW f \in [Lists -> RawText], NEW g \in [Lists -> RawText],
               \A d \in Lists : size[d] < size[s] => f[d] = g[d]
        PROVE  turn(f, s) = turn(g, s)
    <3>1. CASE s = <<>>
      BY <3>1
    <3>2. CASE s # <<>>
      <4> DEFINE u == Tail(s)
      <4>1. u \in Lists /\ Len(u) = Len(s) - 1 /\ Len(s) \in Nat
        BY <1>a, <3>2
      <4>2. size[u] < size[s]
        <5> HIDE DEF u, size, Lists
        <5>1. QED
          BY <1>1, <4>1
      <4>3. f[u] = g[u]
        BY <2>1, <4>1, <4>2
      <4>4. QED
        BY <4>3
    <3>3. QED
      BY <3>1, <3>2
  <2> HIDE DEF turn, Lists, size
  <2>2. \A x \in [Lists -> RawText] \X Lists : step[x] = turn(x[1], x[2])
    OBVIOUS
  <2>3. \A f \in [Lists -> RawText], s \in Lists : step[<<f, s>>] = turn(f, s)
    BY <2>2
  <2> HIDE DEF step
  <2>4. QED
    BY <2>1, <2>3 DEF LooksBelow
<1> HIDE DEF size, turn, Lists
<1>5. \A f \in [Lists -> RawText], s \in Lists : step[<<f, s>>] = turn(f, s)
  OBVIOUS
<1> HIDE DEF step
<1>6. PICK f \in [Lists -> RawText] : Follows(f, Lists, step)
  BY <1>1, <1>3, <1>4, EmptyText, RecursionExists
<1>7. f = [s \in Lists |-> turn(f, s)]
  BY <1>5, <1>6 DEF Follows
<1>8. fix(Joined)
  <2>1. Joined = CHOOSE g : fix(g)
    BY DEF Joined, RawText, turn, Lists, comma, Comma
  <2>2. \E g : fix(g)
    BY <1>7
  <2> HIDE DEF fix
  <2>3. QED
    BY <2>1, <2>2
<1> DEFINE g == Joined
<1>9. g = [s \in Lists |-> turn(g, s)]
  BY <1>8
<1> HIDE DEF g
<1>10. \A s \in Lists : g[s] = turn(g, s)
  BY <1>9
<1>11. g[<<>>] = <<>>
  <2>1. <<>> \in Lists
    BY EmptySeq DEF Lists
  <2>2. QED
    BY <1>10, <2>1 DEF turn
<1>12. ASSUME NEW t \in RawText PROVE g[<<t>>] = t
  <2>1. <<t>> \in Lists /\ <<t>> # <<>> /\ Len(<<t>>) = 1 /\ <<t>>[1] = t
    BY DEF Lists
  <2>2. QED
    BY <1>10, <2>1 DEF turn
<1>13. ASSUME NEW t \in RawText, NEW texts \in Lists, texts # <<>>
       PROVE  g[<<t>> \o texts] = t \o comma \o g[texts]
  <2> DEFINE u == <<t>> \o texts
  <2>1. <<t>> \in Seq(RawText) /\ Len(<<t>>) = 1 /\ <<t>>[1] = t
    OBVIOUS
  <2>2. /\ u \in Seq(RawText) /\ Len(u) = 1 + Len(texts) /\ Len(texts) \in Nat \ {0}
        /\ \A i \in 1 .. 1 + Len(texts) : u[i] = IF i <= 1 THEN <<t>>[i] ELSE texts[i - 1]
    BY <1>13, <2>1, ConcatProperties, EmptySeq DEF Lists
  <2> HIDE DEF u
  <2>3. u[1] = t /\ u # <<>> /\ Len(u) # 1
    BY <2>1, <2>2, EmptySeq
  <2>4. /\ Tail(u) \in Seq(RawText) /\ Len(Tail(u)) = Len(texts)
        /\ \A i \in 1 .. Len(texts) : Tail(u)[i] = texts[i]
    <3>1. /\ Tail(u) \in Seq(RawText) /\ Len(Tail(u)) = Len(u) - 1
          /\ \A i \in 1 .. Len(Tail(u)) : Tail(u)[i] = u[i + 1]
      BY <2>2, <2>3, HeadTailProperties
    <3>2. Len(Tail(u)) = Len(texts)
      BY <2>2, <3>1
    <3>3. \A i \in 1 .. Len(texts) : u[i + 1] = texts[i]
      BY <2>2
    <3>4. QED
      BY <3>1, <3>2, <3>3
  <2>5. Tail(u) = texts
    BY <2>4, SeqEqual DEF Lists
  <2>6. g[u] = turn(g, u)
    BY <1>10, <2>2 DEF Lists
  <2>7. QED
    BY <2>3, <2>5, <2>6 DEF turn, u
<1>14. QED
  BY <1>11, <1>12, <1>13 DEF g, Lists, comma, Comma

-----------------------------------------------------------------------------
(* Arguments are cut off one after the other.                              *)

LEMMA TypableIs ==
  /\ Typable \subseteq RawText
  /\ \A s \in RawText : s \in Typable <=> Len(s) <= MaxLength
  /\ \A s \in Typable, t \in RawText : Len(t) <= Len(s) => t \in Typable
  /\ <<>> \in Typable
<1>1. \A s \in RawText : Len(s) \in Nat
  BY LenProperties DEF RawText
<1>2. \A s : s \in Typable <=> s \in RawText /\ Len(s) <= MaxLength
  BY DEF Typable, RawText
<1>3. MaxLength \in Nat
  BY LengthsAssumption
<1>4. QED
  BY <1>1, <1>2, <1>3, EmptyText

Before(s) == SubSeq(s, 1, Min(separators(s)) - 1)
Behind(s) == SubSeq(s, Min(separators(s)) + 1, Len(s))

LEMMA CutIs ==
  ASSUME NEW s \in RawText, separators(s) # {}
  PROVE  LET cut == Min(separators(s))
         IN  /\ cut \in 1 .. Len(s) /\ Len(s) \in Nat /\ s[cut] = Comma /\ depth(s, cut) = 0
             /\ \A i \in 1 .. cut - 1 : i \notin separators(s)
             /\ Before(s) \in RawText /\ Len(Before(s)) = cut - 1
             /\ Behind(s) \in RawText /\ Len(Behind(s)) = Len(s) - cut
             /\ Len(Before(s)) < Len(s) /\ Len(Behind(s)) < Len(s)
             /\ s = Before(s) \o (<<Comma>> \o Behind(s))
<1> DEFINE cut == Min(separators(s))
<1>1. DOMAIN s = 1 .. Len(s)
  BY LenProperties DEF RawText
<1>2. Len(s) \in Nat
  BY LenProperties DEF RawText
<1>3. separators(s) = {i \in 1 .. Len(s) : s[i] = Comma /\ depth(s, i) = 0}
  BY <1>1 DEF separators, Comma
<1>4. separators(s) \subseteq Nat
  BY <1>2, <1>3
<1>5. cut \in separators(s) /\ \A i \in separators(s) : cut <= i
  BY <1>4, MinIs
<1> HIDE DEF cut
<1>6. cut \in 1 .. Len(s) /\ s[cut] = Comma /\ depth(s, cut) = 0
  BY <1>3, <1>5
<1>7. \A i \in 1 .. cut - 1 : i \notin separators(s)
  BY <1>2, <1>5, <1>6
<1>8. /\ Before(s) = SubSeq(s, 1, cut - 1) /\ Behind(s) = SubSeq(s, cut + 1, Len(s))
  BY DEF Before, Behind, cut
<1>9. /\ Before(s) \in RawText /\ Len(Before(s)) = cut - 1
      /\ Behind(s) \in RawText /\ Len(Behind(s)) = Len(s) - cut
      /\ s = Before(s) \o (<<s[cut]>> \o Behind(s))
  <2> DEFINE b == SubSeq(s, 1, cut - 1)
             a == SubSeq(s, cut + 1, Len(s))
  <2>1. /\ b \in RawText /\ Len(b) = cut - 1
        /\ a \in RawText /\ Len(a) = Len(s) - cut
        /\ s = b \o (<<s[cut]>> \o a)
    BY <1>6, Around
  <2> HIDE DEF a, b
  <2>2. Before(s) = b /\ Behind(s) = a
    BY <1>8 DEF a, b
  <2>3. QED
    BY <2>1, <2>2
<1>10. Len(Before(s)) < Len(s) /\ Len(Behind(s)) < Len(s)
  BY <1>2, <1>6, <1>9
<1>11. QED
  BY <1>2, <1>6, <1>7, <1>9, <1>10 DEF cut

LEMMA PartsIs ==
  \A s \in Typable :
    parts[s] = IF separators(s) = {} THEN <<TrimSpace(s)>>
               ELSE <<TrimSpace(Before(s))>> \o parts[Behind(s)]
<1> DEFINE turn(g, s) == IF separators(s) = {} THEN <<TrimSpace(s)>>
                         ELSE <<TrimSpace(Before(s))>> \o g[Behind(s)]
           fix(f) == f = [s \in Typable |-> turn(f, s)]
           Good(g, n) == \A s \in Typable : Len(s) < n => g[s] = turn(g, s)
           S == {n \in Nat : \E g : Good(g, n)}
<1>0. \A s \in Typable : s \in RawText /\ Len(s) \in Nat
  BY TypableIs, LenProperties DEF RawText
<1>1. ASSUME NEW f, NEW g, NEW s \in Typable,
             \A t \in Typable : Len(t) < Len(s) => f[t] = g[t]
      PROVE  turn(f, s) = turn(g, s)
  <2>1. CASE separators(s) = {}
    BY <2>1
  <2>2. CASE separators(s) # {}
    <3>1. Behind(s) \in RawText /\ Len(Behind(s)) < Len(s) /\ Len(Behind(s)) \in Nat
      BY <1>0, <2>2, CutIs, LenProperties DEF RawText
    <3>2. Behind(s) \in Typable
      BY <1>0, <3>1, TypableIs
    <3>3. f[Behind(s)] = g[Behind(s)]
      BY <1>1, <3>1, <3>2
    <3>4. QED
      BY <3>3
  <2>3. QED
    BY <2>1, <2>2
<1> HIDE DEF turn
<1>2. 0 \in S
  <2>1. Good(<<>>, 0)
    BY <1>0
  <2>2. QED
    BY <2>1
<1>3. ASSUME NEW n \in Nat, n \in S PROVE n + 1 \in S
  <2>1. PICK f : Good(f, n)
    BY <1>3
  <2> DEFINE g == [s \in Typable |-> turn(f, s)]
  <2>2. \A s \in Typable : g[s] = turn(f, s)
    OBVIOUS
  <2> HIDE DEF g
  <2>3. ASSUME NEW s \in Typable, Len(s) < n + 1 PROVE g[s] = turn(g, s)
    <3>1. ASSUME NEW t \in Typable, Len(t) < Len(s) PROVE f[t] = g[t]
      <4>1. Len(t) < n
        BY <1>0, <2>3, <3>1
      <4>2. QED
        BY <2>1, <2>2, <4>1
    <3>2. turn(f, s) = turn(g, s)
      BY <1>1, <3>1
    <3>3. QED
      BY <2>2, <3>2
  <2>4. Good(g, n + 1)
    BY <2>3
  <2> HIDE DEF Good
  <2>5. QED
    BY <2>4
<1> HIDE DEF S
<1>4. Nat \subseteq S
  BY <1>2, <1>3, NaturalInduction
<1>5. \E g : Good(g, MaxLength + 1)
  <2>1. MaxLength + 1 \in Nat
    BY LengthsAssumption
  <2>2. QED
    BY <1>4, <2>1 DEF S
<1>6. PICK g : \A s \in Typable : g[s] = turn(g, s)
  <2>1. PICK h : Good(h, MaxLength + 1)
    BY <1>5
  <2>2. \A s \in Typable : Len(s) < MaxLength + 1
    BY <1>0, TypableIs, LengthsAssumption
  <2>3. \A s \in Typable : h[s] = turn(h, s)
    BY <2>1, <2>2
  <2>4. QED
    BY <2>3
<1> DEFINE f == [s \in Typable |-> g[s]]
<1>7. \A s \in Typable : f[s] = g[s]
  OBVIOUS
<1> HIDE DEF f
<1>8. ASSUME NEW s \in Typable PROVE f[s] = turn(f, s)
  <2>1. turn(f, s) = turn(g, s)
    BY <1>1, <1>7
  <2>2. QED
    BY <1>6, <1>7, <2>1
<1>9. f = [s \in Typable |-> f[s]]
  BY DEF f
<1>10. f = [s \in Typable |-> turn(f, s)]
  BY <1>8, <1>9
<1>11. fix(parts)
  <2>1. parts = CHOOSE h : fix(h)
    BY DEF parts, turn, lastPart, Before, Behind
  <2>2. \E h : fix(h)
    BY <1>10
  <2> HIDE DEF fix
  <2>3. QED
    BY <2>1, <2>2
<1> DEFINE h == parts
<1>12. h = [s \in Typable |-> turn(h, s)]
  BY <1>11
<1> HIDE DEF h
<1>13. \A s \in Typable : h[s] = turn(h, s)
  BY <1>12
<1>14. QED
  BY <1>13 DEF h, turn

(* No argument is longer than the text it is cut from.                     *)
Shorter(texts, n) == \A k \in DOMAIN texts : texts[k] \in Typable /\ Len(texts[k]) <= n

LEMMA PartsAre ==
  \A s \in Typable :
    parts[s] \in Seq(RawText) /\ parts[s] # <<>> /\ Shorter(parts[s], Len(s))
<1> DEFINE Good(s) == /\ parts[s] \in Seq(RawText) /\ parts[s] # <<>>
                      /\ Shorter(parts[s], Len(s))
           T == {s \in RawText : s \in Typable => Good(s)}
<1>0. \A s \in RawText : Len(s) \in Nat
  BY LenProperties DEF RawText
<1>1. ASSUME NEW s \in RawText, \A t \in RawText : Len(t) < Len(s) => t \in T PROVE s \in T
  <2>1. SUFFICES ASSUME s \in Typable PROVE Good(s)
    OBVIOUS
  <2>2. CASE separators(s) = {}
    <3> DEFINE t == TrimSpace(s)
    <3>1. t \in RawText /\ Len(t) <= Len(s)
      BY TrimIs
    <3>2. t \in Typable
      BY <2>1, <3>1, TypableIs
    <3>3. parts[s] = <<t>>
      BY <2>1, <2>2, PartsIs
    <3> HIDE DEF t
    <3>4. <<t>> \in Seq(RawText) /\ <<t>> # <<>> /\ DOMAIN <<t>> = {1} /\ <<t>>[1] = t
      BY <3>1
    <3>5. QED
      BY <3>1, <3>2, <3>3, <3>4 DEF Shorter
  <2>3. CASE separators(s) # {}
    <3> DEFINE t == TrimSpace(Before(s))
               rest == parts[Behind(s)]
               u == <<t>> \o rest
    <3>1. /\ Before(s) \in RawText /\ Len(Before(s)) < Len(s)
          /\ Behind(s) \in RawText /\ Len(Behind(s)) < Len(s)
      BY <2>3, CutIs
    <3>2. t \in RawText /\ Len(t) <= Len(s) /\ t \in Typable
      <4>1. t \in RawText /\ Len(t) <= Len(Before(s))
        BY <3>1, TrimIs
      <4>2. Len(t) <= Len(s)
        BY <1>0, <3>1, <4>1
      <4>3. QED
        BY <2>1, <4>1, <4>2, TypableIs
    <3>3. Behind(s) \in T /\ Behind(s) \in Typable
      BY <1>0, <1>1, <2>1, <3>1, TypableIs
    <3>4. rest \in Seq(RawText) /\ Shorter(rest, Len(Behind(s)))
      BY <3>3
    <3>5. parts[s] = u
      BY <2>1, <2>3, PartsIs
    <3> HIDE DEF t, rest
    <3>6. <<t>> \in Seq(RawText) /\ Len(<<t>>) = 1 /\ <<t>>[1] = t
      BY <3>2
    <3>7. /\ u \in Seq(RawText) /\ Len(u) = 1 + Len(rest) /\ Len(rest) \in Nat
          /\ \A k \in 1 .. 1 + Len(rest) : u[k] = IF k <= 1 THEN <<t>>[k] ELSE rest[k - 1]
          /\ DOMAIN u = 1 .. 1 + Len(rest) /\ DOMAIN rest = 1 .. Len(rest)
      BY <3>4, <3>6, ConcatProperties, LenProperties
    <3> HIDE DEF u
    <3>8. ASSUME NEW k \in DOMAIN u PROVE u[k] \in Typable /\ Len(u[k]) <= Len(s)
      <4>1. CASE k = 1
        BY <3>2, <3>6, <3>7, <4>1
      <4>2. CASE k # 1
        <5>1. k - 1 \in DOMAIN rest /\ u[k] = rest[k - 1]
          BY <3>7, <4>2
        <5>2. u[k] \in Typable /\ Len(u[k]) <= Len(Behind(s))
          BY <3>4, <5>1 DEF Shorter
        <5>3. u[k] \in RawText
          BY <5>2, TypableIs
        <5>4. QED
          BY <1>0, <3>1, <5>2, <5>3
      <4>3. QED
        BY <4>1, <4>2
    <3>9. u # <<>>
      BY <3>7, EmptySeq
    <3>10. QED
      BY <3>5, <3>7, <3>8, <3>9 DEF Shorter
  <2>4. QED
    BY <2>2, <2>3
<1> HIDE DEF T
<1>2. RawText \subseteq T
  BY <1>1, LengthInduction
<1>3. QED
  BY <1>2, TypableIs DEF T

LEMMA SplitIs ==
  ASSUME NEW s \in Typable
  PROVE  /\ splitExpressionArgs(s) \in Seq(RawText) /\ Shorter(splitExpressionArgs(s), Len(s))
         /\ splitExpressionArgs(s) = IF NoBlanks[s] = <<>> THEN <<>> ELSE parts[s]
<1>1. TrimSpace(s) = <<>> <=> NoBlanks[s] = <<>>
  BY TypableIs, TrimIs
<1>2. <<>> \in Seq(RawText) /\ Shorter(<<>>, Len(s))
  BY EmptySeq DEF Shorter
<1>3. QED
  BY <1>1, <1>2, PartsAre DEF splitExpressionArgs

-----------------------------------------------------------------------------
(* The recursive descent.                                                  *)

HasOpen(t) == \E i \in 1 .. Len(t) : t[i] = Opening
Heading(t) == SubSeq(t, 1, FirstOpen(t) - 1)
Inside(t) == SubSeq(t, FirstOpen(t) + 1, Len(t) - 1)
Split(t) == splitExpressionArgs(Inside(t))
Args(g, t) == [k \in DOMAIN Split(t) |-> g[Split(t)[k]]]

OnlyName(t) == ToSet(t) \cap {")", "{", ","} = {}
NotCall(t) == Last(t) # Closing \/ FirstOpen(t) = 1 \/ ~balanced(Inside(t))

Parse(g, t) ==
  IF ~HasOpen(t) THEN IF OnlyName(t) THEN Name(t) ELSE Invalid
  ELSE IF NotCall(t) \/ Invalid \in ToSet(Args(g, t)) THEN Invalid
  ELSE Call(TrimSpace(Heading(t)), Args(g, t))

(* Where the first parenthesis is.                                         *)
LEMMA OpenIs ==
  ASSUME NEW t \in RawText, HasOpen(t)
  PROVE  LET open == FirstOpen(t)
         IN  /\ open \in 1 .. Len(t) /\ Len(t) \in Nat /\ t[open] = Opening
             /\ \A i \in 1 .. open - 1 : t[i] # Opening
             /\ Heading(t) \in RawText /\ Len(Heading(t)) = open - 1
             /\ \A i \in 1 .. open - 1 : Heading(t)[i] = t[i]
             /\ Inside(t) \in RawText /\ Len(Inside(t)) < Len(t)
<1> DEFINE open == FirstOpen(t)
           S == {i \in 1 .. Len(t) : t[i] = Opening}
<1>1. DOMAIN t = 1 .. Len(t)
  BY LenProperties DEF RawText
<1>2. Len(t) \in Nat /\ \A i \in 1 .. Len(t) : t[i] \in Alphabet
  BY LenProperties, ElementOfSeq DEF RawText
<1>3. open = Min(S)
  BY <1>1 DEF FirstOpen, Opening
<1>4. S # {} /\ S \subseteq Nat
  BY <1>2 DEF HasOpen
<1>5. open \in S /\ \A i \in S : open <= i
  <2> HIDE DEF S, open
  <2>1. QED
    BY <1>3, <1>4, MinIs
<1> HIDE DEF open
<1>6. open \in 1 .. Len(t) /\ t[open] = Opening /\ \A i \in 1 .. open - 1 : t[i] # Opening
  BY <1>2, <1>5
<1>7. /\ Heading(t) \in RawText /\ Len(Heading(t)) = open - 1
      /\ \A i \in 1 .. open - 1 : Heading(t)[i] = t[i]
  <2> DEFINE b == SubSeq(t, 1, open - 1)
  <2>1. b \in RawText /\ Len(b) = open - 1 /\ \A i \in 1 .. open - 1 : b[i] = t[i]
    BY <1>6, Around
  <2>2. Heading(t) = b
    BY DEF Heading, open
  <2> HIDE DEF b
  <2>3. QED
    BY <2>1, <2>2
<1>8. Inside(t) \in RawText /\ Len(Inside(t)) < Len(t)
  <2> DEFINE b == SubSeq(t, open + 1, Len(t) - 1)
             m == open + 1
             n == Len(t) - 1
  <2>1. m \in Int /\ n \in Int /\ \A i \in m .. n : t[i] \in Alphabet
    BY <1>2, <1>6
  <2>2. b \in RawText /\ Len(b) = IF m <= n THEN n - m + 1 ELSE 0
    <3> HIDE DEF m, n
    <3>1. SubSeq(t, m, n) \in RawText /\ Len(SubSeq(t, m, n)) = IF m <= n THEN n - m + 1 ELSE 0
      BY <2>1, SubSeqProperties DEF RawText
    <3>2. QED
      BY <3>1 DEF m, n
  <2>3. Inside(t) = b
    BY DEF Inside, open
  <2> HIDE DEF b
  <2>4. Len(b) < Len(t)
    BY <1>2, <1>6, <2>2
  <2>5. QED
    BY <2>2, <2>3, <2>4
<1>9. QED
  BY <1>2, <1>6, <1>7, <1>8 DEF open

(* A call is a heading and arguments in parentheses.                       *)
LEMMA CallIs ==
  ASSUME NEW t \in RawText, HasOpen(t), Last(t) = Closing
  PROVE  /\ FirstOpen(t) < Len(t) /\ Len(Inside(t)) = Len(t) - FirstOpen(t) - 1
         /\ t = Heading(t) \o (<<Opening>> \o (Inside(t) \o <<Closing>>))
         /\ \A i \in 1 .. Len(Inside(t)) : Inside(t)[i] = t[FirstOpen(t) + i]
<1> DEFINE open == FirstOpen(t)
           n == Len(t)
<1>1. open \in 1 .. n /\ n \in Nat /\ t[open] = Opening /\ t[n] = Closing
  BY OpenIs DEF Last
<1>2. Opening # Closing
  BY MarksAre
<1>3. open < n
  BY <1>1, <1>2
<1> DEFINE a == SubSeq(t, open + 1, n)
           b == SubSeq(t, 1, open - 1)
           c == SubSeq(t, open + 1, n - 1)
<1>4. t = b \o (<<Opening>> \o a) /\ a \in RawText /\ Len(a) = n - open
  BY <1>1, Around
<1>5. /\ Len(c) = n - open - 1 /\ c \in RawText
      /\ \A i \in 1 .. n - open - 1 : c[i] = t[open + i]
  <2> DEFINE m == open + 1
             k == n - 1
  <2>0. \A i \in 1 .. Len(t) : t[i] \in Alphabet
    BY ElementOfSeq DEF RawText
  <2>1. m \in Int /\ k \in Int /\ m - 1 <= k /\ \A i \in m .. k : t[i] \in Alphabet
    BY <1>1, <1>3, <2>0
  <2>2. /\ SubSeq(t, m, k) \in RawText
        /\ Len(SubSeq(t, m, k)) = IF m <= k THEN k - m + 1 ELSE 0
        /\ \A i \in 1 .. k - m + 1 : SubSeq(t, m, k)[i] = t[m + i - 1]
    <3> HIDE DEF m, k
    <3>1. QED
      BY <2>1, SubSeqProperties DEF RawText
  <2> HIDE DEF c
  <2>3. SubSeq(t, m, k) = c
    BY DEF c
  <2>4. \A i \in 1 .. n - open - 1 : i \in 1 .. k - m + 1 /\ m + i - 1 = open + i
    BY <1>1
  <2>a. k - m + 1 = n - open - 1 /\ (m <= k \/ n - open - 1 = 0)
    BY <1>1, <1>3
  <2> HIDE DEF m, k
  <2>5. Len(c) = n - open - 1 /\ c \in RawText
    BY <2>2, <2>3, <2>a
  <2>6. QED
    BY <2>2, <2>3, <2>4, <2>5
<1>6. a = c \o <<Closing>>
  <2> DEFINE m == open + 1
  <2>1. m \in 1 .. Len(t) /\ n \in m .. Len(t)
    BY <1>1, <1>3
  <2> HIDE DEF m, n
  <2>2. SubSeq(t, m, n) = SubSeq(t, m, n - 1) \o <<t[n]>>
    BY <2>1, SubSeqRecursiveSecond DEF RawText
  <2>3. QED
    BY <1>1, <2>2 DEF m
<1>7. Heading(t) = b /\ Inside(t) = c
  BY DEF Heading, Inside
<1> HIDE DEF a, b, c
<1>8. QED
  BY <1>3, <1>4, <1>5, <1>6, <1>7

(* The arguments are shorter than the text.                                *)
LEMMA ArgsAreShorter ==
  ASSUME NEW s \in Typable
  PROVE  LET t == TrimSpace(s)
         IN  /\ t \in Typable /\ Len(t) <= Len(s)
             /\ HasOpen(t) =>
                  /\ Inside(t) \in Typable /\ Len(Inside(t)) < Len(s)
                  /\ Split(t) \in Seq(RawText)
                  /\ \A k \in DOMAIN Split(t) :
                       Split(t)[k] \in Typable /\ Len(Split(t)[k]) < Len(s)
<1> DEFINE t == TrimSpace(s)
<1>0. \A u \in RawText : Len(u) \in Nat
  BY LenProperties DEF RawText
<1>1. s \in RawText /\ t \in RawText /\ Len(t) <= Len(s)
  BY TypableIs, TrimIs
<1>2. t \in Typable
  BY <1>1, TypableIs
<1> HIDE DEF t
<1>3. ASSUME HasOpen(t)
      PROVE  /\ Inside(t) \in Typable /\ Len(Inside(t)) < Len(s)
             /\ Split(t) \in Seq(RawText)
             /\ \A k \in DOMAIN Split(t) : Split(t)[k] \in Typable /\ Len(Split(t)[k]) < Len(s)
  <2>1. Inside(t) \in RawText /\ Len(Inside(t)) < Len(t)
    BY <1>1, <1>3, OpenIs
  <2>2. Inside(t) \in Typable /\ Len(Inside(t)) < Len(s)
    BY <1>0, <1>1, <2>1, TypableIs
  <2>3. Split(t) \in Seq(RawText) /\ Shorter(Split(t), Len(Inside(t)))
    BY <2>2, SplitIs DEF Split
  <2>4. ASSUME NEW k \in DOMAIN Split(t)
        PROVE  Split(t)[k] \in Typable /\ Len(Split(t)[k]) < Len(s)
    <3> DEFINE u == Split(t)[k]
    <3>1. u \in Typable /\ Len(u) <= Len(Inside(t))
      BY <2>3 DEF Shorter
    <3> HIDE DEF u
    <3>2. u \in RawText
      BY <3>1, TypableIs
    <3>3. Len(u) < Len(s)
      BY <1>0, <1>1, <2>1, <2>2, <3>1, <3>2
    <3>4. QED
      BY <3>1, <3>3 DEF u
  <2>5. QED
    BY <2>2, <2>3, <2>4
<1>4. QED
  BY <1>1, <1>2, <1>3 DEF t

LEMMA ParseIs == \A s \in Typable : ParseExpression[s] = Parse(ParseExpression, TrimSpace(s))
<1> DEFINE turn(g, s) == Parse(g, TrimSpace(s))
           fix(f) == f = [s \in Typable |-> turn(f, s)]
           Good(g, n) == \A s \in Typable : Len(s) < n => g[s] = turn(g, s)
           S == {n \in Nat : \E g : Good(g, n)}
<1>0. \A s \in Typable : s \in RawText /\ Len(s) \in Nat
  BY TypableIs, LenProperties DEF RawText
<1>1. ASSUME NEW f, NEW g, NEW s \in Typable,
             \A t \in Typable : Len(t) < Len(s) => f[t] = g[t]
      PROVE  turn(f, s) = turn(g, s)
  <2> DEFINE t == TrimSpace(s)
  <2>1. CASE ~HasOpen(t)
    BY <2>1 DEF Parse
  <2>2. CASE HasOpen(t)
    <3>1. \A k \in DOMAIN Split(t) : f[Split(t)[k]] = g[Split(t)[k]]
      BY <1>1, <2>2, ArgsAreShorter
    <3>2. Args(f, t) = Args(g, t)
      BY <3>1 DEF Args
    <3>3. QED
      BY <3>2 DEF Parse
  <2>3. QED
    BY <2>1, <2>2
<1> HIDE DEF turn
<1>2. 0 \in S
  <2>1. Good(<<>>, 0)
    BY <1>0
  <2>2. QED
    BY <2>1
<1>3. ASSUME NEW n \in Nat, n \in S PROVE n + 1 \in S
  <2>1. PICK f : Good(f, n)
    BY <1>3
  <2> DEFINE g == [s \in Typable |-> turn(f, s)]
  <2>2. \A s \in Typable : g[s] = turn(f, s)
    OBVIOUS
  <2> HIDE DEF g
  <2>3. ASSUME NEW s \in Typable, Len(s) < n + 1 PROVE g[s] = turn(g, s)
    <3>1. ASSUME NEW t \in Typable, Len(t) < Len(s) PROVE f[t] = g[t]
      <4>1. Len(t) < n
        BY <1>0, <2>3, <3>1
      <4>2. QED
        BY <2>1, <2>2, <4>1
    <3>2. turn(f, s) = turn(g, s)
      BY <1>1, <3>1
    <3>3. QED
      BY <2>2, <3>2
  <2>4. Good(g, n + 1)
    BY <2>3
  <2> HIDE DEF Good
  <2>5. QED
    BY <2>4
<1> HIDE DEF S
<1>4. Nat \subseteq S
  BY <1>2, <1>3, NaturalInduction
<1>5. \E g : Good(g, MaxLength + 1)
  <2>1. MaxLength + 1 \in Nat
    BY LengthsAssumption
  <2>2. QED
    BY <1>4, <2>1 DEF S
<1>6. PICK g : \A s \in Typable : g[s] = turn(g, s)
  <2>1. PICK h : Good(h, MaxLength + 1)
    BY <1>5
  <2>2. \A s \in Typable : Len(s) < MaxLength + 1
    BY <1>0, TypableIs, LengthsAssumption
  <2>3. \A s \in Typable : h[s] = turn(h, s)
    BY <2>1, <2>2
  <2>4. QED
    BY <2>3
<1> DEFINE f == [s \in Typable |-> g[s]]
<1>7. \A s \in Typable : f[s] = g[s]
  OBVIOUS
<1> HIDE DEF f
<1>8. ASSUME NEW s \in Typable PROVE f[s] = turn(f, s)
  <2>1. turn(f, s) = turn(g, s)
    BY <1>1, <1>7
  <2>2. QED
    BY <1>6, <1>7, <2>1
<1>9. f = [s \in Typable |-> f[s]]
  BY DEF f
<1>10. f = [s \in Typable |-> turn(f, s)]
  BY <1>8, <1>9
<1> DEFINE code(h, s) ==
      LET trimmed == TrimSpace(s)
          open    == FirstOpen(trimmed)
          inside  == SubSeq(trimmed, open + 1, Len(trimmed) - 1)
          split   == splitExpressionArgs(inside)
          args    == [k \in DOMAIN split |-> h[split[k]]]
      IN  IF "(" \notin ToSet(trimmed)
          THEN IF ToSet(trimmed) \cap {")", "{", ","} = {} THEN Name(trimmed) ELSE Invalid
          ELSE IF Last(trimmed) # ")" \/ open = 1 \/ ~balanced(inside) \/ Invalid \in ToSet(args)
          THEN Invalid
          ELSE Call(TrimSpace(SubSeq(trimmed, 1, open - 1)), args)
<1>11. ASSUME NEW h, NEW s \in Typable PROVE code(h, s) = turn(h, s)
  <2> DEFINE t == TrimSpace(s)
  <2>1. t \in RawText
    BY <1>0, TrimIs
  <2>2. "(" \notin ToSet(t) <=> ~HasOpen(t)
    <3>1. DOMAIN t = 1 .. Len(t)
      BY <2>1, LenProperties DEF RawText
    <3>2. QED
      BY <3>1 DEF ToSet, HasOpen, Opening
  <2> HIDE DEF t
  <2>3. QED
    BY <2>2 DEF t, turn, Parse, Args, Split, Inside, Heading, NotCall, OnlyName, Closing
<1>12. fix(ParseExpression)
  <2>1. ParseExpression = CHOOSE h : h = [s \in Typable |-> code(h, s)]
    BY DEF ParseExpression
  <2>2. ASSUME NEW h PROVE [s \in Typable |-> code(h, s)] = [s \in Typable |-> turn(h, s)]
    BY <1>11
  <2>3. ParseExpression = CHOOSE h : fix(h)
    <3> HIDE DEF code
    <3>1. QED
      BY <2>1, <2>2
  <2>4. \E h : fix(h)
    BY <1>10
  <2> HIDE DEF fix
  <2>5. QED
    BY <2>3, <2>4
<1> DEFINE h == ParseExpression
<1>13. h = [s \in Typable |-> turn(h, s)]
  BY <1>12
<1> HIDE DEF h
<1>14. \A s \in Typable : h[s] = turn(h, s)
  BY <1>13
<1>15. QED
  BY <1>14 DEF h, turn

-----------------------------------------------------------------------------
(* What the parser returns.                                                *)

LEMMA InvalidIs ==
  /\ \A n \in 0 .. MaxLength : Invalid \in Nested[n]
  /\ \A n \in 0 .. MaxLength, t \in RawText : Name(t) \in Nested[n]
<1>1. Invalid \in Nested[0] /\ \A t \in RawText : Name(t) \in Nested[0]
  BY EmptyText, NestedIs DEF Invalid, Name, Level
<1>2. \A n \in 0 .. MaxLength : Nested[0] \subseteq Nested[n]
  <2>1. \A n \in 0 .. MaxLength : 0 \in 0 .. n
    OBVIOUS
  <2>2. QED
    BY <2>1, NestedGrows
<1>3. QED
  BY <1>1, <1>2

(* The two ways not to be an error.                                        *)
IsName(s) ==
  LET t == TrimSpace(s)
  IN  ~HasOpen(t) /\ OnlyName(t) /\ ParseExpression[s] = Name(t)

IsCall(s) ==
  LET t == TrimSpace(s)
  IN  /\ HasOpen(t) /\ Last(t) = Closing /\ FirstOpen(t) # 1 /\ balanced(Inside(t))
      /\ \A k \in DOMAIN Split(t) : ParseExpression[Split(t)[k]] # Invalid
      /\ ParseExpression[s] = Call(TrimSpace(Heading(t)), Args(ParseExpression, t))

LEMMA ParseCases ==
  ASSUME NEW s \in Typable
  PROVE  LET t == TrimSpace(s)
             e == ParseExpression[s]
         IN  /\ e = Invalid \/ IsName(s) \/ IsCall(s)
             /\ ~HasOpen(t) /\ OnlyName(t) => IsName(s)
             /\ HasOpen(t) /\ ~NotCall(t)
                  /\ (\A k \in DOMAIN Split(t) : ParseExpression[Split(t)[k]] # Invalid) => IsCall(s)
<1> DEFINE t == TrimSpace(s)
           f == ParseExpression
<1>1. f[s] = Parse(f, t)
  BY ParseIs
<1>2. HasOpen(t) => (Invalid \in ToSet(Args(f, t)) <=>
                       \E k \in DOMAIN Split(t) : f[Split(t)[k]] = Invalid)
  BY DEF Args, ToSet
<1> HIDE DEF f
<1>3. CASE ~HasOpen(t)
  <2>1. f[s] = IF OnlyName(t) THEN Name(t) ELSE Invalid
    BY <1>1, <1>3 DEF Parse
  <2> HIDE DEF t
  <2>2. QED
    BY <1>3, <2>1 DEF IsName, t, f
<1>4. CASE HasOpen(t)
  <2>1. f[s] = IF NotCall(t) \/ \E k \in DOMAIN Split(t) : f[Split(t)[k]] = Invalid THEN Invalid
               ELSE Call(TrimSpace(Heading(t)), Args(f, t))
    BY <1>1, <1>2, <1>4 DEF Parse
  <2>2. QED
    BY <1>4, <2>1 DEF IsCall, NotCall, f
<1>5. QED
  BY <1>3, <1>4

(* A text is read as an expression that has fewer calls inside each other  *)
(* than the text has characters.                                           *)
LEMMA ParseTyped == \A s \in Typable : ParseExpression[s] \in Nested[Len(s)] /\ ParseExpression[s] \in Exprs
<1> DEFINE f == ParseExpression
           T == {s \in RawText : s \in Typable => f[s] \in Nested[Len(s)]}
<1>0. \A s \in Typable : s \in RawText /\ Len(s) \in 0 .. MaxLength
  BY TypableIs, LenProperties, LengthsAssumption DEF RawText
<1>1. ASSUME NEW s \in RawText, \A t \in RawText : Len(t) < Len(s) => t \in T, s \in Typable
      PROVE  f[s] \in Nested[Len(s)]
  <2> DEFINE t == TrimSpace(s)
             n == Len(s)
  <2>0. n \in 0 .. MaxLength /\ t \in RawText
    BY <1>0, <1>1, TrimIs
  <2>1. CASE f[s] = Invalid
    BY <2>0, <2>1, InvalidIs
  <2>2. CASE IsName(s)
    BY <2>0, <2>2, InvalidIs DEF IsName
  <2>3. CASE IsCall(s)
    <3>1. HasOpen(t) /\ f[s] = Call(TrimSpace(Heading(t)), Args(f, t))
      BY <2>3 DEF IsCall
    <3>2. /\ Inside(t) \in RawText /\ Len(Inside(t)) < n /\ Split(t) \in Seq(RawText)
          /\ \A k \in DOMAIN Split(t) : Split(t)[k] \in Typable /\ Len(Split(t)[k]) < n
      BY <1>0, <1>1, <3>1, ArgsAreShorter
    <3>3. n >= 1 /\ n - 1 \in 0 .. MaxLength
      <4>1. Len(Inside(t)) \in Nat
        BY <3>2, LenProperties DEF RawText
      <4> HIDE DEF n, t
      <4>2. QED
        BY <4>1, <3>2, <2>0, LengthsAssumption
    <3>4. ASSUME NEW k \in DOMAIN Split(t) PROVE f[Split(t)[k]] \in Nested[n - 1]
      <4> DEFINE p == Split(t)[k]
      <4>1. p \in Typable /\ p \in RawText /\ Len(p) < n /\ Len(p) \in Nat
        BY <1>0, <3>2
      <4>2. f[p] \in Nested[Len(p)]
        BY <1>1, <4>1
      <4> HIDE DEF p, n, f
      <4>3. Len(p) \in 0 .. n - 1
        BY <2>0, <4>1
      <4>4. Nested[Len(p)] \subseteq Nested[n - 1]
        BY <3>3, <4>3, NestedGrows
      <4>5. QED
        BY <4>2, <4>4 DEF p
    <3>5. Args(f, t) \in Seq(Nested[n - 1])
      <4>1. DOMAIN Split(t) = 1 .. Len(Split(t)) /\ Len(Split(t)) \in Nat
        BY <3>2, LenProperties
      <4> HIDE DEF n, f, t
      <4>2. Args(f, t) \in [1 .. Len(Split(t)) -> Nested[n - 1]]
        BY <3>4, <4>1 DEF Args
      <4> HIDE DEF Args
      <4>3. QED
        BY <4>1, <4>2
    <3>6. TrimSpace(Heading(t)) \in RawText
      <4>1. Heading(t) \in RawText
        BY <2>0, <3>1, OpenIs
      <4>2. QED
        BY <4>1, TrimIs
    <3>7. Nested[n] = Level(Seq(Nested[n - 1]))
      <4> HIDE DEF n
      <4>1. QED
        BY <2>0, <3>3, NestedIs, LengthsAssumption
    <3> HIDE DEF t, n, f
    <3>8. QED
      BY <3>1, <3>5, <3>6, <3>7 DEF Call, Level, n
  <2>4. QED
    BY <1>1, <2>1, <2>2, <2>3, ParseCases
<1>2. ASSUME NEW s \in RawText, \A t \in RawText : Len(t) < Len(s) => t \in T PROVE s \in T
  BY <1>1, <1>2
<1> HIDE DEF T
<1>3. RawText \subseteq T
  BY <1>2, LengthInduction
<1>4. ASSUME NEW s \in Typable PROVE f[s] \in Nested[Len(s)] /\ f[s] \in Exprs
  <2>1. s \in RawText /\ Len(s) \in 0 .. MaxLength /\ s \in T
    BY <1>0, <1>3
  <2>2. f[s] \in Nested[Len(s)]
    BY <2>1 DEF T
  <2> HIDE DEF f
  <2>3. QED
    BY <2>1, <2>2, NestedArgs
<1>5. QED
  BY <1>4

-----------------------------------------------------------------------------
(* Printing the result gives the text back.                                *)

(* A list of texts and what follows the first.                             *)
LEMMA UnconsTexts ==
  ASSUME NEW texts \in Seq(RawText), texts # <<>>
  PROVE  /\ texts[1] \in RawText /\ Tail(texts) \in Seq(RawText) /\ Len(texts) \in Nat
         /\ Len(Tail(texts)) = Len(texts) - 1
         /\ \A i \in 1 .. Len(texts) - 1 : Tail(texts)[i] = texts[i + 1]
         /\ texts = <<texts[1]>> \o Tail(texts)
<1>1. /\ Head(texts) \in RawText /\ Tail(texts) \in Seq(RawText) /\ Len(Tail(texts)) = Len(texts) - 1
      /\ \A i \in 1 .. Len(Tail(texts)) : Tail(texts)[i] = texts[i + 1]
  BY HeadTailProperties
<1>2. Head(texts) = texts[1] /\ Len(texts) \in Nat
  BY LenProperties
<1> DEFINE h == <<texts[1]>>
           t == Tail(texts)
           u == h \o t
<1>3. h \in Seq(RawText) /\ Len(h) = 1 /\ h[1] = texts[1]
  BY <1>1, <1>2
<1>0. t \in Seq(RawText)
  BY <1>1
<1> HIDE DEF h, t
<1>4. /\ u \in Seq(RawText) /\ Len(u) = 1 + Len(t)
      /\ \A i \in 1 .. 1 + Len(t) : u[i] = IF i <= 1 THEN h[i] ELSE t[i - 1]
  <2>1. /\ h \o t \in Seq(RawText) /\ Len(h \o t) = Len(h) + Len(t)
        /\ \A i \in 1 .. Len(h) + Len(t) :
              (h \o t)[i] = IF i <= Len(h) THEN h[i] ELSE t[i - Len(h)]
    BY <1>0, <1>3, ConcatProperties
  <2>2. QED
    BY <1>3, <2>1
<1>a. Len(t) = Len(texts) - 1 /\ \A i \in 1 .. Len(t) : t[i] = texts[i + 1]
  BY <1>1 DEF t
<1> HIDE DEF u
<1>5. ASSUME NEW i \in 1 .. Len(texts) PROVE u[i] = texts[i]
  <2>1. CASE i = 1
    BY <1>2, <1>3, <1>4, <1>a, <2>1
  <2>2. CASE i # 1
    <3> DEFINE k == i - 1
    <3>1. k \in 1 .. Len(t) /\ i = k + 1 /\ i \in 1 .. 1 + Len(t) /\ ~(i <= 1)
      BY <1>2, <1>a, <2>2
    <3>2. u[i] = t[k]
      BY <1>4, <3>1
    <3> HIDE DEF k
    <3>3. t[k] = texts[k + 1]
      BY <1>a, <3>1
    <3>4. QED
      BY <3>1, <3>2, <3>3
  <2>3. QED
    BY <2>1, <2>2
<1>6. u = texts
  BY <1>1, <1>2, <1>4, <1>5, SeqEqual DEF t
<1>7. QED
  BY <1>1, <1>2, <1>6 DEF u, h, t

LEMMA JoinedIsText == \A texts \in Seq(RawText) : Joined[texts] \in RawText
<1> DEFINE T == {n \in Nat : \A texts \in Seq(RawText) : Len(texts) = n => Joined[texts] \in RawText}
<1>0. <<Comma>> \in RawText
  BY MarksInAlphabet, EmptyText, Prefixed
<1>1. 0 \in T
  <2>1. \A texts \in Seq(RawText) : Len(texts) = 0 => texts = <<>>
    BY EmptySeq
  <2>2. QED
    BY <2>1, EmptyText, JoinedIs
<1>2. ASSUME NEW n \in Nat, n \in T PROVE n + 1 \in T
  <2>1. ASSUME NEW texts \in Seq(RawText), Len(texts) = n + 1 PROVE Joined[texts] \in RawText
    <3>1. texts # <<>>
      BY <2>1, EmptySeq
    <3>2. /\ texts[1] \in RawText /\ Tail(texts) \in Seq(RawText) /\ Len(Tail(texts)) = n
          /\ texts = <<texts[1]>> \o Tail(texts)
      BY <2>1, <3>1, UnconsTexts
    <3>3. CASE Tail(texts) = <<>>
      <4>1. texts = <<texts[1]>>
        BY <2>1, <3>2, <3>3, EmptySeq
      <4>2. QED
        BY <3>2, <4>1, JoinedIs
    <3>4. CASE Tail(texts) # <<>>
      <4> DEFINE h == texts[1]
                 t == Tail(texts)
      <4>1. Joined[t] \in RawText
        BY <1>2, <3>2
      <4> HIDE DEF h, t
      <4>2. Joined[<<h>> \o t] = h \o <<Comma>> \o Joined[t]
        BY <3>2, <3>4, JoinedIs DEF h, t, Comma
      <4>3. h \o <<Comma>> \o Joined[t] \in RawText
        BY <1>0, <3>2, <4>1, Together DEF h
      <4>4. texts = <<h>> \o t
        BY <3>2 DEF h, t
      <4>5. QED
        BY <4>2, <4>3, <4>4
    <3>5. QED
      BY <3>3, <3>4
  <2>2. QED
    BY <2>1
<1> HIDE DEF T
<1>3. Nat \subseteq T
  BY <1>1, <1>2, NaturalInduction
<1>4. QED
  <2>1. ASSUME NEW texts \in Seq(RawText) PROVE Joined[texts] \in RawText
    <3>1. Len(texts) \in Nat
      BY LenProperties
    <3>2. QED
      BY <1>3, <3>1 DEF T
  <2>2. QED
    BY <2>1

(* Texts that differ from the parts by blanks make up the text again.      *)
Like(texts, others) ==
  Len(texts) = Len(others) /\ \A k \in 1 .. Len(others) : NoBlanks[texts[k]] = NoBlanks[others[k]]

LEMMA PartsJoined ==
  \A u \in Typable : \A texts \in Seq(RawText) : Like(texts, parts[u]) => NoBlanks[Joined[texts]] = NoBlanks[u]
<1> DEFINE Good(u) == \A texts \in Seq(RawText) : Like(texts, parts[u]) => NoBlanks[Joined[texts]] = NoBlanks[u]
           T == {u \in RawText : u \in Typable => Good(u)}
<1>0. <<Comma>> \in RawText
  BY MarksInAlphabet, EmptyText, Prefixed
<1>1. ASSUME NEW u \in RawText, \A v \in RawText : Len(v) < Len(u) => v \in T, u \in Typable,
             NEW texts \in Seq(RawText), Like(texts, parts[u])
      PROVE  NoBlanks[Joined[texts]] = NoBlanks[u]
  <2>0. parts[u] \in Seq(RawText) /\ parts[u] # <<>> /\ Len(parts[u]) \in Nat
    BY <1>1, PartsAre, LenProperties
  <2>1. texts # <<>> /\ Len(texts) = Len(parts[u]) /\ Len(texts) >= 1
    BY <1>1, <2>0, EmptySeq DEF Like
  <2>2. CASE separators(u) = {}
    <3>1. parts[u] = <<TrimSpace(u)>> /\ NoBlanks[TrimSpace(u)] = NoBlanks[u]
      BY <1>1, <2>2, PartsIs, TrimIs
    <3>2. Len(texts) = 1 /\ NoBlanks[texts[1]] = NoBlanks[u]
      BY <1>1, <3>1 DEF Like
    <3>3. texts = <<texts[1]>> /\ texts[1] \in RawText
      BY <2>1, <3>2, EmptySeq, UnconsTexts
    <3>4. QED
      BY <3>2, <3>3, JoinedIs
  <2>3. CASE separators(u) # {}
    <3> DEFINE x == Before(u)
               y == Behind(u)
    <3>1. /\ x \in RawText /\ y \in RawText /\ Len(y) < Len(u) /\ y \in Typable
          /\ u = x \o (<<Comma>> \o y) /\ Len(u) \in Nat /\ Len(y) \in Nat
      BY <1>1, <2>3, CutIs, TypableIs, LenProperties DEF RawText
    <3>2. parts[u] = <<TrimSpace(x)>> \o parts[y] /\ TrimSpace(x) \in RawText
          /\ NoBlanks[TrimSpace(x)] = NoBlanks[x]
      BY <1>1, <2>3, <3>1, PartsIs, TrimIs
    <3>3. parts[y] \in Seq(RawText) /\ parts[y] # <<>> /\ Len(parts[y]) \in Nat /\ Len(parts[y]) >= 1
      <4>1. parts[y] \in Seq(RawText) /\ parts[y] # <<>>
        BY <3>1, PartsAre
      <4>2. QED
        BY <4>1, LenProperties, EmptySeq
    <3> HIDE DEF x, y
    <3> DEFINE h == TrimSpace(x)
               r == parts[y]
               l == Tail(texts)
    <3>4. /\ Len(parts[u]) = Len(r) + 1 /\ parts[u][1] = h
          /\ \A k \in 1 .. Len(r) : parts[u][k + 1] = r[k]
      <4> HIDE DEF h, r
      <4>1. /\ Len(<<h>> \o r) = 1 + Len(r)
            /\ \A i \in 1 .. 1 + Len(r) : (<<h>> \o r)[i] = IF i <= 1 THEN h ELSE r[i - 1]
        <5>1. <<h>> \in Seq(RawText) /\ r \in Seq(RawText) /\ Len(<<h>>) = 1 /\ <<h>>[1] = h
          BY <3>2, <3>3 DEF h, r
        <5>2. /\ Len(<<h>> \o r) = 1 + Len(r)
              /\ \A i \in 1 .. 1 + Len(r) : (<<h>> \o r)[i] = IF i <= 1 THEN <<h>>[i] ELSE r[i - 1]
          BY <5>1, ConcatProperties
        <5>3. QED
          BY <5>1, <5>2, <3>3 DEF r
      <4> DEFINE w == <<h>> \o r
      <4>2. parts[u] = w
        BY <3>2 DEF h, r
      <4> HIDE DEF w
      <4>3. /\ Len(w) = 1 + Len(r)
            /\ \A i \in 1 .. 1 + Len(r) : w[i] = IF i <= 1 THEN h ELSE r[i - 1]
        BY <4>1 DEF w
      <4>4. QED
        BY <3>3, <4>2, <4>3 DEF r
    <3>5. /\ texts[1] \in RawText /\ l \in Seq(RawText) /\ Len(l) = Len(texts) - 1
          /\ \A i \in 1 .. Len(texts) - 1 : l[i] = texts[i + 1]
          /\ texts = <<texts[1]>> \o l
      BY <2>1, UnconsTexts
    <3> HIDE DEF h, r, l
    <3>6. Len(l) = Len(r) /\ l # <<>>
      BY <2>1, <3>3, <3>4, <3>5, EmptySeq DEF r
    <3>7. Like(l, r)
      <4>1. ASSUME NEW k \in 1 .. Len(r) PROVE NoBlanks[l[k]] = NoBlanks[r[k]]
        <5>1. l[k] = texts[k + 1] /\ r[k] = parts[u][k + 1] /\ k + 1 \in 1 .. Len(parts[u])
          BY <2>1, <3>3, <3>4, <3>5, <3>6 DEF r
        <5>2. QED
          BY <1>1, <5>1 DEF Like
      <4>2. QED
        BY <3>6, <4>1 DEF Like
    <3>8. NoBlanks[Joined[l]] = NoBlanks[y]
      <4>1. y \in T
        BY <1>1, <3>1
      <4>2. QED
        BY <3>1, <3>5, <3>7, <4>1 DEF r
    <3>9. Joined[l] \in RawText /\ Joined[texts] = texts[1] \o <<Comma>> \o Joined[l]
      <4>1. Joined[<<texts[1]>> \o l] = texts[1] \o <<Comma>> \o Joined[l]
        BY <3>5, <3>6, JoinedIs DEF Comma
      <4>2. QED
        BY <3>5, <4>1, JoinedIsText
    <3>10. NoBlanks[texts[1]] = NoBlanks[x]
      <4>1. NoBlanks[texts[1]] = NoBlanks[parts[u][1]]
        BY <1>1, <2>1 DEF Like
      <4>2. QED
        BY <3>2, <3>4, <4>1 DEF h
    <3>11. NoBlanks[Joined[texts]] = (NoBlanks[x] \o NoBlanks[<<Comma>>]) \o NoBlanks[y]
      <4> DEFINE a == texts[1]
                 j == Joined[l]
      <4>1. a \in RawText /\ j \in RawText /\ a \o <<Comma>> \in RawText
        BY <1>0, <3>5, <3>9, Together
      <4> HIDE DEF a, j
      <4>2. NoBlanks[(a \o <<Comma>>) \o j] = NoBlanks[a \o <<Comma>>] \o NoBlanks[j]
        BY <4>1, NoBlanksTogether
      <4>3. NoBlanks[a \o <<Comma>>] = NoBlanks[a] \o NoBlanks[<<Comma>>]
        BY <1>0, <4>1, NoBlanksTogether
      <4>4. QED
        BY <3>8, <3>9, <3>10, <4>2, <4>3 DEF a, j
    <3>12. NoBlanks[u] = NoBlanks[x] \o (NoBlanks[<<Comma>>] \o NoBlanks[y])
      <4>1. <<Comma>> \o y \in RawText
        BY <1>0, <3>1, Together
      <4>2. NoBlanks[x \o (<<Comma>> \o y)] = NoBlanks[x] \o NoBlanks[<<Comma>> \o y]
        BY <3>1, <4>1, NoBlanksTogether
      <4>3. NoBlanks[<<Comma>> \o y] = NoBlanks[<<Comma>>] \o NoBlanks[y]
        BY <1>0, <3>1, NoBlanksTogether
      <4>4. QED
        BY <3>1, <4>2, <4>3
    <3>13. NoBlanks[x] \in RawText /\ NoBlanks[y] \in RawText /\ NoBlanks[<<Comma>>] \in RawText
      BY <1>0, <3>1, NoBlanksIsText
    <3>14. QED
      BY <3>11, <3>12, <3>13, Associates
  <2>4. QED
    BY <2>2, <2>3
<1>2. ASSUME NEW u \in RawText, \A v \in RawText : Len(v) < Len(u) => v \in T PROVE u \in T
  BY <1>1, <1>2
<1> HIDE DEF T
<1>3. RawText \subseteq T
  BY <1>2, LengthInduction
<1>4. QED
  BY <1>3, TypableIs DEF T

(* Printing the parsed text gives it back, blanks aside, whatever it is.   *)
LEMMA Printed ==
  \A s \in Typable :
    ParseExpression[s] # Invalid =>
      Show[ParseExpression[s]] \in RawText /\ NoBlanks[Show[ParseExpression[s]]] = NoBlanks[s]
<1> DEFINE f == ParseExpression
           Good(s) == f[s] # Invalid => Show[f[s]] \in RawText /\ NoBlanks[Show[f[s]]] = NoBlanks[s]
           T == {s \in RawText : s \in Typable => Good(s)}
<1>0. <<Opening>> \in RawText /\ <<Closing>> \in RawText
  BY MarksInAlphabet, EmptyText, Prefixed
<1>1. ASSUME NEW s \in RawText, \A t \in RawText : Len(t) < Len(s) => t \in T, s \in Typable,
             f[s] # Invalid
      PROVE  Show[f[s]] \in RawText /\ NoBlanks[Show[f[s]]] = NoBlanks[s]
  <2> DEFINE t == TrimSpace(s)
             e == f[s]
  <2>0. t \in RawText /\ NoBlanks[t] = NoBlanks[s] /\ e \in Exprs
    BY <1>1, TrimIs, ParseTyped
  <2>1. CASE IsName(s)
    <3>1. e = Name(t)
      BY <2>1 DEF IsName
    <3> HIDE DEF e
    <3>2. Show[e] = t
      BY <2>0, <3>1, ShowIs DEF Name
    <3>3. QED
      BY <2>0, <3>2 DEF e
  <2>2. CASE IsCall(s)
    <3> DEFINE inside == Inside(t)
               p == Split(t)
               n == TrimSpace(Heading(t))
    <3>1. HasOpen(t) /\ Last(t) = Closing /\ e = Call(n, Args(f, t))
          /\ \A k \in DOMAIN p : f[p[k]] # Invalid
      BY <2>2 DEF IsCall
    <3>2. /\ inside \in Typable /\ inside \in RawText /\ p \in Seq(RawText) /\ Len(p) \in Nat
          /\ \A k \in DOMAIN p : p[k] \in Typable /\ Len(p[k]) < Len(s)
      BY <1>1, <3>1, ArgsAreShorter, TypableIs, LenProperties
    <3>3. Heading(t) \in RawText /\ n \in RawText /\ NoBlanks[n] = NoBlanks[Heading(t)]
      BY <2>0, <3>1, OpenIs, TrimIs
    <3> DEFINE args == Args(f, t)
               shown == [k \in DOMAIN args |-> Show[args[k]]]
    <3>4. DOMAIN args = DOMAIN p /\ \A k \in DOMAIN p : args[k] = f[p[k]]
      BY DEF Args
    <3> HIDE DEF p, args
    <3>5. DOMAIN p = 1 .. Len(p)
      BY <3>2, LenProperties
    <3>6. \A k \in DOMAIN p : Show[args[k]] \in RawText /\ NoBlanks[Show[args[k]]] = NoBlanks[p[k]]
      <4>1. ASSUME NEW k \in DOMAIN p
            PROVE  Show[args[k]] \in RawText /\ NoBlanks[Show[args[k]]] = NoBlanks[p[k]]
        <5>1. p[k] \in T /\ p[k] \in Typable /\ f[p[k]] # Invalid
          BY <1>1, <3>1, <3>2, TypableIs
        <5>2. Show[f[p[k]]] \in RawText /\ NoBlanks[Show[f[p[k]]]] = NoBlanks[p[k]]
          BY <5>1
        <5>3. QED
          BY <3>4, <5>2
      <4>2. QED
        BY <4>1
    <3>7. shown \in Seq(RawText) /\ Len(shown) = Len(p) /\ \A k \in 1 .. Len(p) : shown[k] = Show[args[k]]
      <4>1. shown \in [1 .. Len(p) -> RawText]
        BY <3>4, <3>5, <3>6
      <4>2. \A k \in 1 .. Len(p) : shown[k] = Show[args[k]]
        BY <3>4, <3>5
      <4> HIDE DEF shown
      <4>3. QED
        BY <3>2, <4>1, <4>2, LenProperties
    <3>8. e.name = n /\ e.call /\ e.args = args
      BY <3>1 DEF Call, args
    <3> HIDE DEF e
    <3>9. Show[e] = ((n \o <<Opening>>) \o Joined[shown]) \o <<Closing>>
      BY <2>0, <3>8, ShowIs DEF Opening, Closing
    <3> HIDE DEF shown
    <3>10. Joined[shown] \in RawText /\ NoBlanks[Joined[shown]] = NoBlanks[inside]
      <4>1. Joined[shown] \in RawText
        BY <3>7, JoinedIsText
      <4>2. CASE NoBlanks[inside] = <<>>
        <5>1. p = <<>>
          BY <3>2, <4>2, SplitIs DEF p, Split
        <5>2. shown = <<>>
          BY <3>7, <5>1, EmptySeq
        <5>3. QED
          BY <4>2, <5>2, JoinedIs, EmptyText, NoBlanksIs
      <4>3. CASE NoBlanks[inside] # <<>>
        <5>1. p = parts[inside]
          BY <3>2, <4>3, SplitIs DEF p, Split
        <5>2. Like(shown, p)
          BY <3>5, <3>6, <3>7 DEF Like
        <5>3. QED
          BY <3>2, <3>7, <4>1, <5>1, <5>2, PartsJoined
      <4>4. QED
        BY <4>2, <4>3
    <3> DEFINE j == Joined[shown]
               h == Heading(t)
    <3>11. t = h \o (<<Opening>> \o (inside \o <<Closing>>))
      BY <2>0, <3>1, CallIs
    <3> HIDE DEF j, h, inside, n
    <3>12. /\ j \in RawText /\ NoBlanks[j] = NoBlanks[inside] /\ h \in RawText /\ inside \in RawText
           /\ n \in RawText /\ NoBlanks[n] = NoBlanks[h]
           /\ Show[e] = ((n \o <<Opening>>) \o j) \o <<Closing>>
      BY <3>2, <3>3, <3>9, <3>10 DEF j, h
    <3> DEFINE o == <<Opening>>
               c == <<Closing>>
    <3> HIDE DEF o, c
    <3>13. /\ Show[e] \in RawText
           /\ NoBlanks[Show[e]] = ((NoBlanks[n] \o NoBlanks[o]) \o NoBlanks[j]) \o NoBlanks[c]
      <4>1. o \in RawText /\ c \in RawText /\ Show[e] = ((n \o o) \o j) \o c
        BY <1>0, <3>12 DEF o, c
      <4>2. n \o o \in RawText /\ (n \o o) \o j \in RawText /\ ((n \o o) \o j) \o c \in RawText
        BY <3>12, <4>1, Together
      <4>3. NoBlanks[((n \o o) \o j) \o c] = NoBlanks[(n \o o) \o j] \o NoBlanks[c]
        BY <4>1, <4>2, NoBlanksTogether
      <4>4. NoBlanks[(n \o o) \o j] = NoBlanks[n \o o] \o NoBlanks[j]
        BY <3>12, <4>2, NoBlanksTogether
      <4>5. NoBlanks[n \o o] = NoBlanks[n] \o NoBlanks[o]
        BY <3>12, <4>1, NoBlanksTogether
      <4>6. QED
        BY <4>1, <4>2, <4>3, <4>4, <4>5
    <3>14. NoBlanks[t] = NoBlanks[h] \o (NoBlanks[o] \o (NoBlanks[inside] \o NoBlanks[c]))
      <4>1. o \in RawText /\ c \in RawText /\ t = h \o (o \o (inside \o c))
        BY <1>0, <3>11 DEF o, c
      <4>2. inside \o c \in RawText /\ o \o (inside \o c) \in RawText
        BY <3>12, <4>1, Together
      <4>3. NoBlanks[h \o (o \o (inside \o c))] = NoBlanks[h] \o NoBlanks[o \o (inside \o c)]
        BY <3>12, <4>2, NoBlanksTogether
      <4>4. NoBlanks[o \o (inside \o c)] = NoBlanks[o] \o NoBlanks[inside \o c]
        BY <4>1, <4>2, NoBlanksTogether
      <4>5. NoBlanks[inside \o c] = NoBlanks[inside] \o NoBlanks[c]
        BY <3>12, <4>1, NoBlanksTogether
      <4>6. QED
        BY <4>1, <4>3, <4>4, <4>5
    <3>15. ((NoBlanks[n] \o NoBlanks[o]) \o NoBlanks[j]) \o NoBlanks[c]
             = NoBlanks[h] \o (NoBlanks[o] \o (NoBlanks[inside] \o NoBlanks[c]))
      <4> DEFINE hh == NoBlanks[h]
                 oo == NoBlanks[o]
                 ii == NoBlanks[inside]
                 cc == NoBlanks[c]
      <4>1. hh \in RawText /\ oo \in RawText /\ ii \in RawText /\ cc \in RawText
        BY <1>0, <3>12, NoBlanksIsText DEF o, c
      <4> HIDE DEF hh, oo, ii, cc
      <4>2. hh \o oo \in RawText /\ ii \o cc \in RawText
        BY <4>1, Together
      <4>3. ((hh \o oo) \o ii) \o cc = (hh \o oo) \o (ii \o cc)
        <5> DEFINE m == hh \o oo
        <5>1. m \in RawText
          BY <4>2
        <5> HIDE DEF m
        <5>2. (m \o ii) \o cc = m \o (ii \o cc)
          BY <4>1, <5>1, Associates
        <5>3. QED
          BY <5>2 DEF m
      <4>4. (hh \o oo) \o (ii \o cc) = hh \o (oo \o (ii \o cc))
        BY <4>1, <4>2, Associates
      <4>5. ((hh \o oo) \o ii) \o cc = hh \o (oo \o (ii \o cc))
        BY <4>3, <4>4
      <4>6. NoBlanks[n] = hh /\ NoBlanks[j] = ii
        BY <3>12 DEF hh, ii
      <4>7. QED
        BY <4>5, <4>6 DEF hh, oo, ii, cc
    <3>16. QED
      BY <2>0, <3>13, <3>14, <3>15 DEF e
  <2>3. QED
    BY <1>1, <2>1, <2>2, ParseCases
<1>2. ASSUME NEW s \in RawText, \A t \in RawText : Len(t) < Len(s) => t \in T PROVE s \in T
  BY <1>1, <1>2
<1> HIDE DEF T
<1>3. RawText \subseteq T
  BY <1>2, LengthInduction
<1>4. QED
  BY <1>3, TypableIs DEF T

-----------------------------------------------------------------------------
(* How many parentheses are open, character by character.                  *)

Weight(c) == IF c = Opening THEN 1 ELSE IF c = Closing THEN -1 ELSE 0

Of(c, s, i) == {j \in 1 .. i : s[j] = c}

LEMMA OfIs ==
  ASSUME NEW c, NEW s
  PROVE  /\ \A i \in Nat : IsFiniteSet(Of(c, s, i)) /\ Cardinality(Of(c, s, i)) \in Nat
         /\ Cardinality(Of(c, s, 0)) = 0
         /\ \A i \in Nat \ {0} :
              Cardinality(Of(c, s, i)) = Cardinality(Of(c, s, i - 1)) + (IF s[i] = c THEN 1 ELSE 0)
<1>1. \A i \in Nat : IsFiniteSet(Of(c, s, i)) /\ Cardinality(Of(c, s, i)) \in Nat
  <2>1. ASSUME NEW i \in Nat
        PROVE  IsFiniteSet(Of(c, s, i)) /\ Cardinality(Of(c, s, i)) \in Nat
    <3>1. IsFiniteSet(1 .. i) /\ Of(c, s, i) \in SUBSET (1 .. i)
      BY FS_Interval DEF Of
    <3>2. IsFiniteSet(Of(c, s, i))
      BY <3>1, FS_Subset
    <3>3. QED
      BY <3>2, FS_CardinalityType
  <2>2. QED
    BY <2>1
<1>2. Of(c, s, 0) = {}
  BY DEF Of
<1>3. ASSUME NEW i \in Nat \ {0}
      PROVE  Cardinality(Of(c, s, i)) = Cardinality(Of(c, s, i - 1)) + (IF s[i] = c THEN 1 ELSE 0)
  <2> DEFINE S == Of(c, s, i - 1)
  <2>0. IsFiniteSet(S) /\ Cardinality(S) \in Nat /\ i \notin S
    BY <1>1 DEF Of
  <2>1. CASE s[i] = c
    <3>1. Of(c, s, i) = S \cup {i}
      BY <2>1 DEF Of
    <3> HIDE DEF S
    <3>2. Cardinality(S \cup {i}) = Cardinality(S) + 1
      BY <2>0, FS_AddElement
    <3>3. QED
      BY <2>1, <3>1, <3>2 DEF S
  <2>2. CASE s[i] # c
    <3>1. Of(c, s, i) = S
      BY <2>2 DEF Of
    <3> HIDE DEF S
    <3>2. QED
      BY <2>0, <2>2, <3>1 DEF S
  <2>3. QED
    BY <2>1, <2>2
<1>4. Cardinality(Of(c, s, 0)) = 0
  BY <1>2, FS_EmptySet
<1>5. QED
  BY <1>1, <1>3, <1>4

LEMMA DepthIs ==
  ASSUME NEW s
  PROVE  /\ depth(s, 0) = 0
         /\ \A i \in Nat : depth(s, i) \in Int
         /\ \A i \in Nat \ {0} : depth(s, i) = depth(s, i - 1) + Weight(s[i])
<1>1. \A i : depth(s, i) = Cardinality(Of(Opening, s, i)) - Cardinality(Of(Closing, s, i))
  BY DEF depth, Of, Opening, Closing
<1>2. Opening # Closing
  BY MarksAre
<1>3. ASSUME NEW i \in Nat PROVE depth(s, i) \in Int
  <2>1. Cardinality(Of(Opening, s, i)) \in Nat
    BY OfIs
  <2>2. Cardinality(Of(Closing, s, i)) \in Nat
    BY OfIs
  <2>3. QED
    BY <1>1, <2>1, <2>2
<1>4. depth(s, 0) = 0
  BY <1>1, OfIs
<1>5. ASSUME NEW i \in Nat \ {0} PROVE depth(s, i) = depth(s, i - 1) + Weight(s[i])
  <2> DEFINE o(j) == Cardinality(Of(Opening, s, j))
             c(j) == Cardinality(Of(Closing, s, j))
  <2>1. /\ o(i) = o(i - 1) + (IF s[i] = Opening THEN 1 ELSE 0)
        /\ c(i) = c(i - 1) + (IF s[i] = Closing THEN 1 ELSE 0)
    BY OfIs
  <2>2. o(i) \in Nat /\ o(i - 1) \in Nat /\ c(i) \in Nat /\ c(i - 1) \in Nat
    <3>1. i \in Nat /\ i - 1 \in Nat
      OBVIOUS
    <3>2. \A j \in Nat : o(j) \in Nat
      BY OfIs
    <3>3. \A j \in Nat : c(j) \in Nat
      BY OfIs
    <3> HIDE DEF o, c
    <3>4. QED
      BY <3>1, <3>2, <3>3
  <2>3. depth(s, i) = o(i) - c(i) /\ depth(s, i - 1) = o(i - 1) - c(i - 1)
    BY <1>1
  <2> HIDE DEF o, c
  <2>4. QED
    BY <1>2, <2>1, <2>2, <2>3 DEF Weight
<1>6. QED
  BY <1>3, <1>4, <1>5

LEMMA WeightIs == \A c : Weight(c) \in {-1, 0, 1}
BY DEF Weight

(* The depth in a text and in the one that follows it.                     *)
LEMMA DepthTogether ==
  ASSUME NEW s \in RawText, NEW t \in RawText
  PROVE  /\ \A i \in 0 .. Len(s) : depth(s \o t, i) = depth(s, i)
         /\ \A i \in 0 .. Len(t) : depth(s \o t, Len(s) + i) = depth(s, Len(s)) + depth(t, i)
<1> DEFINE u == s \o t
           m == Len(s)
           n == Len(t)
<1>1. /\ m \in Nat /\ n \in Nat
      /\ \A i \in 1 .. m : u[i] = s[i]
      /\ \A i \in 1 .. n : u[m + i] = t[i]
  BY Together
<1> HIDE DEF u, m, n
<1> DEFINE InFront(i) == depth(u, i) = depth(s, i)
           Rear(i) == depth(u, m + i) = depth(s, m) + depth(t, i)
           F == {i \in Nat : i <= m => InFront(i)}
           R == {i \in Nat : i <= n => Rear(i)}
<1>2. 0 \in F
  BY DepthIs
<1>3. ASSUME NEW i \in Nat, i \in F PROVE i + 1 \in F
  <2>1. ASSUME i + 1 <= m PROVE InFront(i + 1)
    <3>1. InFront(i) /\ u[i + 1] = s[i + 1]
      BY <1>1, <1>3, <2>1
    <3> DEFINE k == i + 1
    <3>2. k \in Nat \ {0} /\ k - 1 = i
      OBVIOUS
    <3> HIDE DEF k
    <3>3. depth(u, k) = depth(u, k - 1) + Weight(u[k]) /\ depth(s, k) = depth(s, k - 1) + Weight(s[k])
      BY <3>2, DepthIs
    <3>4. u[k] = s[k]
      BY <3>1 DEF k
    <3>5. depth(u, k) = depth(s, k)
      BY <3>1, <3>2, <3>3, <3>4
    <3>6. QED
      BY <3>5 DEF k
  <2>2. QED
    BY <2>1
<1> HIDE DEF F
<1>4. Nat \subseteq F
  BY <1>2, <1>3, NaturalInduction
<1>5. 0 \in R
  <2>1. depth(u, m) = depth(s, m) /\ depth(t, 0) = 0 /\ depth(s, m) \in Int
    BY <1>1, <1>4, DepthIs DEF F
  <2>2. m + 0 = m
    BY <1>1
  <2>3. QED
    BY <2>1, <2>2
<1>6. ASSUME NEW i \in Nat, i \in R PROVE i + 1 \in R
  <2>1. ASSUME i + 1 <= n PROVE Rear(i + 1)
    <3>1. Rear(i) /\ u[m + (i + 1)] = t[i + 1]
      BY <1>1, <1>6, <2>1
    <3> DEFINE k == i + 1
               l == m + k
    <3>2. k \in Nat \ {0} /\ k - 1 = i /\ l \in Nat \ {0} /\ l - 1 = m + i
      BY <1>1
    <3>3. u[l] = t[k]
      BY <3>1
    <3> HIDE DEF k, l
    <3>4. depth(u, l) = depth(u, l - 1) + Weight(u[l]) /\ depth(t, k) = depth(t, k - 1) + Weight(t[k])
      BY <3>2, DepthIs
    <3>5. depth(t, i) \in Int /\ depth(s, m) \in Int /\ Weight(t[k]) \in Int
      BY <1>1, DepthIs, WeightIs
    <3>6. depth(u, l) = depth(s, m) + depth(t, k)
      BY <3>1, <3>2, <3>3, <3>4, <3>5
    <3>7. QED
      BY <3>6 DEF k, l
  <2>2. QED
    BY <2>1
<1> HIDE DEF R
<1>7. Nat \subseteq R
  BY <1>5, <1>6, NaturalInduction
<1>8. QED
  BY <1>1, <1>4, <1>7 DEF F, R, u, m, n

(* A text that is read when l parentheses are open already: how many there *)
(* are behind it, whether there are ever fewer than none, and whether each *)
(* of its commas is between parentheses.                                   *)
Behaves(s, l) == \A i \in 1 .. Len(s) : l + depth(s, i) >= 0
Covers(s, l) == \A i \in 1 .. Len(s) : s[i] = Comma => l + depth(s, i) # 0
Final(s) == depth(s, Len(s))

LEMMA PrefixedDepth ==
  ASSUME NEW c \in Alphabet, NEW t \in RawText
  PROVE  LET s == <<c>> \o t
         IN  /\ Final(s) = Weight(c) + Final(t) /\ Final(t) \in Int
             /\ \A l \in Int : Behaves(s, l) <=> l + Weight(c) >= 0 /\ Behaves(t, l + Weight(c))
             /\ \A l \in Int : Covers(s, l) <=> (c = Comma => l # 0) /\ Covers(t, l + Weight(c))
<1> DEFINE h == <<c>>
           s == h \o t
           n == Len(t)
           w == Weight(c)
<1>1. h \in RawText /\ Len(h) = 1 /\ h[1] = c /\ n \in Nat /\ w \in Int
  BY Prefixed, LenProperties, WeightIs DEF RawText
<1> HIDE DEF h, w
<1>2. s \in RawText /\ Len(s) = 1 + n /\ s[1] = c /\ \A i \in 1 .. n : s[1 + i] = t[i]
  <2>1. /\ Len(h \o t) = Len(h) + Len(t) /\ h \o t \in RawText
        /\ \A i \in 1 .. Len(h) : (h \o t)[i] = h[i]
        /\ \A i \in 1 .. Len(t) : (h \o t)[Len(h) + i] = t[i]
    BY <1>1, Together
  <2>2. QED
    BY <1>1, <2>1
<1>3. /\ depth(s, 0) = depth(h, 0) /\ depth(s, 1) = depth(h, 1)
      /\ \A i \in 0 .. n : depth(s, 1 + i) = depth(h, 1) + depth(t, i)
  <2>1. /\ \A i \in 0 .. Len(h) : depth(h \o t, i) = depth(h, i)
        /\ \A i \in 0 .. Len(t) : depth(h \o t, Len(h) + i) = depth(h, Len(h)) + depth(t, i)
    BY <1>1, DepthTogether
  <2>2. QED
    BY <1>1, <2>1
<1>4. depth(h, 1) = w
  <2>1. depth(h, 1) = depth(h, 1 - 1) + Weight(h[1]) /\ depth(h, 0) = 0
    BY DepthIs
  <2>2. QED
    BY <1>1, <2>1 DEF w
<1>5. ASSUME NEW i \in 0 .. n PROVE depth(s, 1 + i) = w + depth(t, i) /\ depth(t, i) \in Int
  <2>1. i \in Nat
    BY <1>1
  <2>2. depth(t, i) \in Int
    BY <2>1, DepthIs
  <2>3. QED
    BY <1>3, <1>4, <2>2
<1>6. depth(s, 1) = w
  BY <1>3, <1>4
<1> HIDE DEF s, n
<1>7. Final(s) = w + Final(t) /\ Final(t) \in Int
  BY <1>1, <1>2, <1>5 DEF Final, n
<1>8. ASSUME NEW l \in Int PROVE Behaves(s, l) <=> l + w >= 0 /\ Behaves(t, l + w)
  <2>1. ASSUME Behaves(s, l) PROVE l + w >= 0 /\ Behaves(t, l + w)
    <3>1. 1 \in 1 .. Len(s)
      BY <1>1, <1>2
    <3>2. l + w >= 0
      BY <2>1, <3>1, <1>6 DEF Behaves
    <3>3. ASSUME NEW i \in 1 .. n PROVE (l + w) + depth(t, i) >= 0
      <4>1. 1 + i \in 1 .. Len(s) /\ i \in 0 .. n
        BY <1>1, <1>2
      <4>2. l + depth(s, 1 + i) >= 0
        BY <2>1, <4>1 DEF Behaves
      <4>3. QED
        BY <1>1, <1>5, <4>1, <4>2
    <3>4. QED
      BY <3>2, <3>3 DEF Behaves, n
  <2>2. ASSUME l + w >= 0, Behaves(t, l + w) PROVE Behaves(s, l)
    <3>1. ASSUME NEW j \in 1 .. Len(s) PROVE l + depth(s, j) >= 0
      <4>1. CASE j = 1
        BY <1>6, <2>2, <4>1
      <4>2. CASE j # 1
        <5> DEFINE i == j - 1
        <5>1. i \in 1 .. n /\ i \in 0 .. n /\ j = 1 + i
          BY <1>1, <1>2, <4>2
        <5> HIDE DEF i
        <5>2. (l + w) + depth(t, i) >= 0
          BY <2>2, <5>1 DEF Behaves, n
        <5>3. QED
          BY <1>1, <1>5, <5>1, <5>2
      <4>3. QED
        BY <4>1, <4>2
    <3>2. QED
      BY <3>1 DEF Behaves
  <2>3. QED
    BY <2>1, <2>2
<1>9. ASSUME NEW l \in Int PROVE Covers(s, l) <=> (c = Comma => l # 0) /\ Covers(t, l + w)
  <2>0. c = Comma => w = 0
    BY MarksAre DEF Weight, w
  <2>1. ASSUME Covers(s, l) PROVE (c = Comma => l # 0) /\ Covers(t, l + w)
    <3>1. 1 \in 1 .. Len(s)
      BY <1>1, <1>2
    <3>2. c = Comma => l + w # 0
      BY <2>1, <3>1, <1>2, <1>6 DEF Covers
    <3>3. ASSUME NEW i \in 1 .. n, t[i] = Comma PROVE (l + w) + depth(t, i) # 0
      <4>1. 1 + i \in 1 .. Len(s) /\ i \in 0 .. n /\ s[1 + i] = Comma
        BY <1>1, <1>2, <3>3
      <4>2. l + depth(s, 1 + i) # 0
        BY <2>1, <4>1 DEF Covers
      <4>3. QED
        BY <1>1, <1>5, <4>1, <4>2
    <3>4. QED
      BY <2>0, <3>2, <3>3 DEF Covers, n
  <2>2. ASSUME c = Comma => l # 0, Covers(t, l + w) PROVE Covers(s, l)
    <3>1. ASSUME NEW j \in 1 .. Len(s), s[j] = Comma PROVE l + depth(s, j) # 0
      <4>1. CASE j = 1
        BY <1>2, <1>6, <2>0, <2>2, <3>1, <4>1
      <4>2. CASE j # 1
        <5> DEFINE i == j - 1
        <5>1. i \in 1 .. n /\ i \in 0 .. n /\ j = 1 + i
          BY <1>1, <1>2, <4>2
        <5> HIDE DEF i
        <5>2. t[i] = Comma
          BY <1>2, <3>1, <5>1
        <5>3. (l + w) + depth(t, i) # 0
          BY <2>2, <5>1, <5>2 DEF Covers, n
        <5>4. QED
          BY <1>1, <1>5, <5>1, <5>3
      <4>3. QED
        BY <4>1, <4>2
    <3>2. QED
      BY <3>1 DEF Covers
  <2>3. QED
    BY <2>1, <2>2
<1>10. QED
  BY <1>7, <1>8, <1>9 DEF s, h, w

(* Blanks make no difference.                                              *)
LEMMA BlanksCloseNothing ==
  ASSUME NEW s \in RawText
  PROVE  /\ Final(NoBlanks[s]) = Final(s)
         /\ Behaves(NoBlanks[s], 0) <=> Behaves(s, 0)
         /\ Covers(NoBlanks[s], 0) <=> Covers(s, 0)
<1> DEFINE nb(t) == NoBlanks[t]
           T == {t \in RawText : /\ Final(nb(t)) = Final(t)
                                 /\ \A l \in Nat : Behaves(nb(t), l) <=> Behaves(t, l)
                                 /\ \A l \in Int : Covers(nb(t), l) <=> Covers(t, l)}
<1>1. <<>> \in T
  BY EmptyText, NoBlanksIs
<1>2. ASSUME NEW t \in RawText, t # <<>>, Tail(t) \in T PROVE t \in T
  <2> DEFINE c == Head(t)
             r == Tail(t)
  <2>1. c \in Alphabet /\ r \in RawText /\ t = <<c>> \o r /\ nb(t) = Inked(c) \o nb(r)
    BY <1>2, Uncons, NoBlanksIs
  <2>2. /\ Final(nb(r)) = Final(r)
        /\ \A l \in Nat : Behaves(nb(r), l) <=> Behaves(r, l)
        /\ \A l \in Int : Covers(nb(r), l) <=> Covers(r, l)
    BY <1>2
  <2>3. nb(r) \in RawText
    BY <2>1, NoBlanksIsText
  <2> HIDE DEF c, r, nb
  <2> DEFINE w == Weight(c)
  <2>3a. w \in Int
    BY WeightIs
  <2>4. /\ Final(t) = w + Final(r) /\ Final(r) \in Int
        /\ \A l \in Int : Behaves(t, l) <=> l + w >= 0 /\ Behaves(r, l + w)
        /\ \A l \in Int : Covers(t, l) <=> (c = Comma => l # 0) /\ Covers(r, l + w)
    <3>1. /\ Final((<<c>> \o r)) = w + Final(r) /\ Final(r) \in Int
          /\ \A l \in Int : Behaves((<<c>> \o r), l) <=> l + w >= 0 /\ Behaves(r, l + w)
          /\ \A l \in Int : Covers((<<c>> \o r), l) <=> (c = Comma => l # 0) /\ Covers(r, l + w)
      BY <2>1, PrefixedDepth
    <3> HIDE DEF w
    <3>2. t = <<c>> \o r
      BY <2>1
    <3>3. QED
      BY <3>1, <3>2
  <2>5. CASE c = Gap
    <3>1. nb(t) = nb(r)
      BY <2>1, <2>3, <2>5, EmptyText DEF Inked
    <3>2. w = 0 /\ c # Comma
      BY <2>5, MarksAre DEF Weight
    <3> HIDE DEF w
    <3>3. Final(nb(t)) = Final(t)
      BY <2>2, <2>3a, <2>4, <3>1, <3>2
    <3>4. \A l \in Nat : Behaves(nb(t), l) <=> Behaves(t, l)
      BY <2>2, <2>3a, <2>4, <3>1, <3>2
    <3>5. \A l \in Int : Covers(nb(t), l) <=> Covers(t, l)
      BY <2>2, <2>3a, <2>4, <3>1, <3>2
    <3>6. QED
      BY <3>3, <3>4, <3>5
  <2>6. CASE c # Gap
    <3>1. nb(t) = <<c>> \o nb(r)
      BY <2>1, <2>6 DEF Inked
    <3> DEFINE z == nb(r)
    <3>1a. z \in RawText
      BY <2>3
    <3> HIDE DEF z
    <3>1b. /\ Final((<<c>> \o z)) = w + Final(z)
           /\ \A l \in Int : Behaves((<<c>> \o z), l) <=> l + w >= 0 /\ Behaves(z, l + w)
           /\ \A l \in Int : Covers((<<c>> \o z), l) <=> (c = Comma => l # 0) /\ Covers(z, l + w)
      BY <2>1, <3>1a, PrefixedDepth
    <3>2. /\ Final(nb(t)) = w + Final(nb(r))
          /\ \A l \in Int : Behaves(nb(t), l) <=> l + w >= 0 /\ Behaves(nb(r), l + w)
          /\ \A l \in Int : Covers(nb(t), l) <=> (c = Comma => l # 0) /\ Covers(nb(r), l + w)
      BY <3>1, <3>1b DEF z
    <3> HIDE DEF w
    <3>3. Final(nb(t)) = Final(t)
      BY <2>2, <2>4, <3>2
    <3>4. ASSUME NEW l \in Nat PROVE Behaves(nb(t), l) <=> Behaves(t, l)
      <4>1. CASE l + w >= 0
        <5>1. l + w \in Nat
          BY <2>3a, <2>4, <4>1
        <5>2. QED
          BY <2>2, <2>4, <3>2, <5>1
      <4>2. CASE ~(l + w >= 0)
        BY <2>3a, <2>4, <3>2, <4>2
      <4>3. QED
        BY <4>1, <4>2
    <3>5. ASSUME NEW l \in Int PROVE Covers(nb(t), l) <=> Covers(t, l)
      <4>1. l + w \in Int
        BY <2>3a
      <4>2. QED
        BY <2>2, <2>4, <3>2, <4>1
    <3>6. QED
      BY <3>3, <3>4, <3>5
  <2>7. QED
    BY <2>5, <2>6
<1> HIDE DEF T
<1>3. RawText \subseteq T
  BY <1>1, <1>2, TextInduction
<1>4. QED
  BY <1>3 DEF T

LEMMA BalancedIs ==
  ASSUME NEW s \in RawText
  PROVE  /\ balanced(s) <=> Final(s) = 0 /\ Behaves(s, 0)
         /\ separators(s) = {} <=> Covers(s, 0)
<1>1. DOMAIN s = 1 .. Len(s) /\ Len(s) \in Nat
  BY LenProperties DEF RawText
<1>2. \A i \in 1 .. Len(s) : 0 + depth(s, i) = depth(s, i)
  <2>1. \A i \in Nat : depth(s, i) \in Int
    BY DepthIs
  <2>2. QED
    BY <1>1, <2>1
<1>3. balanced(s) <=> Final(s) = 0 /\ Behaves(s, 0)
  BY <1>1, <1>2 DEF balanced, Final, Behaves
<1>4. separators(s) = {} <=> Covers(s, 0)
  BY <1>1, <1>2 DEF separators, Covers, Comma
<1>5. QED
  BY <1>3, <1>4

LEMMA BalancedTogether ==
  ASSUME NEW p \in RawText, NEW q \in RawText
  PROVE  /\ Final(p \o q) = Final(p) + Final(q) /\ Final(p) \in Int /\ Final(q) \in Int
         /\ Final(p) = 0 => (balanced(p \o q) <=> balanced(p) /\ balanced(q))
<1> DEFINE s == p \o q
           m == Len(p)
           n == Len(q)
<1>1. s \in RawText /\ Len(s) = m + n /\ m \in Nat /\ n \in Nat
  BY Together
<1>2. /\ \A i \in 0 .. m : depth(s, i) = depth(p, i)
      /\ \A i \in 0 .. n : depth(s, m + i) = depth(p, m) + depth(q, i)
  BY DepthTogether
<1>3. \A i \in Nat : depth(p, i) \in Int
  BY DepthIs
<1>4. \A i \in Nat : depth(q, i) \in Int
  BY DepthIs
<1>5. /\ balanced(p) <=> Final(p) = 0 /\ Behaves(p, 0)
      /\ balanced(q) <=> Final(q) = 0 /\ Behaves(q, 0)
  BY BalancedIs
<1>6. balanced(s) <=> Final(s) = 0 /\ Behaves(s, 0)
  BY <1>1, BalancedIs
<1> HIDE DEF s
<1>7. /\ Final(s) = Final(p) + Final(q) /\ Final(p) \in Int /\ Final(q) \in Int
  <2>1. n \in 0 .. n
    BY <1>1
  <2>2. depth(s, m + n) = depth(p, m) + depth(q, n)
    BY <1>2, <2>1
  <2>3. QED
    BY <1>1, <1>3, <1>4, <2>2 DEF Final
<1>8. ASSUME Final(p) = 0 PROVE Behaves(s, 0) <=> Behaves(p, 0) /\ Behaves(q, 0)
  <2> HIDE DEF m, n
  <2>0. depth(p, m) = 0
    BY <1>8 DEF Final, m
  <2>1. ASSUME Behaves(s, 0), NEW i \in 1 .. m PROVE 0 + depth(p, i) >= 0
    <3>1. i \in 1 .. Len(s) /\ i \in 0 .. m
      BY <1>1
    <3>2. QED
      BY <1>2, <2>1, <3>1 DEF Behaves
  <2>2. ASSUME Behaves(s, 0), NEW i \in 1 .. n PROVE 0 + depth(q, i) >= 0
    <3>1. m + i \in 1 .. Len(s) /\ i \in 0 .. n /\ i \in Nat
      BY <1>1
    <3>2. 0 + depth(s, m + i) >= 0
      BY <2>2, <3>1 DEF Behaves
    <3>3. QED
      BY <1>2, <1>4, <2>0, <3>1, <3>2
  <2>3. ASSUME Behaves(p, 0), Behaves(q, 0), NEW j \in 1 .. Len(s) PROVE 0 + depth(s, j) >= 0
    <3>1. CASE j <= m
      <4>1. j \in 1 .. m /\ j \in 0 .. m
        BY <1>1, <3>1
      <4>2. 0 + depth(p, j) >= 0
        BY <2>3, <4>1 DEF Behaves, m
      <4>3. QED
        BY <1>2, <4>1, <4>2
    <3>2. CASE ~(j <= m)
      <4> DEFINE i == j - m
      <4>1. i \in 1 .. n /\ i \in 0 .. n /\ j = m + i /\ i \in Nat
        BY <1>1, <3>2
      <4> HIDE DEF i
      <4>2. 0 + depth(q, i) >= 0
        BY <2>3, <4>1 DEF Behaves, n
      <4>3. QED
        BY <1>2, <1>4, <2>0, <4>1, <4>2
    <3>3. QED
      BY <3>1, <3>2
  <2>4. QED
    BY <2>1, <2>2, <2>3 DEF Behaves, m, n
<1>9. QED
  BY <1>5, <1>6, <1>7, <1>8 DEF s

(* No parenthesis is closed that is not open.                              *)
LEMMA BehavesIs ==
  ASSUME NEW s \in RawText
  PROVE  Behaves(s, 0) <=> \A i \in 1 .. Len(s) : s[i] = Closing => depth(s, i - 1) > 0
<1>1. Len(s) \in Nat
  BY LenProperties DEF RawText
<1>2. \A i \in Nat : depth(s, i) \in Int
  BY DepthIs
<1>3. ASSUME NEW i \in 1 .. Len(s)
      PROVE  /\ depth(s, i) = depth(s, i - 1) + Weight(s[i]) /\ Weight(s[i]) \in {-1, 0, 1}
             /\ Weight(s[i]) = -1 <=> s[i] = Closing
             /\ depth(s, i) \in Int /\ depth(s, i - 1) \in Int
  <2>1. depth(s, i) = depth(s, i - 1) + Weight(s[i])
    BY <1>1, DepthIs
  <2>2. Weight(s[i]) = -1 <=> s[i] = Closing
    BY MarksAre DEF Weight
  <2>3. i \in Nat /\ i - 1 \in Nat
    BY <1>1
  <2>4. QED
    BY <1>2, <2>1, <2>2, <2>3, WeightIs
<1>4. ASSUME Behaves(s, 0), NEW i \in 1 .. Len(s), s[i] = Closing PROVE depth(s, i - 1) > 0
  <2>1. 0 + depth(s, i) >= 0
    BY <1>4 DEF Behaves
  <2>2. QED
    BY <1>3, <1>4, <2>1
<1>5. ASSUME \A i \in 1 .. Len(s) : s[i] = Closing => depth(s, i - 1) > 0 PROVE Behaves(s, 0)
  <2> DEFINE T == {i \in Nat : i <= Len(s) => depth(s, i) >= 0}
  <2>1. 0 \in T
    BY DepthIs
  <2>2. ASSUME NEW i \in Nat, i \in T PROVE i + 1 \in T
    <3>1. ASSUME i + 1 <= Len(s) PROVE depth(s, i + 1) >= 0
      <4> DEFINE k == i + 1
      <4>1. k \in 1 .. Len(s) /\ k - 1 = i /\ depth(s, i) >= 0
        BY <1>1, <2>2, <3>1
      <4> HIDE DEF k
      <4>2. depth(s, k) >= 0
        BY <1>3, <1>5, <4>1
      <4>3. QED
        BY <4>2 DEF k
    <3>2. QED
      BY <3>1
  <2> HIDE DEF T
  <2>3. Nat \subseteq T
    BY <2>1, <2>2, NaturalInduction
  <2>4. ASSUME NEW i \in 1 .. Len(s) PROVE 0 + depth(s, i) >= 0
    <3>1. i \in T
      BY <1>1, <2>3
    <3>2. QED
      BY <1>2, <3>1 DEF T
  <2>5. QED
    BY <2>4 DEF Behaves
<1>6. QED
  BY <1>4, <1>5

-----------------------------------------------------------------------------
(* Lists of arguments, put together and taken apart.                       *)

LEMMA MayFollowIs ==
  /\ MayFollow[Comma] = NameChar
  /\ MayFollow[Opening] = NameChar \cup {Closing}
  /\ MayFollow[Closing] = {Closing, Comma}
  /\ \A c \in NameChar : MayFollow[c] = NameChar \cup {Opening, Closing, Comma}
<1> DEFINE at(c) == CASE c = "," -> NameChar
                      [] c = "(" -> NameChar \cup {")"}
                      [] c = ")" -> {")", ","}
                      [] OTHER   -> NameChar \cup {"(", ")", ","}
<1>1. \A c \in Alphabet : MayFollow[c] = at(c)
  BY DEF MayFollow
<1> HIDE DEF at
<1>2. /\ MayFollow[Comma] = at(Comma) /\ MayFollow[Opening] = at(Opening)
      /\ MayFollow[Closing] = at(Closing)
  BY <1>1, MarksInAlphabet
<1>3. at(Comma) = NameChar
  BY DEF at, Comma
<1>4. at(Opening) = NameChar \cup {Closing}
  BY DEF at, Opening, Closing
<1>5. at(Closing) = {Closing, Comma}
  BY DEF at, Closing, Comma
<1>6. NameChar = Letters \cup {Brace}
  BY DEF NameChar, Brace
<1>7. ASSUME NEW c \in NameChar PROVE MayFollow[c] = NameChar \cup {Opening, Closing, Comma}
  <2>1. c \in Alphabet /\ c # Comma /\ c # Opening /\ c # Closing
    BY <1>6, MarksAre DEF Marks
  <2>2. at(c) = NameChar \cup {Opening, Closing, Comma}
    BY <2>1 DEF at, Opening, Closing, Comma
  <2>3. QED
    BY <1>1, <2>1, <2>2
<1>8. QED
  BY <1>2, <1>3, <1>4, <1>5, <1>7

LEMMA NameCharIs ==
  /\ NameChar = Letters \cup {Brace}
  /\ Comma \notin NameChar /\ Opening \notin NameChar /\ Closing \notin NameChar /\ Gap \notin NameChar
  /\ Alphabet = NameChar \cup {Gap, Comma, Opening, Closing}
<1>1. NameChar = Letters \cup {Brace}
  BY DEF NameChar, Brace
<1>2. QED
  BY <1>1, MarksAre DEF Marks

(* Each character and the one behind it.                                   *)
Pairs(R, t) == \A i \in 1 .. Len(t) - 1 : <<t[i], t[i + 1]>> \in R

LEMMA PairsTogether ==
  ASSUME NEW R, NEW p \in RawText, NEW q \in RawText, p # <<>>, q # <<>>
  PROVE  /\ Pairs(R, p \o q) <=> Pairs(R, p) /\ Pairs(R, q) /\ <<p[Len(p)], q[1]>> \in R
         /\ p \o q \in RawText /\ p \o q # <<>> /\ (p \o q)[1] = p[1]
         /\ (p \o q)[Len(p \o q)] = q[Len(q)]
<1> DEFINE s == p \o q
           m == Len(p)
           n == Len(q)
<1>1. /\ s \in RawText /\ Len(s) = m + n /\ m \in Nat /\ n \in Nat /\ m >= 1 /\ n >= 1
      /\ \A i \in 1 .. m : s[i] = p[i]
      /\ \A i \in 1 .. n : s[m + i] = q[i]
  BY Together, EmptyText
<1> HIDE DEF s, m, n
<1>2. s # <<>> /\ s[1] = p[1] /\ s[Len(s)] = q[n]
  <2>1. Len(s) >= 1
    BY <1>1
  <2>2. s # <<>>
    BY <2>1, EmptyText
  <2>3. QED
    BY <1>1, <2>2
<1>3. ASSUME Pairs(R, s), NEW i \in 1 .. m - 1 PROVE <<p[i], p[i + 1]>> \in R
  <2>1. i \in 1 .. Len(s) - 1 /\ s[i] = p[i] /\ s[i + 1] = p[i + 1]
    BY <1>1
  <2>2. QED
    BY <1>3, <2>1 DEF Pairs
<1>4. ASSUME Pairs(R, s), NEW i \in 1 .. n - 1 PROVE <<q[i], q[i + 1]>> \in R
  <2> DEFINE k == m + i
  <2>1. k \in 1 .. Len(s) - 1 /\ s[k] = q[i] /\ s[k + 1] = q[i + 1]
    <3>1. k \in 1 .. Len(s) - 1 /\ i \in 1 .. n /\ i + 1 \in 1 .. n /\ k + 1 = m + (i + 1)
      BY <1>1
    <3>2. s[m + (i + 1)] = q[i + 1]
      BY <1>1, <3>1
    <3>3. QED
      BY <1>1, <3>1, <3>2
  <2> HIDE DEF k
  <2>2. QED
    BY <1>4, <2>1 DEF Pairs
<1>5. s[m] = p[m] /\ s[m + 1] = q[1] /\ m \in 1 .. Len(s) - 1
  BY <1>1
<1>6. ASSUME Pairs(R, p), Pairs(R, q), <<p[m], q[1]>> \in R, NEW j \in 1 .. Len(s) - 1
      PROVE  <<s[j], s[j + 1]>> \in R
  <2>1. CASE j < m
    <3>1. j \in 1 .. m - 1 /\ s[j] = p[j] /\ s[j + 1] = p[j + 1]
      BY <1>1, <2>1
    <3>2. QED
      BY <1>6, <3>1 DEF Pairs, m
  <2>2. CASE j = m
    BY <1>5, <1>6, <2>2
  <2>3. CASE j > m
    <3> DEFINE i == j - m
    <3>1. i \in 1 .. n - 1 /\ i \in 1 .. n /\ i + 1 \in 1 .. n /\ j = m + i /\ j + 1 = m + (i + 1)
      BY <1>1, <2>3
    <3> HIDE DEF i
    <3>2. s[j] = q[i] /\ s[m + (i + 1)] = q[i + 1]
      BY <1>1, <3>1
    <3>3. <<q[i], q[i + 1]>> \in R
      BY <1>6, <3>1 DEF Pairs, n
    <3>4. QED
      BY <3>1, <3>2, <3>3
  <2>4. QED
    BY <1>1, <2>1, <2>2, <2>3
<1>7. Pairs(R, s) <=> Pairs(R, p) /\ Pairs(R, q) /\ <<p[m], q[1]>> \in R
  <2>1. ASSUME Pairs(R, s) PROVE Pairs(R, p) /\ Pairs(R, q) /\ <<p[m], q[1]>> \in R
    <3>1. Pairs(R, p)
      BY <1>3, <2>1 DEF Pairs, m
    <3>2. Pairs(R, q)
      BY <1>4, <2>1 DEF Pairs, n
    <3>3. <<s[m], s[m + 1]>> \in R
      BY <1>5, <2>1 DEF Pairs
    <3>4. QED
      BY <1>5, <3>1, <3>2, <3>3
  <2>2. ASSUME Pairs(R, p), Pairs(R, q), <<p[m], q[1]>> \in R PROVE Pairs(R, s)
    BY <1>6, <2>2 DEF Pairs
  <2>3. QED
    BY <2>1, <2>2
<1>8. QED
  BY <1>1, <1>2, <1>7 DEF s, m, n

(* Each character may follow the one before it.                            *)
Links(t) == \A i \in 1 .. Len(t) - 1 : t[i + 1] \in MayFollow[t[i]]

LEMMA LinksTogether ==
  ASSUME NEW p \in RawText, NEW q \in RawText, p # <<>>, q # <<>>
  PROVE  /\ Links(p \o q) <=> Links(p) /\ Links(q) /\ q[1] \in MayFollow[p[Len(p)]]
         /\ p \o q \in RawText /\ p \o q # <<>> /\ (p \o q)[1] = p[1]
         /\ (p \o q)[Len(p \o q)] = q[Len(q)]
<1> DEFINE R == {pair \in Alphabet \X Alphabet : pair[2] \in MayFollow[pair[1]]}
<1>1. \A c, d \in Alphabet : <<c, d>> \in R <=> d \in MayFollow[c]
  OBVIOUS
<1> HIDE DEF R
<1>2. ASSUME NEW t \in RawText PROVE Links(t) <=> Pairs(R, t)
  <2>1. ASSUME NEW i \in 1 .. Len(t) - 1 PROVE <<t[i], t[i + 1]>> \in R <=> t[i + 1] \in MayFollow[t[i]]
    <3>1. Len(t) \in Nat
      BY LenProperties DEF RawText
    <3>2. i \in 1 .. Len(t) /\ i + 1 \in 1 .. Len(t)
      BY <3>1
    <3>3. t[i] \in Alphabet /\ t[i + 1] \in Alphabet
      BY <3>2, Around
    <3>4. QED
      BY <1>1, <3>3
  <2>2. QED
    BY <2>1 DEF Links, Pairs
<1>3. /\ Pairs(R, p \o q) <=> Pairs(R, p) /\ Pairs(R, q) /\ <<p[Len(p)], q[1]>> \in R
      /\ p \o q \in RawText /\ p \o q # <<>> /\ (p \o q)[1] = p[1]
      /\ (p \o q)[Len(p \o q)] = q[Len(q)]
  BY PairsTogether
<1>4. p[Len(p)] \in Alphabet /\ q[1] \in Alphabet
  <2>1. Len(p) \in 1 .. Len(p) /\ 1 \in 1 .. Len(q)
    BY EmptyText, LenProperties DEF RawText
  <2>2. QED
    BY <2>1, Around
<1>5. (Links(p) <=> Pairs(R, p)) /\ (Links(q) <=> Pairs(R, q)) /\ (Links(p \o q) <=> Pairs(R, p \o q))
  BY <1>2, <1>3
<1>6. QED
  BY <1>1, <1>3, <1>4, <1>5

(* From i on, there is nothing but a name up to a parenthesis at j.        *)
Leads(t, i, j) == t[j] = Opening /\ \A k \in i .. j : t[k] \in NameChar \cup {Opening}

(* After a text that ends in something that is not a part of a name, and   *)
(* before one that begins with something that may not stand in the name of *)
(* a call, braces are where they should be if they are on either side.     *)
LEMMA BracesTogether ==
  ASSUME NEW p \in RawText, NEW q \in RawText,
         \/ p = <<>> \/ p[Len(p)] \notin NameChar
         \/ q = <<>> \/ q[1] \notin NameChar \cup {Opening}
  PROVE  BracesInCalls(p \o q) <=> BracesInCalls(p) /\ BracesInCalls(q)
<1> DEFINE s == p \o q
           m == Len(p)
           n == Len(q)
<1>1. /\ s \in RawText /\ Len(s) = m + n /\ m \in Nat /\ n \in Nat
      /\ \A i \in 1 .. m : s[i] = p[i]
      /\ \A i \in 1 .. n : s[m + i] = q[i]
      /\ p = <<>> => m = 0
      /\ q = <<>> => n = 0
  BY Together, EmptyText
<1>2. ASSUME NEW t \in RawText
      PROVE  BracesInCalls(t) <=>
               \A i \in 1 .. Len(t) : t[i] = Brace => \E j \in i .. Len(t) : Leads(t, i, j)
  <2>1. DOMAIN t = 1 .. Len(t)
    BY LenProperties DEF RawText
  <2>2. QED
    BY <2>1 DEF BracesInCalls, Leads, Brace, Opening
<1> HIDE DEF s
<1>3. ASSUME BracesInCalls(s), NEW i \in 1 .. m, p[i] = Brace PROVE \E j \in i .. m : Leads(p, i, j)
  <2>1. i \in 1 .. Len(s) /\ s[i] = Brace
    BY <1>1, <1>3
  <2>2. PICK j \in i .. Len(s) : Leads(s, i, j)
    BY <1>1, <1>2, <1>3, <2>1
  <2>3. CASE j <= m
    <3>1. j \in i .. m /\ s[j] = p[j] /\ \A k \in i .. j : s[k] = p[k]
      BY <1>1, <2>3
    <3>2. QED
      BY <2>2, <3>1 DEF Leads
  <2>4. CASE j > m
    <3>1. m \in i .. j /\ m + 1 \in i .. j /\ s[m] = p[m] /\ s[m + 1] = q[1] /\ n >= 1 /\ m >= 1
      BY <1>1, <2>4
    <3>2. p[m] \in NameChar \cup {Opening} /\ q[1] \in NameChar \cup {Opening}
      BY <2>2, <3>1 DEF Leads
    <3>3. p[m] = Opening
      BY <1>1, <3>1, <3>2
    <3>4. \A k \in i .. m : k \in i .. j /\ s[k] = p[k]
      BY <1>1, <2>4
    <3>5. m \in i .. m
      BY <1>1
    <3>6. QED
      BY <2>2, <3>3, <3>4, <3>5 DEF Leads
  <2>5. QED
    BY <1>1, <2>3, <2>4
<1>4. ASSUME BracesInCalls(s), NEW i \in 1 .. n, q[i] = Brace PROVE \E j \in i .. n : Leads(q, i, j)
  <2> DEFINE h == m + i
  <2>1. h \in 1 .. Len(s) /\ s[h] = Brace
    BY <1>1, <1>4
  <2> HIDE DEF h
  <2>2. PICK l \in h .. Len(s) : Leads(s, h, l)
    BY <1>1, <1>2, <1>4, <2>1
  <2> DEFINE j == l - m
  <2>3. j \in i .. n /\ l = m + j
    BY <1>1, <2>1, <2>2 DEF h
  <2> HIDE DEF j
  <2>4. s[l] = q[j]
    <3>1. j \in 1 .. n
      BY <1>1, <2>3
    <3>2. QED
      BY <1>1, <2>3, <3>1
  <2>5. ASSUME NEW k \in i .. j PROVE q[k] \in NameChar \cup {Opening}
    <3>1. k \in 1 .. n /\ m + k \in h .. l
      BY <1>1, <2>3 DEF h
    <3>2. s[m + k] = q[k]
      BY <1>1, <3>1
    <3>3. QED
      BY <2>2, <3>1, <3>2 DEF Leads
  <2>6. q[j] = Opening
    BY <2>2, <2>4 DEF Leads
  <2>7. QED
    BY <2>3, <2>5, <2>6 DEF Leads
<1>5. ASSUME BracesInCalls(p), BracesInCalls(q), NEW h \in 1 .. Len(s), s[h] = Brace
      PROVE  \E j \in h .. Len(s) : Leads(s, h, j)
  <2>1. CASE h <= m
    <3>1. h \in 1 .. m /\ p[h] = Brace
      BY <1>1, <1>5, <2>1
    <3>2. PICK j \in h .. m : Leads(p, h, j)
      BY <1>2, <1>5, <3>1
    <3>3. j \in h .. Len(s) /\ s[j] = p[j] /\ \A k \in h .. j : s[k] = p[k]
      BY <1>1, <3>2
    <3>4. QED
      BY <3>2, <3>3 DEF Leads
  <2>2. CASE h > m
    <3> DEFINE i == h - m
    <3>1. i \in 1 .. n /\ h = m + i
      BY <1>1, <2>2
    <3> HIDE DEF i
    <3>2. q[i] = Brace
      BY <1>1, <1>5, <3>1
    <3>3. PICK j \in i .. n : Leads(q, i, j)
      BY <1>2, <1>5, <3>1, <3>2
    <3> DEFINE l == m + j
    <3>4. l \in h .. Len(s) /\ s[l] = q[j]
      <4>1. j \in 1 .. n
        BY <1>1, <3>1, <3>3
      <4>2. s[m + j] = q[j]
        BY <1>1, <4>1
      <4>3. l \in h .. Len(s)
        BY <1>1, <3>1, <3>3
      <4>4. QED
        BY <4>2, <4>3
    <3>5. ASSUME NEW k \in h .. l PROVE s[k] \in NameChar \cup {Opening}
      <4> DEFINE a == k - m
      <4>1. a \in i .. j /\ a \in 1 .. n /\ k = m + a
        BY <1>1, <3>1, <3>3, <3>5
      <4> HIDE DEF a
      <4>2. s[k] = q[a]
        BY <1>1, <4>1
      <4>3. QED
        BY <3>3, <4>1, <4>2 DEF Leads
    <3> HIDE DEF l
    <3>6. s[l] = Opening
      BY <3>3, <3>4 DEF Leads
    <3>7. QED
      BY <3>4, <3>5, <3>6 DEF Leads
  <2>3. QED
    BY <1>1, <2>1, <2>2
<1>6. BracesInCalls(s) => BracesInCalls(p) /\ BracesInCalls(q)
  BY <1>2, <1>3, <1>4
<1>7. BracesInCalls(p) /\ BracesInCalls(q) => BracesInCalls(s)
  BY <1>1, <1>2, <1>5
<1>8. QED
  BY <1>6, <1>7 DEF s

LEMMA OneIs ==
  ASSUME NEW c \in Alphabet
  PROVE  /\ <<c>> \in RawText /\ <<c>> # <<>> /\ Len(<<c>>) = 1 /\ <<c>>[1] = c /\ <<c>>[Len(<<c>>)] = c
         /\ Links(<<c>>) /\ (c # Brace => BracesInCalls(<<c>>)) /\ Final(<<c>>) = Weight(c)
         /\ (Weight(c) = 0 => balanced(<<c>>))
<1> DEFINE t == <<c>>
<1>1. t \in RawText /\ t # <<>> /\ Len(t) = 1 /\ t[1] = c /\ DOMAIN t = 1 .. 1
  BY Prefixed DEF RawText
<1> HIDE DEF t
<1>2. Links(t)
  BY <1>1 DEF Links
<1>3. ASSUME c # Brace PROVE BracesInCalls(t)
  <2>1. \A i \in DOMAIN t : t[i] = c
    BY <1>1
  <2>2. c # "{"
    BY <1>3 DEF Brace
  <2>3. \A i \in DOMAIN t : t[i] # "{"
    BY <2>1, <2>2
  <2>4. QED
    BY <2>3 DEF BracesInCalls
<1>4. Final(t) = Weight(c)
  <2>1. depth(t, 1) = depth(t, 1 - 1) + Weight(t[1]) /\ depth(t, 0) = 0
    BY DepthIs
  <2>2. QED
    BY <1>1, <2>1, WeightIs DEF Final
<1>5. Weight(c) = 0 => balanced(t)
  <2>1. ASSUME Weight(c) = 0 PROVE Final(t) = 0 /\ Behaves(t, 0)
    BY <1>1, <1>4, <2>1 DEF Final, Behaves
  <2>2. QED
    BY <1>1, <2>1, BalancedIs
<1>6. QED
  BY <1>1, <1>2, <1>3, <1>4, <1>5 DEF t

(* What IsArguments asks for, without the commas around the text.          *)
Fits(t) ==
  /\ Links(t) /\ t[1] \in NameChar /\ Comma \in MayFollow[t[Len(t)]]
  /\ BracesInCalls(t) /\ balanced(t)

LEMMA ArgumentsAre ==
  ASSUME NEW t \in RawText
  PROVE  IsArguments(t) <=> t = <<>> \/ Fits(t)
<1> DEFINE c == <<Comma>>
           list == (c \o t) \o c
<1>1. CASE t = <<>>
  BY <1>1 DEF IsArguments
<1>2. CASE t # <<>>
  <2>1. /\ c \in RawText /\ c # <<>> /\ Len(c) = 1 /\ c[1] = Comma /\ c[Len(c)] = Comma
        /\ Links(c) /\ BracesInCalls(c)
    BY OneIs, MarksInAlphabet, MarksAre
  <2> HIDE DEF c
  <2>2. /\ Links(c \o t) <=> Links(t) /\ t[1] \in NameChar
        /\ c \o t \in RawText /\ c \o t # <<>> /\ (c \o t)[Len(c \o t)] = t[Len(t)]
    BY <1>2, <2>1, LinksTogether, MayFollowIs
  <2>3. BracesInCalls(c \o t) <=> BracesInCalls(t)
    BY <2>1, BracesTogether, NameCharIs
  <2> DEFINE u == c \o t
  <2>4. /\ Links(u) <=> Links(t) /\ t[1] \in NameChar
        /\ u \in RawText /\ u # <<>> /\ u[Len(u)] = t[Len(t)]
        /\ BracesInCalls(u) <=> BracesInCalls(t)
    BY <2>2, <2>3
  <2> HIDE DEF u
  <2>5. /\ Links(u \o c) <=> Links(u) /\ Comma \in MayFollow[t[Len(t)]]
        /\ u \o c \in RawText
    BY <2>1, <2>4, LinksTogether
  <2>6. BracesInCalls(u \o c) <=> BracesInCalls(u)
    <3>1. c[1] \notin NameChar \cup {Opening}
      BY <2>1, NameCharIs, MarksAre
    <3>2. QED
      BY <2>1, <2>4, <3>1, BracesTogether
  <2>7. list = u \o c
    BY DEF u
  <2>8. /\ Links(list) <=> Links(t) /\ t[1] \in NameChar /\ Comma \in MayFollow[t[Len(t)]]
        /\ BracesInCalls(list) <=> BracesInCalls(t)
    BY <2>4, <2>5, <2>6, <2>7
  <2> HIDE DEF list
  <2>9. balanced(t) <=> Final(t) = 0 /\ \A i \in 1 .. Len(t) : t[i] = Closing => depth(t, i - 1) > 0
    BY BalancedIs, BehavesIs
  <2>10. DOMAIN t = 1 .. Len(t)
    BY LenProperties DEF RawText
  <2>11. list = <<",">> \o t \o <<",">>
    BY DEF list, c, Comma
  <2>12. IsArguments(t) <=>
           /\ \A i \in 1 .. Len(list) - 1 : list[i + 1] \in MayFollow[list[i]]
           /\ BracesInCalls(list)
           /\ depth(t, Len(t)) = 0
           /\ \A i \in DOMAIN t : t[i] = ")" => depth(t, i - 1) > 0
    BY <1>2, <2>11 DEF IsArguments
  <2>13. IsArguments(t) <=>
           /\ Links(list) /\ BracesInCalls(list) /\ Final(t) = 0
           /\ \A i \in 1 .. Len(t) : t[i] = Closing => depth(t, i - 1) > 0
    BY <2>10, <2>12 DEF Links, Final, Closing
  <2>14. QED
    BY <1>2, <2>8, <2>9, <2>13 DEF Fits
<1>3. QED
  BY <1>1, <1>2

(* A list of arguments that begins with one of them.                       *)
LEMMA FitsTogether ==
  ASSUME NEW p \in RawText, NEW q \in RawText, Final(p) = 0
  PROVE  LET s == p \o (<<Comma>> \o q)
         IN  Fits(s) <=> p # <<>> /\ q # <<>> /\ Fits(p) /\ Fits(q)
<1> DEFINE c == <<Comma>>
           r == c \o q
           s == p \o r
<1>1. /\ c \in RawText /\ c # <<>> /\ Len(c) = 1 /\ c[1] = Comma /\ c[Len(c)] = Comma
      /\ Links(c) /\ BracesInCalls(c) /\ Final(c) = 0 /\ balanced(c)
  <2>1. Weight(Comma) = 0
    BY MarksAre DEF Weight
  <2>2. QED
    BY <2>1, OneIs, MarksInAlphabet, MarksAre
<1>2. Comma \notin NameChar /\ Comma \notin NameChar \cup {Opening} /\ MayFollow[Comma] = NameChar
  BY NameCharIs, MarksAre, MayFollowIs
<1> HIDE DEF c
<1>3. r \in RawText /\ r # <<>> /\ r[1] = Comma /\ (BracesInCalls(r) <=> BracesInCalls(q))
      /\ (balanced(r) <=> balanced(q))
  <2>1. /\ Len(c \o q) = Len(c) + Len(q) /\ Len(q) \in Nat /\ c \o q \in RawText
        /\ \A i \in 1 .. Len(c) : (c \o q)[i] = c[i]
    BY <1>1, Together
  <2>2. c \o q # <<>> /\ (c \o q)[1] = Comma
    BY <1>1, <2>1, EmptyText
  <2>3. BracesInCalls(c \o q) <=> BracesInCalls(c) /\ BracesInCalls(q)
    BY <1>1, <1>2, BracesTogether
  <2>4. balanced(c \o q) <=> balanced(c) /\ balanced(q)
    BY <1>1, BalancedTogether
  <2>5. QED
    BY <1>1, <2>1, <2>2, <2>3, <2>4
<1>4. q # <<>> => r[Len(r)] = q[Len(q)] /\ (Links(r) <=> Links(q) /\ q[1] \in NameChar)
  BY <1>1, <1>2, LinksTogether
<1>5. q = <<>> => r[Len(r)] = Comma
  BY <1>1, EmptyText
<1> HIDE DEF r
<1>6. /\ BracesInCalls(s) <=> BracesInCalls(p) /\ BracesInCalls(q)
      /\ balanced(s) <=> balanced(p) /\ balanced(q)
  <2>1. r[1] \notin NameChar \cup {Opening}
    BY <1>2, <1>3
  <2>2. BracesInCalls(s) <=> BracesInCalls(p) /\ BracesInCalls(r)
    BY <1>3, <2>1, BracesTogether
  <2>3. balanced(s) <=> balanced(p) /\ balanced(r)
    BY <1>3, BalancedTogether
  <2>4. QED
    BY <1>3, <2>2, <2>3
<1>7. CASE p = <<>>
  <2>1. s = r
    BY <1>3, <1>7, EmptyText
  <2>2. ~Fits(s)
    BY <1>2, <1>3, <2>1 DEF Fits
  <2>3. QED
    BY <1>7, <2>2 DEF r, c
<1>8. CASE p # <<>>
  <2>1. /\ Links(s) <=> Links(p) /\ Links(r) /\ Comma \in MayFollow[p[Len(p)]]
        /\ s[1] = p[1] /\ s[Len(s)] = r[Len(r)]
    BY <1>3, <1>8, LinksTogether
  <2> HIDE DEF s
  <2>2. CASE q = <<>>
    <3>1. ~Fits(s)
      BY <1>2, <1>5, <2>1, <2>2 DEF Fits
    <3>2. QED
      BY <2>2, <3>1 DEF s, r, c
  <2>3. CASE q # <<>>
    <3>1. Fits(s) <=> Fits(p) /\ Fits(q)
      BY <1>4, <1>6, <2>1, <2>3 DEF Fits
    <3>2. QED
      BY <1>8, <2>3, <3>1 DEF s, r, c
  <2>4. QED
    BY <2>2, <2>3
<1>9. QED
  BY <1>7, <1>8

-----------------------------------------------------------------------------
(* A single argument.                                                      *)

LEMMA ClosedAlike ==
  \A c \in Alphabet : /\ Comma \in MayFollow[c] => Closing \in MayFollow[c]
                      /\ Closing \in MayFollow[c] /\ c # Opening => Comma \in MayFollow[c]
<1>1. MayFollow[Gap] = NameChar \cup {Opening, Closing, Comma}
  BY MarksInAlphabet DEF MayFollow, Gap, Opening, Closing, Comma
<1>2. /\ Comma \notin MayFollow[Comma] /\ Closing \notin MayFollow[Comma]
      /\ Comma \notin MayFollow[Opening]
  BY MayFollowIs, NameCharIs, MarksAre
<1>3. Closing \in MayFollow[Closing] /\ Comma \in MayFollow[Closing]
  BY MayFollowIs
<1>4. \A c \in NameChar \cup {Gap} : Closing \in MayFollow[c] /\ Comma \in MayFollow[c]
  BY <1>1, MayFollowIs
<1>5. QED
  BY <1>2, <1>3, <1>4, NameCharIs

(* One more character, one more step of the depth.                         *)
LEMMA DepthStep ==
  ASSUME NEW s, NEW i \in Nat \ {0}
  PROVE  /\ depth(s, i) = depth(s, i - 1) + Weight(s[i]) /\ Weight(s[i]) \in {-1, 0, 1}
         /\ Weight(s[i]) = -1 <=> s[i] = Closing
         /\ Weight(s[i]) = 1 <=> s[i] = Opening
         /\ depth(s, i) \in Int /\ depth(s, i - 1) \in Int
<1>1. depth(s, i) = depth(s, i - 1) + Weight(s[i])
  BY DepthIs
<1>2. (Weight(s[i]) = -1 <=> s[i] = Closing) /\ (Weight(s[i]) = 1 <=> s[i] = Opening)
  BY MarksAre DEF Weight
<1>3. i \in Nat /\ i - 1 \in Nat /\ \A j \in Nat : depth(s, j) \in Int
  BY DepthIs
<1>4. QED
  BY <1>1, <1>2, <1>3, WeightIs

LEMMA BehavesAt ==
  ASSUME NEW s \in RawText, Behaves(s, 0)
  PROVE  \A i \in 0 .. Len(s) : depth(s, i) >= 0
<1>1. ASSUME NEW i \in 0 .. Len(s) PROVE depth(s, i) >= 0
  <2>1. Len(s) \in Nat /\ depth(s, i) \in Int
    <3>1. Len(s) \in Nat
      BY LenProperties DEF RawText
    <3>2. QED
      BY <3>1, DepthIs
  <2>2. CASE i = 0
    BY <2>2, DepthIs
  <2>3. CASE i # 0
    <3>1. 0 + depth(s, i) >= 0
      BY <2>1, <2>3 DEF Behaves
    <3>2. QED
      BY <2>1, <3>1
  <2>4. QED
    BY <2>2, <2>3
<1>2. QED
  BY <1>1

LEMMA BalancedEnds ==
  ASSUME NEW s \in RawText, s # <<>>, balanced(s)
  PROVE  s[1] # Closing /\ s[Len(s)] # Opening
<1> DEFINE n == Len(s)
<1>1. n \in Nat /\ n >= 1
  BY EmptyText, LenProperties DEF RawText
<1>2. depth(s, n) = 0 /\ \A i \in 0 .. n : depth(s, i) >= 0
  BY BalancedIs, BehavesAt DEF Final
<1> HIDE DEF n
<1>3. s[1] # Closing
  <2>1. depth(s, 1) = depth(s, 1 - 1) + Weight(s[1]) /\ (Weight(s[1]) = -1 <=> s[1] = Closing)
        /\ depth(s, 0) = 0
    BY DepthStep, DepthIs
  <2>2. depth(s, 1) >= 0
    BY <1>1, <1>2
  <2>3. QED
    BY <2>1, <2>2
<1>4. s[n] # Opening
  <2>1. /\ depth(s, n) = depth(s, n - 1) + Weight(s[n]) /\ (Weight(s[n]) = 1 <=> s[n] = Opening)
        /\ depth(s, n - 1) \in Int
    BY <1>1, DepthStep
  <2>2. depth(s, n - 1) >= 0
    BY <1>1, <1>2
  <2>3. QED
    BY <1>2, <2>1, <2>2
<1>5. QED
  BY <1>3, <1>4 DEF n

(* Up to the first parenthesis there is only a name, unless there is a     *)
(* blank or a comma that separates.                                        *)
Solid(s) == \A i \in 1 .. Len(s) : s[i] # Gap

LEMMA FlatIs ==
  ASSUME NEW s \in RawText, NEW n \in Nat, n <= Len(s), Behaves(s, 0), Covers(s, 0), Solid(s),
         \A i \in 1 .. n : s[i] # Opening
  PROVE  depth(s, n) = 0 /\ \A i \in 1 .. n : s[i] \in NameChar
<1>0. Len(s) \in Nat
  BY LenProperties DEF RawText
<1> DEFINE T == {i \in Nat : i <= n => depth(s, i) = 0 /\ (i >= 1 => s[i] \in NameChar)}
<1>1. 0 \in T
  BY DepthIs
<1>2. ASSUME NEW i \in Nat, i \in T PROVE i + 1 \in T
  <2>1. ASSUME i + 1 <= n PROVE depth(s, i + 1) = 0 /\ s[i + 1] \in NameChar
    <3> DEFINE k == i + 1
    <3>1. k \in 1 .. n /\ k \in Nat \ {0} /\ k - 1 = i /\ depth(s, i) = 0 /\ k \in 1 .. Len(s)
          /\ k \in 0 .. Len(s)
      BY <1>0, <1>2, <2>1
    <3> HIDE DEF k
    <3>2. /\ depth(s, k) = depth(s, k - 1) + Weight(s[k]) /\ Weight(s[k]) \in {-1, 0, 1}
          /\ Weight(s[k]) = -1 <=> s[k] = Closing
          /\ Weight(s[k]) = 1 <=> s[k] = Opening
      BY <3>1, DepthStep
    <3>3. depth(s, k) >= 0 /\ s[k] # Opening
      BY <3>1, BehavesAt
    <3>4. depth(s, k) = 0 /\ s[k] # Closing
      BY <3>1, <3>2, <3>3
    <3>5. s[k] # Comma /\ s[k] # Gap
      BY <3>1, <3>4 DEF Covers, Solid
    <3>6. s[k] \in Alphabet
      BY <3>1, Around
    <3>7. s[k] \in NameChar
      BY <3>3, <3>4, <3>5, <3>6, NameCharIs
    <3>8. QED
      BY <3>4, <3>7 DEF k
  <2>2. QED
    BY <2>1
<1> HIDE DEF T
<1>3. Nat \subseteq T
  BY <1>1, <1>2, NaturalInduction
<1>4. QED
  BY <1>3 DEF T

(* A name has nothing in it that may not be there.                         *)
LEMMA NameFits ==
  ASSUME NEW s \in RawText, s # <<>>, \A i \in 1 .. Len(s) : s[i] \in NameChar
  PROVE  Links(s) /\ s[1] \in NameChar /\ s[Len(s)] \in NameChar
<1>1. Len(s) \in Nat /\ Len(s) >= 1
  BY EmptyText, LenProperties DEF RawText
<1>2. ASSUME NEW i \in 1 .. Len(s) - 1 PROVE s[i + 1] \in MayFollow[s[i]]
  <2>1. i \in 1 .. Len(s) /\ i + 1 \in 1 .. Len(s)
    BY <1>1
  <2>2. s[i] \in NameChar /\ s[i + 1] \in NameChar
    BY <2>1
  <2>3. QED
    BY <2>2, MayFollowIs
<1>3. QED
  BY <1>1, <1>2 DEF Links

LEMMA ExpressionIs ==
  ASSUME NEW s \in RawText
  PROVE  /\ ~HasOpen(s) => (IsExpression(s) <=> s # <<>> /\ \A i \in 1 .. Len(s) : s[i] \in Letters)
         /\ HasOpen(s) => (IsExpression(s) <=>
                             FirstOpen(s) > 1 /\ Last(s) = Closing /\ IsArguments(Inside(s)))
<1>1. DOMAIN s = 1 .. Len(s) /\ Len(s) \in Nat
  BY LenProperties DEF RawText
<1>2. "(" \notin ToSet(s) <=> ~HasOpen(s)
  BY <1>1 DEF ToSet, HasOpen, Opening
<1>3. ToSet(s) \subseteq Letters <=> \A i \in 1 .. Len(s) : s[i] \in Letters
  BY <1>1 DEF ToSet
<1>4. QED
  BY <1>2, <1>3 DEF IsExpression, Inside, Closing

LEMMA NameAlone ==
  ASSUME NEW s \in RawText, Covers(s, 0), Solid(s), ~HasOpen(s)
  PROVE  balanced(s) /\ IsExpression(s) <=> s # <<>> /\ Fits(s)
<1>0. IsExpression(s) <=> s # <<>> /\ \A i \in 1 .. Len(s) : s[i] \in Letters
  BY ExpressionIs
<1>1. Len(s) \in Nat
  BY LenProperties DEF RawText
<1>2. ASSUME balanced(s), IsExpression(s) PROVE s # <<>> /\ Fits(s)
  <2>1. \A i \in 1 .. Len(s) : s[i] \in NameChar /\ s[i] # Brace
    BY <1>0, <1>2, NameCharIs, MarksAre DEF Marks
  <2>2. Links(s) /\ s[1] \in NameChar /\ s[Len(s)] \in NameChar
    BY <1>0, <1>2, <2>1, NameFits
  <2>3. Comma \in MayFollow[s[Len(s)]]
    BY <2>2, MayFollowIs
  <2>4. \A i \in DOMAIN s : s[i] # "{"
    <3>1. DOMAIN s = 1 .. Len(s)
      BY LenProperties DEF RawText
    <3>2. \A i \in DOMAIN s : s[i] # Brace
      BY <2>1, <3>1
    <3>3. QED
      BY <3>2 DEF Brace
  <2>5. BracesInCalls(s)
    BY <2>4 DEF BracesInCalls
  <2>6. QED
    BY <1>0, <1>2, <2>2, <2>3, <2>5 DEF Fits
<1>3. ASSUME s # <<>>, Fits(s) PROVE balanced(s) /\ IsExpression(s)
  <2>1. balanced(s) /\ Behaves(s, 0) /\ BracesInCalls(s)
    BY <1>3, BalancedIs DEF Fits
  <2>2. \A i \in 1 .. Len(s) : s[i] # Opening
    BY DEF HasOpen
  <2>3. \A i \in 1 .. Len(s) : s[i] \in NameChar
    BY <1>1, <2>1, <2>2, FlatIs
  <2>4. \A i \in 1 .. Len(s) : s[i] # Brace
    <3>1. ASSUME NEW i \in 1 .. Len(s), s[i] = Brace PROVE FALSE
      <4>1. DOMAIN s = 1 .. Len(s)
        BY LenProperties DEF RawText
      <4>2. PICK j \in i .. Len(s) : s[j] = Opening
        BY <2>1, <3>1, <4>1 DEF BracesInCalls, Brace, Opening
      <4>3. QED
        BY <1>1, <2>2, <4>2
    <3>2. QED
      BY <3>1
  <2>5. \A i \in 1 .. Len(s) : s[i] \in Letters
    BY <2>3, <2>4, NameCharIs
  <2>6. QED
    BY <1>0, <1>3, <2>1, <2>5
<1>4. QED
  BY <1>2, <1>3

(* A call by itself, put together.                                         *)
LEMMA CallFits ==
  ASSUME NEW h \in RawText, NEW z \in RawText, h # <<>>, \A i \in 1 .. Len(h) : h[i] \in NameChar,
         IsArguments(z)
  PROVE  LET s == h \o (<<Opening>> \o (z \o <<Closing>>))
         IN  s # <<>> /\ (balanced(s) => Fits(s))
<1> DEFINE o == <<Opening>>
           c == <<Closing>>
           y == z \o c
           x == o \o y
           s == h \o x
<1>1. /\ o \in RawText /\ o # <<>> /\ Len(o) = 1 /\ o[1] = Opening /\ o[Len(o)] = Opening
      /\ Links(o) /\ BracesInCalls(o)
  BY OneIs, MarksInAlphabet, MarksAre
<1>2. /\ c \in RawText /\ c # <<>> /\ Len(c) = 1 /\ c[1] = Closing /\ c[Len(c)] = Closing
      /\ Links(c) /\ BracesInCalls(c)
  BY OneIs, MarksInAlphabet, MarksAre
<1> HIDE DEF o, c
<1>3. z # <<>> => Fits(z)
  BY ArgumentsAre
<1>4. Closing \in MayFollow[Opening] /\ NameChar \subseteq MayFollow[Opening]
      /\ Comma \in MayFollow[Closing]
  BY MayFollowIs
<1>5. /\ y \in RawText /\ y # <<>> /\ Links(y) /\ y[1] \in MayFollow[Opening] /\ y[Len(y)] = Closing
      /\ BracesInCalls(y)
  <2>1. CASE z = <<>>
    <3>1. z \o c = c
      BY <1>2, <2>1, EmptyText
    <3>2. QED
      BY <1>2, <1>4, <3>1
  <2>2. CASE z # <<>>
    <3>1. /\ Links(z \o c) <=> Links(z) /\ Links(c) /\ Closing \in MayFollow[z[Len(z)]]
          /\ z \o c \in RawText /\ z \o c # <<>> /\ (z \o c)[1] = z[1]
          /\ (z \o c)[Len(z \o c)] = Closing
      BY <1>2, <2>2, LinksTogether
    <3>2. Links(z) /\ z[1] \in NameChar /\ Comma \in MayFollow[z[Len(z)]] /\ BracesInCalls(z)
      BY <1>3, <2>2 DEF Fits
    <3>3. z[Len(z)] \in Alphabet
      <4>1. Len(z) \in 1 .. Len(z)
        BY <2>2, EmptyText, LenProperties DEF RawText
      <4>2. QED
        BY <4>1, Around
    <3>4. Closing \in MayFollow[z[Len(z)]]
      BY <3>2, <3>3, ClosedAlike
    <3>5. c[1] \notin NameChar \cup {Opening}
      BY <1>2, NameCharIs, MarksAre
    <3>6. BracesInCalls(z \o c)
      BY <1>2, <3>2, <3>5, BracesTogether
    <3>7. QED
      BY <1>2, <1>4, <3>1, <3>2, <3>4, <3>6
  <2>3. QED
    BY <2>1, <2>2
<1>6. h[1] \in NameChar /\ Links(h) /\ Opening \in MayFollow[h[Len(h)]]
  BY NameFits, MayFollowIs
<1> HIDE DEF y
<1>7. x \in RawText /\ x # <<>> /\ Links(x) /\ x[1] = Opening /\ x[Len(x)] = Closing
  BY <1>1, <1>5, LinksTogether
<1>8. s = (h \o o) \o y
  BY <1>1, <1>5, Associates
<1>9. BracesInCalls(h \o o)
  <2> DEFINE p == h \o o
             n == Len(h)
  <2>1. /\ p \in RawText /\ Len(p) = n + 1 /\ n \in Nat /\ p[n + 1] = Opening
        /\ \A i \in 1 .. n : p[i] = h[i]
    <3>1. /\ h \o o \in RawText /\ Len(h \o o) = Len(h) + Len(o) /\ Len(h) \in Nat
          /\ \A i \in 1 .. Len(h) : (h \o o)[i] = h[i]
          /\ \A i \in 1 .. Len(o) : (h \o o)[Len(h) + i] = o[i]
      BY <1>1, Together
    <3>2. QED
      BY <1>1, <3>1
  <2> HIDE DEF p
  <2>2. \A k \in 1 .. n + 1 : p[k] \in NameChar \cup {Opening}
    <3>1. ASSUME NEW k \in 1 .. n + 1 PROVE p[k] \in NameChar \cup {Opening}
      <4>1. CASE k = n + 1
        BY <2>1, <4>1
      <4>2. CASE k # n + 1
        <5>1. k \in 1 .. n
          BY <2>1, <4>2
        <5>2. QED
          BY <2>1, <5>1
      <4>3. QED
        BY <4>1, <4>2
    <3>2. QED
      BY <3>1
  <2>3. DOMAIN p = 1 .. Len(p)
    BY <2>1, LenProperties DEF RawText
  <2> HIDE DEF n
  <2>4. ASSUME NEW i \in DOMAIN p
        PROVE  \E j \in i .. Len(p) : p[j] = Opening /\ \A k \in i .. j : p[k] \in NameChar \cup {Opening}
    <3>1. n + 1 \in i .. Len(p) /\ \A k \in i .. n + 1 : k \in 1 .. n + 1
      BY <2>1, <2>3
    <3>2. QED
      BY <2>1, <2>2, <3>1
  <2>5. BracesInCalls(p)
    BY <2>4 DEF BracesInCalls, Opening
  <2>6. QED
    BY <2>5 DEF p
<1>10. BracesInCalls((h \o o) \o y)
  <2> DEFINE p == h \o o
  <2>1. p \in RawText /\ p # <<>> /\ p[Len(p)] = Opening
    BY <1>1, LinksTogether
  <2> HIDE DEF p
  <2>2. p[Len(p)] \notin NameChar
    BY <2>1, NameCharIs
  <2>3. BracesInCalls(p \o y) <=> BracesInCalls(p) /\ BracesInCalls(y)
    BY <1>5, <2>1, <2>2, BracesTogether
  <2>4. QED
    BY <1>5, <1>9, <2>3 DEF p
<1> HIDE DEF x
<1>11. s \in RawText /\ s # <<>> /\ Links(s) /\ s[1] \in NameChar /\ s[Len(s)] = Closing
  BY <1>6, <1>7, LinksTogether
<1> HIDE DEF s
<1>12. balanced(s) => Fits(s)
  BY <1>4, <1>8, <1>10, <1>11 DEF Fits
<1>13. QED
  BY <1>11, <1>12 DEF s, x, y, o, c

(* A call by itself, taken apart.  Its first parenthesis stays open up to  *)
(* the last character: what closed it before would be followed by a comma  *)
(* that separates, or by another closing parenthesis.                      *)
LEMMA OpenUpToTheEnd ==
  ASSUME NEW s \in RawText, Covers(s, 0), Solid(s), HasOpen(s), Fits(s)
  PROVE  /\ FirstOpen(s) > 1 /\ FirstOpen(s) < Len(s) /\ s[Len(s)] = Closing /\ Len(s) \in Nat
         /\ FirstOpen(s) \in Nat
         /\ \A i \in FirstOpen(s) .. Len(s) - 1 : depth(s, i) >= 1
         /\ depth(s, FirstOpen(s)) = 1 /\ depth(s, Len(s) - 1) = 1
<1> DEFINE open == FirstOpen(s)
           n == Len(s)
<1>1. open \in 1 .. n /\ n \in Nat /\ s[open] = Opening /\ \A i \in 1 .. open - 1 : s[i] # Opening
  BY OpenIs
<1>2. Links(s) /\ s[1] \in NameChar /\ balanced(s) /\ Behaves(s, 0) /\ Final(s) = 0
  BY BalancedIs DEF Fits
<1> HIDE DEF open
<1>3. open > 1
  <2>1. s[1] # Opening
    BY <1>2, NameCharIs
  <2>2. QED
    BY <1>1, <2>1
<1>4. depth(s, open) = 1
  <2>1. open - 1 \in Nat /\ open - 1 <= Len(s) /\ open \in Nat \ {0}
    BY <1>1
  <2>2. depth(s, open - 1) = 0
    BY <1>1, <1>2, <2>1, FlatIs
  <2>3. depth(s, open) = depth(s, open - 1) + Weight(s[open]) /\ (Weight(s[open]) = 1 <=> s[open] = Opening)
    BY <2>1, DepthStep
  <2>4. QED
    BY <1>1, <2>2, <2>3
<1>5. depth(s, n) = 0 /\ \A i \in 0 .. n : depth(s, i) >= 0
  BY <1>2, BehavesAt DEF Final
<1>6. \A i \in 1 .. n - 1 : s[i + 1] \in MayFollow[s[i]]
  BY <1>2 DEF Links
<1>7. \A i \in 1 .. n : s[i] = Comma => 0 + depth(s, i) # 0
  BY DEF Covers
<1> HIDE DEF n
<1> DEFINE T == {k \in Nat : open + k <= n - 1 => depth(s, open + k) >= 1}
<1>8. 0 \in T
  <2>1. open + 0 = open
    BY <1>1
  <2>2. QED
    BY <1>4, <2>1
<1>9. ASSUME NEW k \in Nat, k \in T, open + (k + 1) <= n - 1 PROVE depth(s, open + (k + 1)) >= 1
  <2> DEFINE i == open + k
             j == i + 1
             l == j + 1
  <2>1. /\ i \in 1 .. n /\ j \in 1 .. n - 1 /\ l \in 1 .. n /\ j \in Nat \ {0} /\ l \in Nat \ {0}
        /\ j - 1 = i /\ l - 1 = j /\ j = open + (k + 1) /\ i <= n - 1
        /\ j \in 0 .. n /\ l \in 0 .. n
    BY <1>1, <1>9
  <2>2. depth(s, i) >= 1
    BY <1>9, <2>1
  <2>3. s[l] \in MayFollow[s[j]]
    BY <1>6, <2>1
  <2> HIDE DEF i, j, l
  <2>4. /\ depth(s, j) = depth(s, j - 1) + Weight(s[j]) /\ Weight(s[j]) \in {-1, 0, 1}
        /\ Weight(s[j]) = -1 <=> s[j] = Closing
        /\ depth(s, i) \in Int /\ depth(s, j) \in Int
    BY <2>1, DepthStep
  <2>5. /\ depth(s, l) = depth(s, l - 1) + Weight(s[l]) /\ Weight(s[l]) \in {-1, 0, 1}
        /\ Weight(s[l]) = -1 <=> s[l] = Closing
    BY <2>1, DepthStep
  <2>6. depth(s, j) >= 0 /\ depth(s, l) >= 0
    BY <1>5, <2>1
  <2>7. ASSUME depth(s, j) = 0 PROVE FALSE
    <3>1. s[j] = Closing
      BY <2>1, <2>2, <2>4, <2>7
    <3>2. s[l] = Closing \/ s[l] = Comma
      BY <2>3, <3>1, MayFollowIs
    <3>3. CASE s[l] = Closing
      BY <2>1, <2>5, <2>6, <2>7, <3>3
    <3>4. CASE s[l] = Comma
      <4>1. Weight(s[l]) = 0
        BY <3>4, MarksAre DEF Weight
      <4>2. depth(s, l) = 0
        BY <2>1, <2>5, <2>7, <4>1
      <4>3. QED
        BY <1>7, <2>1, <3>4, <4>2
    <3>5. QED
      BY <3>2, <3>3, <3>4
  <2>8. depth(s, j) >= 1
    BY <2>4, <2>6, <2>7
  <2>9. QED
    BY <2>1, <2>8
<1>10. \A k \in Nat : k \in T => k + 1 \in T
  BY <1>9
<1> HIDE DEF T
<1>11. Nat \subseteq T
  BY <1>8, <1>10, NaturalInduction
<1>12. ASSUME NEW i \in open .. n - 1 PROVE depth(s, i) >= 1
  <2> DEFINE k == i - open
  <2>1. k \in Nat /\ open + k = i /\ open + k <= n - 1
    BY <1>1
  <2> HIDE DEF k
  <2>2. k \in T
    BY <1>11, <2>1
  <2>3. QED
    BY <2>1, <2>2 DEF T
<1>13. open < n
  BY <1>1, <1>4, <1>5
<1>14. /\ depth(s, n) = depth(s, n - 1) + Weight(s[n]) /\ Weight(s[n]) \in {-1, 0, 1}
       /\ Weight(s[n]) = -1 <=> s[n] = Closing
       /\ depth(s, n - 1) \in Int
  <2>1. n \in Nat \ {0}
    BY <1>1
  <2>2. QED
    BY <2>1, DepthStep
<1>15. depth(s, n - 1) >= 1
  BY <1>1, <1>12, <1>13
<1>16. s[n] = Closing /\ depth(s, n - 1) = 1
  BY <1>5, <1>14, <1>15
<1>17. n \in Nat /\ open \in Nat
  BY <1>1
<1>18. QED
  BY <1>3, <1>4, <1>12, <1>13, <1>16, <1>17 DEF open, n

LEMMA FitsIsCall ==
  ASSUME NEW s \in RawText, Covers(s, 0), Solid(s), HasOpen(s), Fits(s)
  PROVE  IsArguments(Inside(s))
<1> DEFINE open == FirstOpen(s)
           h == Heading(s)
           z == Inside(s)
           o == <<Opening>>
           c == <<Closing>>
           y == z \o c
           x == o \o y
           n == Len(z)
<1>0. /\ open > 1 /\ open < Len(s) /\ s[Len(s)] = Closing /\ Len(s) \in Nat /\ open \in Nat
      /\ \A i \in open .. Len(s) - 1 : depth(s, i) >= 1
      /\ depth(s, open) = 1 /\ depth(s, Len(s) - 1) = 1
  BY OpenUpToTheEnd
<1>1. Last(s) = Closing
  BY <1>0 DEF Last
<1>2. h \in RawText /\ Len(h) = open - 1 /\ z \in RawText /\ \A i \in 1 .. open - 1 : h[i] = s[i]
  BY OpenIs
<1>3. n = Len(s) - open - 1 /\ s = h \o (o \o (z \o c))
  BY <1>1, CallIs
<1>4. /\ o \in RawText /\ o # <<>> /\ Len(o) = 1 /\ o[1] = Opening /\ o[Len(o)] = Opening
  BY OneIs, MarksInAlphabet
<1>5. /\ c \in RawText /\ c # <<>> /\ Len(c) = 1 /\ c[1] = Closing
  BY OneIs, MarksInAlphabet
<1>6. h # <<>>
  BY <1>0, <1>2, EmptyText
<1>7. Links(s) /\ BracesInCalls(s)
  BY DEF Fits
<1> HIDE DEF open, o, c
<1>8. n \in Nat /\ y \in RawText /\ \A i \in 0 .. n : depth(y, i) = depth(z, i)
  <2>1. n \in Nat
    BY <1>2, LenProperties DEF RawText
  <2>2. z \o c \in RawText /\ \A i \in 0 .. Len(z) : depth(z \o c, i) = depth(z, i)
    BY <1>2, <1>5, DepthTogether, Together
  <2>3. QED
    BY <2>1, <2>2
<1> HIDE DEF h, z
<1>9. s = h \o x /\ s = (h \o o) \o y /\ h \o o \in RawText /\ Len(h \o o) = open
  <2>1. s = h \o x
    BY <1>3
  <2>2. (h \o o) \o y = h \o (o \o y)
    BY <1>2, <1>4, <1>8, Associates
  <2>3. h \o o \in RawText /\ Len(h \o o) = Len(h) + Len(o)
    BY <1>2, <1>4, Together
  <2>4. QED
    BY <1>0, <1>2, <1>4, <2>1, <2>2, <2>3
<1>10. \A i \in 0 .. n : depth(s, open + i) = 1 + depth(z, i)
  <2> DEFINE p == h \o o
  <2>1. p \in RawText /\ Len(p) = open /\ s = p \o y
    BY <1>9
  <2> HIDE DEF p, y
  <2>2. /\ \A i \in 0 .. Len(p) : depth(p \o y, i) = depth(p, i)
        /\ \A i \in 0 .. Len(y) : depth(p \o y, Len(p) + i) = depth(p, Len(p)) + depth(y, i)
    BY <1>8, <2>1, DepthTogether
  <2>3. depth(p, open) = 1
    BY <1>0, <2>1, <2>2
  <2>4. Len(y) \in Nat /\ Len(y) >= n
    <3>1. Len(z \o c) = Len(z) + Len(c)
      BY <1>2, <1>5, Together
    <3>2. QED
      BY <1>5, <1>8, <3>1 DEF y
  <2>5. ASSUME NEW i \in 0 .. n PROVE depth(s, open + i) = 1 + depth(z, i)
    <3>1. i \in 0 .. Len(y)
      BY <1>8, <2>4
    <3>2. depth(p \o y, Len(p) + i) = depth(p, Len(p)) + depth(y, i)
      BY <2>2, <3>1
    <3>3. QED
      BY <1>8, <2>1, <2>3, <3>2
  <2>6. QED
    BY <2>5
<1>11. balanced(z)
  <2>0. \A i \in Nat : depth(z, i) \in Int
    BY DepthIs
  <2>1. ASSUME NEW i \in 1 .. n PROVE 0 + depth(z, i) >= 0
    <3>1. open + i \in open .. Len(s) - 1 /\ i \in 0 .. n /\ i \in Nat
      BY <1>0, <1>3, <1>8
    <3>2. depth(s, open + i) >= 1
      BY <1>0, <3>1
    <3>3. QED
      BY <1>10, <2>0, <3>1, <3>2
  <2>2. depth(z, n) = 0
    <3>1. open + n = Len(s) - 1 /\ n \in 0 .. n
      BY <1>0, <1>3, <1>8
    <3>2. depth(s, open + n) = 1 + depth(z, n)
      BY <1>10, <3>1
    <3>3. depth(s, open + n) = depth(s, Len(s) - 1) /\ depth(z, n) \in Int
      BY <1>8, <2>0, <3>1
    <3>4. QED
      BY <1>0, <3>2, <3>3
  <2>3. QED
    BY <1>2, <2>1, <2>2, BalancedIs DEF Final, Behaves
<1>12. y # <<>> /\ x \in RawText /\ x # <<>>
  <2>1. z \o c \in RawText /\ Len(z \o c) = Len(z) + Len(c) /\ Len(z) \in Nat
    BY <1>2, <1>5, Together
  <2>2. y # <<>>
    <3>1. Len(y) >= 1
      BY <1>5, <2>1
    <3>2. QED
      BY <1>8, <3>1, EmptyText
  <2> HIDE DEF y
  <2>3. QED
    BY <1>4, <1>8, <2>2, LinksTogether
<1> HIDE DEF y
<1>13. Links(y) /\ y[1] \in MayFollow[Opening]
  <2>1. Links(x) <=> Links(o) /\ Links(y) /\ y[1] \in MayFollow[o[Len(o)]]
    BY <1>4, <1>8, <1>12, LinksTogether
  <2> HIDE DEF x
  <2>2. Links(h \o x) <=> Links(h) /\ Links(x) /\ x[1] \in MayFollow[h[Len(h)]]
    BY <1>2, <1>6, <1>12, LinksTogether
  <2>3. QED
    BY <1>4, <1>7, <1>9, <2>1, <2>2
<1>14. BracesInCalls(y)
  <2> DEFINE p == h \o o
  <2>1. p \in RawText /\ p # <<>> /\ p[Len(p)] = Opening
    BY <1>2, <1>4, <1>6, LinksTogether
  <2>2. s = p \o y
    BY <1>9
  <2> HIDE DEF p
  <2>3. p[Len(p)] \notin NameChar
    BY <2>1, NameCharIs
  <2>4. BracesInCalls(p \o y) <=> BracesInCalls(p) /\ BracesInCalls(y)
    BY <1>8, <2>1, <2>3, BracesTogether
  <2>5. QED
    BY <1>7, <2>2, <2>4
<1>15. CASE z = <<>>
  <2>1. IsArguments(z)
    BY <1>2, <1>15, ArgumentsAre
  <2>2. QED
    BY <2>1 DEF z
<1>16. CASE z # <<>>
  <2>1. /\ Links(z \o c) <=> Links(z) /\ Links(c) /\ Closing \in MayFollow[z[Len(z)]]
        /\ (z \o c)[1] = z[1]
    BY <1>2, <1>5, <1>16, LinksTogether
  <2>2. Links(z) /\ Closing \in MayFollow[z[Len(z)]] /\ z[1] \in MayFollow[Opening]
    BY <1>13, <2>1 DEF y
  <2>3. z[1] # Closing /\ z[Len(z)] # Opening
    BY <1>2, <1>11, <1>16, BalancedEnds
  <2>4. z[1] \in NameChar
    BY <2>2, <2>3, MayFollowIs
  <2>5. z[Len(z)] \in Alphabet
    <3>1. Len(z) \in 1 .. Len(z)
      BY <1>2, <1>8, <1>16, EmptyText
    <3>2. QED
      BY <1>2, <3>1, Around
  <2>6. Comma \in MayFollow[z[Len(z)]]
    BY <2>2, <2>3, <2>5, ClosedAlike
  <2>7. BracesInCalls(z)
    <3>1. c[1] \notin NameChar \cup {Opening}
      BY <1>5, NameCharIs, MarksAre
    <3>2. BracesInCalls(z \o c) <=> BracesInCalls(z) /\ BracesInCalls(c)
      BY <1>2, <1>5, <3>1, BracesTogether
    <3>3. QED
      BY <1>14, <3>2 DEF y
  <2>8. Fits(z)
    BY <1>11, <2>2, <2>4, <2>6, <2>7 DEF Fits
  <2>9. IsArguments(z)
    BY <1>2, <2>8, ArgumentsAre
  <2>10. QED
    BY <2>9 DEF z
<1>17. QED
  BY <1>15, <1>16

(* One argument, as the parser takes it and as the definition asks.        *)
LEMMA ArgumentIs ==
  ASSUME NEW s \in RawText, Covers(s, 0), Solid(s)
  PROVE  balanced(s) /\ IsExpression(s) <=> s # <<>> /\ Fits(s)
<1>1. CASE ~HasOpen(s)
  BY <1>1, NameAlone
<1>2. CASE HasOpen(s)
  <2>0. /\ FirstOpen(s) \in 1 .. Len(s) /\ Len(s) \in Nat /\ \A i \in 1 .. FirstOpen(s) - 1 : s[i] # Opening
        /\ Heading(s) \in RawText /\ Len(Heading(s)) = FirstOpen(s) - 1
        /\ \A i \in 1 .. FirstOpen(s) - 1 : Heading(s)[i] = s[i]
        /\ Inside(s) \in RawText
    BY <1>2, OpenIs
  <2>1. IsExpression(s) <=> FirstOpen(s) > 1 /\ Last(s) = Closing /\ IsArguments(Inside(s))
    BY <1>2, ExpressionIs
  <2>2. ASSUME balanced(s), IsExpression(s) PROVE s # <<>> /\ Fits(s)
    <3> DEFINE h == Heading(s)
               z == Inside(s)
               open == FirstOpen(s)
    <3>1. open > 1 /\ IsArguments(z) /\ s = h \o (<<Opening>> \o (z \o <<Closing>>))
      BY <1>2, <2>1, <2>2, CallIs
    <3> HIDE DEF open
    <3>2. open - 1 \in Nat /\ open - 1 <= Len(s)
      BY <2>0 DEF open
    <3>3. \A i \in 1 .. open - 1 : s[i] \in NameChar
      BY <2>0, <2>2, <3>2, BalancedIs, FlatIs DEF open
    <3>4. \A i \in 1 .. Len(h) : h[i] \in NameChar
      BY <2>0, <3>3 DEF open
    <3>5. h \in RawText /\ z \in RawText /\ h # <<>>
      BY <2>0, <3>1, EmptyText DEF open
    <3> HIDE DEF h, z
    <3> DEFINE t == h \o (<<Opening>> \o (z \o <<Closing>>))
    <3>6. t # <<>> /\ (balanced(t) => Fits(t))
      BY <3>1, <3>4, <3>5, CallFits
    <3>7. s = t
      BY <3>1
    <3> HIDE DEF t
    <3>8. QED
      BY <2>2, <3>6, <3>7
  <2>3. ASSUME s # <<>>, Fits(s) PROVE balanced(s) /\ IsExpression(s)
    <3>1. FirstOpen(s) > 1 /\ s[Len(s)] = Closing
      BY <1>2, <2>3, OpenUpToTheEnd
    <3>2. IsArguments(Inside(s))
      BY <1>2, <2>3, FitsIsCall
    <3>3. Last(s) = Closing
      BY <3>1 DEF Last
    <3>4. QED
      BY <2>1, <2>3, <3>1, <3>2, <3>3 DEF Fits
  <2>4. QED
    BY <2>2, <2>3
<1>3. QED
  BY <1>1, <1>2

-----------------------------------------------------------------------------
(* Which texts are accepted.                                               *)

(* The characters that are left when the blanks are gone.                  *)
LEMMA NoBlanksChars ==
  ASSUME NEW s \in RawText
  PROVE  /\ Solid(NoBlanks[s])
         /\ \A c : c # Gap => ((\E i \in 1 .. Len(s) : s[i] = c) <=>
                                   \E i \in 1 .. Len(NoBlanks[s]) : NoBlanks[s][i] = c)
<1> DEFINE nb(t) == NoBlanks[t]
           Has(t, c) == \E i \in 1 .. Len(t) : t[i] = c
           T == {t \in RawText : \A c : (c # Gap => (Has(t, c) <=> Has(nb(t), c))) /\ ~Has(nb(t), Gap)}
<1>1. <<>> \in T
  BY EmptyText, NoBlanksIs
<1>2. ASSUME NEW c \in Alphabet, NEW r \in RawText, NEW d PROVE Has(<<c>> \o r, d) <=> c = d \/ Has(r, d)
  <2>1. /\ Len(<<c>> \o r) = 1 + Len(r) /\ Len(r) \in Nat /\ (<<c>> \o r)[1] = c
        /\ \A i \in 1 .. Len(r) : (<<c>> \o r)[1 + i] = r[i]
    <3> DEFINE h == <<c>>
    <3>1. h \in RawText /\ Len(h) = 1 /\ h[1] = c
      BY Prefixed
    <3> HIDE DEF h
    <3>2. /\ Len(h \o r) = Len(h) + Len(r) /\ Len(r) \in Nat
          /\ \A i \in 1 .. Len(h) : (h \o r)[i] = h[i]
          /\ \A i \in 1 .. Len(r) : (h \o r)[Len(h) + i] = r[i]
      BY <3>1, Together
    <3>3. 1 \in 1 .. Len(h)
      BY <3>1
    <3>4. QED
      BY <3>1, <3>2, <3>3 DEF h
  <2> DEFINE u == <<c>> \o r
  <2>2. /\ Len(u) = 1 + Len(r) /\ Len(r) \in Nat /\ u[1] = c
        /\ \A i \in 1 .. Len(r) : u[1 + i] = r[i]
    BY <2>1
  <2> HIDE DEF u
  <2>3. ASSUME NEW j \in 1 .. Len(u), u[j] = d PROVE c = d \/ Has(r, d)
    <3>1. CASE j = 1
      BY <2>2, <2>3, <3>1
    <3>2. CASE j # 1
      <4> DEFINE i == j - 1
      <4>1. i \in 1 .. Len(r) /\ j = 1 + i
        BY <2>2, <3>2
      <4> HIDE DEF i
      <4>2. r[i] = d
        BY <2>2, <2>3, <4>1
      <4>3. QED
        BY <4>1, <4>2
    <3>3. QED
      BY <3>1, <3>2
  <2>4. ASSUME NEW i \in 1 .. Len(r), r[i] = d PROVE Has(u, d)
    <3>1. 1 + i \in 1 .. Len(u) /\ u[1 + i] = d
      BY <2>2, <2>4
    <3>2. QED
      BY <3>1
  <2>5. c = d => Has(u, d)
    <3>1. 1 \in 1 .. Len(u)
      BY <2>2
    <3>2. QED
      BY <2>2, <3>1
  <2>6. QED
    BY <2>3, <2>4, <2>5 DEF u
<1> HIDE DEF Has
<1>3. ASSUME NEW t \in RawText, t # <<>>, Tail(t) \in T PROVE t \in T
  <2> DEFINE c == Head(t)
             r == Tail(t)
  <2>1. c \in Alphabet /\ r \in RawText /\ t = <<c>> \o r /\ nb(t) = Inked(c) \o nb(r)
    BY <1>3, Uncons, NoBlanksIs
  <2>2. \A d : (d # Gap => (Has(r, d) <=> Has(nb(r), d))) /\ ~Has(nb(r), Gap)
    BY <1>3
  <2>3. nb(r) \in RawText
    BY <2>1, NoBlanksIsText
  <2> HIDE DEF c, r, nb
  <2>4. \A d : Has(t, d) <=> c = d \/ Has(r, d)
    BY <1>2, <2>1
  <2>5. CASE c = Gap
    <3>1. nb(t) = nb(r)
      BY <2>1, <2>3, <2>5, EmptyText DEF Inked
    <3>2. QED
      BY <2>2, <2>4, <2>5, <3>1
  <2>6. CASE c # Gap
    <3>1. nb(t) = <<c>> \o nb(r)
      BY <2>1, <2>6 DEF Inked
    <3> DEFINE z == nb(r)
    <3>2. \A d : Has(nb(t), d) <=> c = d \/ Has(nb(r), d)
      <4>1. z \in RawText /\ nb(t) = <<c>> \o z
        BY <2>3, <3>1
      <4> HIDE DEF z
      <4>2. \A d : Has(<<c>> \o z, d) <=> c = d \/ Has(z, d)
        BY <1>2, <2>1, <4>1
      <4>3. QED
        BY <4>1, <4>2 DEF z
    <3>3. QED
      BY <2>2, <2>4, <2>6, <3>2
  <2>7. QED
    BY <2>5, <2>6
<1> HIDE DEF T
<1>4. RawText \subseteq T
  BY <1>1, <1>3, TextInduction
<1>5. ~Has(nb(s), Gap) /\ \A c : c # Gap => (Has(s, c) <=> Has(nb(s), c))
  BY <1>4 DEF T
<1>6. QED
  BY <1>5 DEF Has, Solid

LEMMA BalancedBlanks ==
  ASSUME NEW s \in RawText
  PROVE  /\ balanced(NoBlanks[s]) <=> balanced(s)
         /\ Solid(NoBlanks[s]) /\ NoBlanks[s] \in RawText
BY BalancedIs, BlanksCloseNothing, NoBlanksIsText, NoBlanksChars

(* No parenthesis is open where the loop cuts, and nothing separates       *)
(* before.                                                                 *)
LEMMA BeforeCut ==
  ASSUME NEW s \in RawText, separators(s) # {}
  PROVE  Final(Before(s)) = 0 /\ Covers(Before(s), 0)
<1> DEFINE cut == Min(separators(s))
           x == Before(s)
           r == <<Comma>> \o Behind(s)
           m == Len(x)
<1>1. /\ cut \in 1 .. Len(s) /\ Len(s) \in Nat /\ s[cut] = Comma /\ depth(s, cut) = 0
      /\ \A i \in 1 .. cut - 1 : i \notin separators(s)
      /\ x \in RawText /\ m = cut - 1 /\ Behind(s) \in RawText /\ s = x \o r
  BY CutIs
<1>2. r \in RawText
  BY <1>1, Together, OneIs, MarksInAlphabet
<1> HIDE DEF cut, x, r
<1>3. /\ \A i \in 1 .. m : (x \o r)[i] = x[i]
      /\ \A i \in 0 .. m : depth(x \o r, i) = depth(x, i)
  <2>1. x \in RawText
    BY <1>1
  <2>2. \A i \in 1 .. m : (x \o r)[i] = x[i]
    BY <1>2, <2>1, Together
  <2>3. \A i \in 0 .. m : depth(x \o r, i) = depth(x, i)
    BY <1>2, <2>1, DepthTogether
  <2>4. QED
    BY <2>2, <2>3
<1>4. /\ \A i \in 1 .. m : s[i] = x[i]
      /\ \A i \in 0 .. m : depth(s, i) = depth(x, i)
  BY <1>1, <1>3
<1> HIDE DEF m
<1>5. depth(s, cut - 1) = 0
  <2>1. cut \in Nat \ {0} /\ Weight(s[cut]) = 0
    BY <1>1, MarksAre DEF Weight
  <2>2. depth(s, cut) = depth(s, cut - 1) + Weight(s[cut]) /\ depth(s, cut - 1) \in Int
    BY <2>1, DepthStep
  <2>3. QED
    BY <1>1, <2>1, <2>2
<1>6. depth(x, m) = 0
  <2>1. m \in 0 .. m
    BY <1>1
  <2>2. depth(s, m) = depth(x, m)
    BY <1>4, <2>1
  <2>3. QED
    BY <1>1, <1>5, <2>2
<1>7. ASSUME NEW i \in 1 .. m, x[i] = Comma PROVE 0 + depth(x, i) # 0
  <2>1. i \in 1 .. cut - 1 /\ i \in 0 .. m /\ i \in 1 .. Len(s) /\ i \in Nat /\ s[i] = Comma
    BY <1>1, <1>4, <1>7
  <2>2. DOMAIN s = 1 .. Len(s)
    BY LenProperties DEF RawText
  <2>3. depth(s, i) # 0
    BY <1>1, <2>1, <2>2 DEF separators, Comma
  <2>4. depth(s, i) = depth(x, i) /\ depth(x, i) \in Int
    BY <1>4, <2>1, DepthIs
  <2>5. QED
    BY <2>3, <2>4
<1>8. QED
  BY <1>6, <1>7 DEF Final, Covers, m, x

(* All of a list of texts.                                                 *)
Every(S, texts) == \A k \in DOMAIN texts : texts[k] \in S

LEMMA EveryTogether ==
  ASSUME NEW S, NEW t \in RawText, NEW texts \in Seq(RawText)
  PROVE  /\ Every(S, <<t>>) <=> t \in S
         /\ Every(S, <<t>> \o texts) <=> t \in S /\ Every(S, texts)
<1> DEFINE h == <<t>>
           all == h \o texts
           n == Len(texts)
<1>1. h \in Seq(RawText) /\ Len(h) = 1 /\ h[1] = t /\ DOMAIN h = 1 .. 1 /\ n \in Nat /\ DOMAIN texts = 1 .. n
  BY LenProperties
<1> HIDE DEF h
<1>2. /\ all \in Seq(RawText) /\ Len(all) = 1 + n
      /\ \A i \in 1 .. 1 + n : all[i] = IF i <= 1 THEN h[i] ELSE texts[i - 1]
  <2>1. /\ h \o texts \in Seq(RawText) /\ Len(h \o texts) = Len(h) + Len(texts)
        /\ \A i \in 1 .. Len(h) + Len(texts) :
             (h \o texts)[i] = IF i <= Len(h) THEN h[i] ELSE texts[i - Len(h)]
    BY <1>1, ConcatProperties
  <2>2. QED
    BY <1>1, <2>1
<1> HIDE DEF all, n
<1>3. DOMAIN all = 1 .. 1 + n /\ all[1] = t /\ \A i \in 1 .. n : all[i + 1] = texts[i]
  <2>1. DOMAIN all = 1 .. 1 + n
    BY <1>2, LenProperties
  <2>2. ASSUME NEW i \in 1 .. n PROVE all[i + 1] = texts[i]
    <3> DEFINE k == i + 1
    <3>1. k \in 1 .. 1 + n /\ ~(k <= 1) /\ k - 1 = i
      BY <1>1
    <3> HIDE DEF k
    <3>2. all[k] = texts[k - 1]
      BY <1>2, <3>1
    <3>3. QED
      BY <3>1, <3>2 DEF k
  <2>3. 1 \in 1 .. 1 + n
    BY <1>1
  <2>4. QED
    BY <1>1, <1>2, <2>1, <2>2, <2>3
<1>4. (\A k \in DOMAIN h : h[k] \in S) <=> t \in S
  BY <1>1
<1>5. (\A k \in DOMAIN all : all[k] \in S) <=> t \in S /\ \A k \in DOMAIN texts : texts[k] \in S
  <2>1. ASSUME \A k \in DOMAIN all : all[k] \in S PROVE t \in S /\ \A k \in DOMAIN texts : texts[k] \in S
    <3>1. 1 \in DOMAIN all /\ \A k \in 1 .. n : k + 1 \in DOMAIN all
      BY <1>1, <1>3
    <3>2. QED
      BY <1>1, <1>3, <2>1, <3>1
  <2>2. ASSUME t \in S, \A k \in DOMAIN texts : texts[k] \in S, NEW j \in DOMAIN all PROVE all[j] \in S
    <3>1. CASE j = 1
      BY <1>3, <2>2, <3>1
    <3>2. CASE j # 1
      <4> DEFINE i == j - 1
      <4>1. i \in 1 .. n /\ j = i + 1
        BY <1>1, <1>3, <3>2
      <4> HIDE DEF i
      <4>2. all[j] = texts[i]
        BY <1>3, <4>1
      <4>3. QED
        BY <1>1, <2>2, <4>1, <4>2
    <3>3. QED
      BY <3>1, <3>2
  <2>3. QED
    BY <2>1, <2>2
<1>6. QED
  BY <1>4, <1>5 DEF Every, h, all

(* The parts of a text are expressions when the text without its blanks is *)
(* a list of arguments.                                                    *)
Valid(texts) == Every({t \in RawText : IsExpression(NoBlanks[t])}, texts)

LEMMA ValidTogether ==
  ASSUME NEW t \in RawText, NEW texts \in Seq(RawText)
  PROVE  /\ Valid(<<t>>) <=> IsExpression(NoBlanks[t])
         /\ Valid(<<t>> \o texts) <=> IsExpression(NoBlanks[t]) /\ Valid(texts)
BY EveryTogether DEF Valid

LEMMA ListIs ==
  \A u \in Typable :
    balanced(u) /\ Valid(parts[u]) <=> NoBlanks[u] # <<>> /\ Fits(NoBlanks[u])
<1> DEFINE Good(u) == balanced(u) /\ Valid(parts[u]) <=> NoBlanks[u] # <<>> /\ Fits(NoBlanks[u])
           T == {u \in RawText : u \in Typable => Good(u)}
<1>1. ASSUME NEW u \in RawText, \A v \in RawText : Len(v) < Len(u) => v \in T, u \in Typable
      PROVE  Good(u)
  <2>1. CASE separators(u) = {}
    <3>1. parts[u] = <<TrimSpace(u)>> /\ NoBlanks[TrimSpace(u)] = NoBlanks[u] /\ TrimSpace(u) \in RawText
      BY <1>1, <2>1, PartsIs, TrimIs
    <3>2. Valid(parts[u]) <=> IsExpression(NoBlanks[u])
      <4> DEFINE a == TrimSpace(u)
                 none == <<>>
      <4>1. a \in RawText /\ none \in Seq(RawText) /\ NoBlanks[a] = NoBlanks[u] /\ parts[u] = <<a>>
        BY <3>1
      <4> HIDE DEF a, none
      <4>2. Valid(<<a>>) <=> IsExpression(NoBlanks[a])
        BY <4>1, ValidTogether
      <4>3. QED
        BY <4>1, <4>2
    <3>3. Covers(NoBlanks[u], 0)
      BY <2>1, BalancedIs, BlanksCloseNothing
    <3>4. QED
      BY <3>2, <3>3, BalancedBlanks, ArgumentIs
  <2>2. CASE separators(u) # {}
    <3> DEFINE x == Before(u)
               y == Behind(u)
               c == <<Comma>>
               xx == NoBlanks[x]
               yy == NoBlanks[y]
    <3>1. /\ x \in RawText /\ y \in RawText /\ Len(y) < Len(u) /\ y \in Typable
          /\ u = x \o (c \o y) /\ Len(u) \in Nat
      <4>1. u \in RawText
        BY <1>1
      <4>2. /\ x \in RawText /\ y \in RawText /\ Len(y) < Len(u)
            /\ u = x \o (c \o y) /\ Len(u) \in Nat
        BY <2>2, <4>1, CutIs
      <4> HIDE DEF x, y, c
      <4>3. Len(y) <= Len(u)
        <5>1. Len(y) \in Nat
          BY <4>2, LenProperties DEF RawText
        <5>2. QED
          BY <4>2, <5>1
      <4>4. y \in Typable
        <5>1. \A s \in Typable, t \in RawText : Len(t) <= Len(s) => t \in Typable
          BY TypableIs
        <5>2. QED
          BY <1>1, <4>2, <4>3, <5>1
      <4>5. QED
        BY <4>2, <4>4
    <3>2. /\ parts[u] = <<TrimSpace(x)>> \o parts[y]
          /\ TrimSpace(x) \in RawText /\ NoBlanks[TrimSpace(x)] = xx /\ parts[y] \in Seq(RawText)
      BY <1>1, <2>2, <3>1, PartsIs, TrimIs, PartsAre
    <3>3. Final(x) = 0 /\ Covers(x, 0)
      BY <2>2, BeforeCut
    <3>4. Good(y)
      BY <1>1, <3>1
    <3> HIDE DEF x, y
    <3>5. Final(xx) = 0 /\ Covers(xx, 0) /\ xx \in RawText /\ yy \in RawText /\ Solid(xx)
          /\ (balanced(xx) <=> balanced(x))
      BY <3>1, <3>3, BlanksCloseNothing, BalancedBlanks
    <3>6. balanced(xx) /\ IsExpression(xx) <=> xx # <<>> /\ Fits(xx)
      BY <3>5, ArgumentIs
    <3>7. Valid(parts[u]) <=> IsExpression(xx) /\ Valid(parts[y])
      <4> DEFINE a == TrimSpace(x)
                 b == parts[y]
      <4>1. a \in RawText /\ b \in Seq(RawText) /\ NoBlanks[a] = xx /\ parts[u] = <<a>> \o b
        BY <3>2
      <4> HIDE DEF a, b, xx
      <4>2. Valid(<<a>> \o b) <=> IsExpression(NoBlanks[a]) /\ Valid(b)
        BY <4>1, ValidTogether
      <4>3. QED
        BY <4>1, <4>2 DEF b
    <3>8. balanced(u) <=> balanced(x) /\ balanced(y)
      <4>1. c \in RawText /\ Final(c) = 0 /\ balanced(c)
        <5>1. Weight(Comma) = 0
          BY MarksAre DEF Weight
        <5>2. QED
          BY <5>1, OneIs, MarksInAlphabet
      <4> DEFINE r == c \o y
      <4>2. r \in RawText /\ (balanced(r) <=> balanced(y))
        BY <3>1, <4>1, Together, BalancedTogether
      <4> HIDE DEF r, c
      <4>3. balanced(x \o r) <=> balanced(x) /\ balanced(r)
        BY <3>1, <3>3, <4>2, BalancedTogether
      <4>4. u = x \o r
        BY <3>1 DEF r
      <4>5. QED
        BY <4>2, <4>3, <4>4
    <3>9. NoBlanks[u] = xx \o (c \o yy)
      <4>1. c \in RawText /\ NoBlanks[c] = c
        <5>1. c \in RawText
          BY OneIs, MarksInAlphabet
        <5>2. NoBlanks[c] = Inked(Comma)
          BY NoBlanksOne, MarksInAlphabet
        <5>3. QED
          BY <5>1, <5>2, MarksAre DEF Inked
      <4> HIDE DEF c
      <4>2. c \o y \in RawText
        BY <3>1, <4>1, Together
      <4>3. NoBlanks[x \o (c \o y)] = NoBlanks[x] \o NoBlanks[c \o y]
        BY <3>1, <4>2, NoBlanksTogether
      <4>4. NoBlanks[c \o y] = NoBlanks[c] \o NoBlanks[y]
        BY <3>1, <4>1, NoBlanksTogether
      <4>5. QED
        BY <3>1, <4>1, <4>3, <4>4
    <3> HIDE DEF xx, yy, c
    <3>10. Fits(xx \o (c \o yy)) <=> xx # <<>> /\ yy # <<>> /\ Fits(xx) /\ Fits(yy)
      BY <3>5, FitsTogether DEF c
    <3>11. NoBlanks[u] # <<>>
      <4>1. Len(c \o yy) = Len(c) + Len(yy) /\ c \o yy \in RawText /\ c # <<>> /\ c \in RawText /\ Len(c) = 1
            /\ Len(yy) \in Nat
        <5>1. c # <<>> /\ c \in RawText /\ Len(c) = 1
          BY OneIs, MarksInAlphabet DEF c
        <5>2. QED
          BY <3>5, <5>1, Together
      <4> DEFINE r == c \o yy
      <4>2. r \in RawText /\ Len(r) >= 1
        BY <4>1
      <4> HIDE DEF r
      <4>3. Len(xx \o r) = Len(xx) + Len(r) /\ xx \o r \in RawText /\ Len(xx) \in Nat /\ Len(r) \in Nat
        BY <3>5, <4>2, Together
      <4>4. Len(xx \o r) >= 1
        BY <4>2, <4>3
      <4>5. xx \o r # <<>>
        BY <4>4, EmptyText
      <4>6. QED
        BY <3>9, <4>5 DEF r
    <3>12. balanced(y) /\ Valid(parts[y]) <=> yy # <<>> /\ Fits(yy)
      BY <3>4 DEF yy
    <3>13. Fits(NoBlanks[u]) <=> xx # <<>> /\ yy # <<>> /\ Fits(xx) /\ Fits(yy)
      BY <3>9, <3>10
    <3>14. QED
      BY <3>5, <3>6, <3>7, <3>8, <3>11, <3>12, <3>13
  <2>3. QED
    BY <2>1, <2>2
<1>2. ASSUME NEW u \in RawText, \A v \in RawText : Len(v) < Len(u) => v \in T PROVE u \in T
  BY <1>1, <1>2
<1> HIDE DEF T
<1>3. RawText \subseteq T
  BY <1>2, LengthInduction
<1>4. QED
  BY <1>3, TypableIs DEF T

(* The characters at the ends stay there if they are not blanks.           *)
LEMMA InkAtTheEnds ==
  ASSUME NEW s \in RawText, s # <<>>
  PROVE  LET w == NoBlanks[s]
         IN  /\ s[1] # Gap => w # <<>> /\ w[1] = s[1]
             /\ s[Len(s)] # Gap => w # <<>> /\ w[Len(w)] = s[Len(s)]
<1> DEFINE n == Len(s)
           w == NoBlanks[s]
<1>1. n \in Nat /\ n >= 1
  BY EmptyText, LenProperties DEF RawText
<1>2. ASSUME s[1] # Gap PROVE w # <<>> /\ w[1] = s[1]
  <2> DEFINE c == Head(s)
             r == NoBlanks[Tail(s)]
  <2>1. c = s[1] /\ c \in Alphabet /\ r \in RawText /\ w = Inked(c) \o r
    BY Uncons, NoBlanksIs, NoBlanksIsText
  <2> HIDE DEF c, r, w
  <2>2. w = <<c>> \o r
    BY <1>2, <2>1 DEF Inked
  <2>3. <<c>> \o r # <<>> /\ Head(<<c>> \o r) = c
    BY <2>1, Prefixed
  <2>4. w # <<>> /\ Head(w) = c
    BY <2>2, <2>3
  <2>5. QED
    BY <2>1, <2>4
<1>3. ASSUME s[n] # Gap PROVE w # <<>> /\ w[Len(w)] = s[n]
  <2> DEFINE b == SubSeq(s, 1, n - 1)
             a == SubSeq(s, n + 1, n)
             c == <<s[n]>>
  <2>1. b \in RawText /\ a \in RawText /\ Len(a) = 0 /\ s[n] \in Alphabet /\ s = b \o (c \o a)
    <3>1. n \in 1 .. Len(s)
      BY <1>1
    <3>2. /\ b \in RawText /\ a \in RawText /\ Len(a) = Len(s) - n /\ s[n] \in Alphabet
          /\ s = b \o (c \o a)
      BY <3>1, Around
    <3>3. QED
      BY <1>1, <3>2
  <2>2. a = <<>>
    BY <2>1, EmptyText, EmptySeq DEF RawText
  <2>3. c \in RawText /\ c # <<>> /\ Len(c) = 1 /\ c[1] = s[n] /\ NoBlanks[c] = c
    <3>1. c \in RawText /\ c # <<>> /\ Len(c) = 1 /\ c[1] = s[n]
      BY <2>1, OneIs
    <3>2. NoBlanks[c] = Inked(s[n])
      BY <2>1, NoBlanksOne
    <3>3. QED
      BY <1>3, <3>1, <3>2 DEF Inked
  <2> HIDE DEF a, b, c, n, w
  <2>4. s = b \o c
    BY <2>1, <2>2, <2>3, EmptyText
  <2>5. NoBlanks[b \o c] = NoBlanks[b] \o c /\ NoBlanks[b] \in RawText
    <3>1. NoBlanks[b \o c] = NoBlanks[b] \o NoBlanks[c]
      BY <2>1, <2>3, NoBlanksTogether
    <3>2. QED
      BY <2>1, <2>3, <3>1, NoBlanksIsText
  <2> DEFINE d == NoBlanks[b]
  <2>6. d \in RawText /\ w = d \o c
    BY <2>4, <2>5 DEF w
  <2> HIDE DEF d
  <2>7. /\ d \o c \in RawText /\ Len(d \o c) = Len(d) + Len(c) /\ Len(d) \in Nat
        /\ \A i \in 1 .. Len(c) : (d \o c)[Len(d) + i] = c[i]
    BY <2>3, <2>6, Together
  <2>8. 1 \in 1 .. Len(c) /\ Len(w) = Len(d) + 1 /\ w \in RawText
    BY <2>3, <2>6, <2>7
  <2>9. w[Len(d) + 1] = c[1]
    BY <2>6, <2>7, <2>8
  <2>10. w # <<>>
    <3>1. Len(w) >= 1
      BY <2>7, <2>8
    <3>2. QED
      BY <2>8, <3>1, EmptyText
  <2>11. QED
    BY <2>3, <2>8, <2>9, <2>10
<1>4. QED
  BY <1>2, <1>3

(* A text that is put together as a call is taken apart as one.            *)
LEMMA CallOf ==
  ASSUME NEW h \in RawText, NEW z \in RawText, \A i \in 1 .. Len(h) : h[i] # Opening
  PROVE  LET w == h \o (<<Opening>> \o (z \o <<Closing>>))
         IN  /\ w \in RawText /\ HasOpen(w) /\ Last(w) = Closing
             /\ FirstOpen(w) = Len(h) + 1 /\ Inside(w) = z
<1> DEFINE o == <<Opening>>
           c == <<Closing>>
           y == z \o c
           x == o \o y
           w == h \o x
           m == Len(h)
           n == Len(z)
<1>1. /\ o \in RawText /\ Len(o) = 1 /\ o[1] = Opening
  BY OneIs, MarksInAlphabet
<1>2. /\ c \in RawText /\ Len(c) = 1 /\ c[1] = Closing
  BY OneIs, MarksInAlphabet
<1> HIDE DEF o, c
<1>3. /\ y \in RawText /\ Len(y) = n + 1 /\ n \in Nat /\ \A i \in 1 .. n : y[i] = z[i]
  <2>1. /\ z \o c \in RawText /\ Len(z \o c) = Len(z) + Len(c) /\ Len(z) \in Nat
        /\ \A i \in 1 .. Len(z) : (z \o c)[i] = z[i]
    BY <1>2, Together
  <2>2. QED
    BY <1>2, <2>1
<1> HIDE DEF n
<1>3a. y[n + 1] = Closing
  <2>1. /\ Len(z) \in Nat
        /\ \A i \in 1 .. Len(c) : (z \o c)[Len(z) + i] = c[i]
    BY <1>2, Together
  <2>2. 1 \in 1 .. Len(c)
    BY <1>2
  <2>3. QED
    BY <1>2, <2>1, <2>2 DEF n
<1> HIDE DEF y
<1>4. x \in RawText /\ Len(x) = n + 2 /\ x[1] = Opening /\ \A i \in 1 .. n + 1 : x[1 + i] = y[i]
  <2>1. /\ o \o y \in RawText /\ Len(o \o y) = Len(o) + Len(y)
        /\ \A i \in 1 .. Len(o) : (o \o y)[i] = o[i]
        /\ \A i \in 1 .. Len(y) : (o \o y)[Len(o) + i] = y[i]
    BY <1>1, <1>3, Together
  <2>2. QED
    BY <1>1, <1>3, <2>1
<1> HIDE DEF x
<1>5. /\ w \in RawText /\ Len(w) = m + (n + 2) /\ m \in Nat
      /\ \A i \in 1 .. m : w[i] = h[i]
      /\ \A i \in 1 .. n + 2 : w[m + i] = x[i]
  <2>1. /\ h \o x \in RawText /\ Len(h \o x) = Len(h) + Len(x) /\ Len(h) \in Nat
        /\ \A i \in 1 .. Len(h) : (h \o x)[i] = h[i]
        /\ \A i \in 1 .. Len(x) : (h \o x)[Len(h) + i] = x[i]
    BY <1>4, Together
  <2>2. QED
    BY <1>4, <2>1
<1> HIDE DEF w
<1>6. w[m + 1] = Opening /\ w[Len(w)] = Closing /\ \A i \in 1 .. n : w[m + 1 + i] = z[i]
  <2>1. w[m + 1] = Opening
    BY <1>3, <1>4, <1>5
  <2>2. w[Len(w)] = Closing
    <3>1. n + 2 \in 1 .. n + 2 /\ n + 1 \in 1 .. n + 1 /\ n + 2 = 1 + (n + 1)
      BY <1>3
    <3>2. w[m + (n + 2)] = x[n + 2]
      BY <1>5, <3>1
    <3>3. x[1 + (n + 1)] = y[n + 1]
      BY <1>4, <3>1
    <3>4. x[n + 2] = Closing
      BY <1>3a, <3>1, <3>3
    <3>5. QED
      BY <1>5, <3>2, <3>4
  <2>3. ASSUME NEW i \in 1 .. n PROVE w[m + 1 + i] = z[i]
    <3>1. i \in 1 .. n + 1 /\ 1 + i \in 1 .. n + 2 /\ m + 1 + i = m + (1 + i)
      BY <1>3, <1>5
    <3>2. w[m + (1 + i)] = x[1 + i]
      BY <1>5, <3>1
    <3>3. x[1 + i] = y[i]
      BY <1>4, <3>1
    <3>4. QED
      BY <1>3, <3>1, <3>2, <3>3
  <2>4. QED
    BY <2>1, <2>2, <2>3
<1>7. HasOpen(w) /\ Last(w) = Closing
  <2>1. m + 1 \in 1 .. Len(w)
    BY <1>3, <1>5
  <2>2. QED
    BY <1>6, <2>1 DEF HasOpen, Last
<1> DEFINE open == FirstOpen(w)
<1>8. open \in 1 .. Len(w) /\ w[open] = Opening /\ (\A i \in 1 .. open - 1 : w[i] # Opening)
      /\ Inside(w) \in RawText
  BY <1>5, <1>7, OpenIs
<1>9. Len(Inside(w)) = Len(w) - open - 1 /\ \A i \in 1 .. Len(Inside(w)) : Inside(w)[i] = w[open + i]
  BY <1>5, <1>7, CallIs
<1> HIDE DEF open
<1>10. open = m + 1
  <2>1. ~(open < m + 1)
    <3>1. SUFFICES ASSUME open < m + 1 PROVE FALSE
      OBVIOUS
    <3>2. open \in 1 .. m
      BY <1>5, <1>8, <3>1
    <3>3. w[open] = h[open]
      BY <1>5, <3>2
    <3>4. QED
      BY <1>8, <3>2, <3>3
  <2>2. ~(open > m + 1)
    <3>1. SUFFICES ASSUME open > m + 1 PROVE FALSE
      OBVIOUS
    <3>2. m + 1 \in 1 .. open - 1
      BY <1>5, <1>8, <3>1
    <3>3. QED
      BY <1>6, <1>8, <3>2
  <2>3. QED
    BY <1>5, <1>8, <2>1, <2>2
<1>11. Inside(w) = z
  <2> DEFINE v == Inside(w)
  <2>1. v \in RawText /\ Len(v) = n
    BY <1>3, <1>5, <1>8, <1>9, <1>10
  <2>2. \A i \in 1 .. n : v[i] = z[i]
    BY <1>6, <1>9, <1>10, <2>1
  <2> HIDE DEF v
  <2>3. v = z
    BY <2>1, <2>2, SeqEqual DEF n, RawText
  <2>4. QED
    BY <2>3 DEF v
<1>12. QED
  BY <1>5, <1>7, <1>10, <1>11 DEF w, x, y, o, c, open

LEMMA HasOpenBlanks ==
  ASSUME NEW s \in RawText
  PROVE  HasOpen(s) <=> HasOpen(NoBlanks[s])
<1>1. Opening # Gap
  BY MarksAre
<1>2. QED
  BY <1>1, NoBlanksChars DEF HasOpen

LEMMA InvalidIsNot ==
  /\ \A t \in RawText : Name(t) = Invalid <=> t = <<>>
  /\ \A n, args : Call(n, args) # Invalid
BY DEF Name, Invalid, Call

(* A name by itself.                                                       *)
LEMMA AcceptedName ==
  ASSUME NEW s \in Typable, ~HasOpen(TrimSpace(s))
  PROVE  ParseExpression[s] # Invalid <=> IsExpression(NoBlanks[s])
<1> DEFINE t == TrimSpace(s)
           w == NoBlanks[s]
<1>0. s \in RawText /\ t \in RawText /\ w = NoBlanks[t] /\ (t = <<>> <=> w = <<>>) /\ w \in RawText
  BY TypableIs, TrimIs, NoBlanksIsText
<1>1. ~HasOpen(w)
  BY <1>0, HasOpenBlanks
<1>2. IsExpression(w) <=> w # <<>> /\ \A i \in 1 .. Len(w) : w[i] \in Letters
  BY <1>0, <1>1, ExpressionIs
<1>3. ParseExpression[s] # Invalid <=> t # <<>> /\ OnlyName(t)
  <2>1. ParseExpression[s] # Invalid => IsName(s)
    BY ParseCases DEF IsCall
  <2>2. IsName(s) => OnlyName(t) /\ ParseExpression[s] = Name(t)
    BY DEF IsName
  <2>3. OnlyName(t) => IsName(s)
    BY ParseCases
  <2>4. Name(t) = Invalid <=> t = <<>>
    BY <1>0, InvalidIsNot
  <2> HIDE DEF t
  <2>5. QED
    BY <2>1, <2>2, <2>3, <2>4
<1>4. OnlyName(t) <=> \A i \in 1 .. Len(t) : t[i] # Closing /\ t[i] # Brace /\ t[i] # Comma
  <2>1. DOMAIN t = 1 .. Len(t)
    BY <1>0, LenProperties DEF RawText
  <2>2. OnlyName(t) <=> \A c \in ToSet(t) : c # Closing /\ c # Brace /\ c # Comma
    BY DEF OnlyName, Closing, Brace, Comma
  <2>3. ToSet(t) = {t[i] : i \in 1 .. Len(t)}
    BY <2>1 DEF ToSet
  <2> HIDE DEF t, OnlyName
  <2>4. QED
    BY <2>2, <2>3
<1>5. Solid(w) /\ \A c : c # Gap => ((\E i \in 1 .. Len(t) : t[i] = c) <=> \E i \in 1 .. Len(w) : w[i] = c)
  <2> HIDE DEF t, w
  <2>1. /\ Solid(NoBlanks[t])
        /\ \A c : c # Gap => ((\E i \in 1 .. Len(t) : t[i] = c) <=>
                                   \E i \in 1 .. Len(NoBlanks[t]) : NoBlanks[t][i] = c)
    BY <1>0, NoBlanksChars
  <2>2. w = NoBlanks[t]
    BY <1>0
  <2>3. QED
    BY <2>1, <2>2
<1>6. \A i \in 1 .. Len(w) : w[i] \in Alphabet /\ w[i] # Opening /\ w[i] # Gap
  <2>1. \A i \in 1 .. Len(w) : w[i] \in Alphabet
    BY <1>0, Around
  <2>2. QED
    BY <1>1, <1>5, <2>1 DEF HasOpen, Solid
<1> HIDE DEF t, w
<1>7. ASSUME \A i \in 1 .. Len(t) : t[i] # Closing /\ t[i] # Brace /\ t[i] # Comma
      PROVE  \A i \in 1 .. Len(w) : w[i] \in Letters
  <2>1. \A i \in 1 .. Len(w) : w[i] # Closing /\ w[i] # Brace /\ w[i] # Comma
    <3>1. Closing # Gap /\ Brace # Gap /\ Comma # Gap
      BY MarksAre
    <3>2. QED
      BY <1>5, <1>7, <3>1
  <2>2. Alphabet = Letters \cup {Gap, Comma, Opening, Closing, Brace}
    BY MarksAre DEF Marks
  <2>3. QED
    BY <1>6, <2>1, <2>2
<1>8. ASSUME \A i \in 1 .. Len(w) : w[i] \in Letters
      PROVE  \A i \in 1 .. Len(t) : t[i] # Closing /\ t[i] # Brace /\ t[i] # Comma
  <2>1. Closing \notin Letters /\ Brace \notin Letters /\ Comma \notin Letters
    BY MarksAre DEF Marks
  <2>2. Closing # Gap /\ Brace # Gap /\ Comma # Gap
    BY MarksAre
  <2>3. QED
    BY <1>5, <1>8, <2>1, <2>2
<1>9. QED
  BY <1>0, <1>2, <1>3, <1>4, <1>7, <1>8 DEF w

(* A call, without its blanks.                                             *)
LEMMA CallWithoutBlanks ==
  ASSUME NEW t \in RawText, HasOpen(t), Last(t) = Closing
  PROVE  LET hh == NoBlanks[Heading(t)]
             zz == NoBlanks[Inside(t)]
         IN  /\ hh \in RawText /\ zz \in RawText /\ \A i \in 1 .. Len(hh) : hh[i] # Opening
             /\ NoBlanks[t] = hh \o (<<Opening>> \o (zz \o <<Closing>>))
<1> DEFINE h == Heading(t)
           z == Inside(t)
           hh == NoBlanks[h]
           zz == NoBlanks[z]
           o == <<Opening>>
           c == <<Closing>>
<1>1. o \in RawText /\ NoBlanks[o] = o
  <2>1. o \in RawText
    BY OneIs, MarksInAlphabet
  <2>2. NoBlanks[o] = Inked(Opening)
    BY NoBlanksOne, MarksInAlphabet
  <2>3. QED
    BY <2>1, <2>2, MarksAre DEF Inked
<1>2. c \in RawText /\ NoBlanks[c] = c
  <2>1. c \in RawText
    BY OneIs, MarksInAlphabet
  <2>2. NoBlanks[c] = Inked(Closing)
    BY NoBlanksOne, MarksInAlphabet
  <2>3. QED
    BY <2>1, <2>2, MarksAre DEF Inked
<1>3. /\ h \in RawText /\ z \in RawText /\ Len(h) = FirstOpen(t) - 1
      /\ \A i \in 1 .. FirstOpen(t) - 1 : t[i] # Opening
      /\ \A i \in 1 .. FirstOpen(t) - 1 : h[i] = t[i]
  BY OpenIs
<1>4. t = h \o (o \o (z \o c))
  BY CallIs
<1>5. hh \in RawText /\ zz \in RawText
  BY <1>3, NoBlanksIsText
<1> HIDE DEF o, c, h, z
<1>6. NoBlanks[t] = hh \o (o \o (zz \o c))
  <2>1. z \o c \in RawText /\ o \o (z \o c) \in RawText
    BY <1>1, <1>2, <1>3, Together
  <2>2. NoBlanks[h \o (o \o (z \o c))] = NoBlanks[h] \o NoBlanks[o \o (z \o c)]
    BY <1>3, <2>1, NoBlanksTogether
  <2>3. NoBlanks[o \o (z \o c)] = NoBlanks[o] \o NoBlanks[z \o c]
    BY <1>1, <2>1, NoBlanksTogether
  <2>4. NoBlanks[z \o c] = NoBlanks[z] \o NoBlanks[c]
    BY <1>2, <1>3, NoBlanksTogether
  <2>5. QED
    BY <1>1, <1>2, <1>4, <2>2, <2>3, <2>4
<1>7. \A i \in 1 .. Len(hh) : hh[i] # Opening
  <2>1. \A i \in 1 .. Len(h) : h[i] # Opening
    BY <1>3
  <2>2. Opening # Gap
    BY MarksAre
  <2>3. (\E i \in 1 .. Len(h) : h[i] = Opening) <=> \E i \in 1 .. Len(hh) : hh[i] = Opening
    BY <1>3, <2>2, NoBlanksChars
  <2>4. QED
    BY <2>1, <2>3
<1>8. QED
  BY <1>5, <1>6, <1>7 DEF o, c, h, z

(* A call, of which the arguments are read in the same way.                *)
LEMMA AcceptedCall ==
  ASSUME NEW s \in Typable, HasOpen(TrimSpace(s)),
         \A p \in Typable : Len(p) < Len(s) => (ParseExpression[p] # Invalid <=> IsExpression(NoBlanks[p]))
  PROVE  ParseExpression[s] # Invalid <=> IsExpression(NoBlanks[s])
<1> DEFINE t == TrimSpace(s)
           w == NoBlanks[s]
           h == Heading(t)
           z == Inside(t)
           hh == NoBlanks[h]
           zz == NoBlanks[z]
<1>0. s \in RawText /\ t \in RawText /\ w = NoBlanks[t] /\ w \in RawText /\ t # <<>> /\ Len(t) \in Nat
      /\ t[1] # Gap /\ t[Len(t)] # Gap
  <2>1. s \in RawText /\ t \in RawText /\ NoBlanks[t] = w /\ w \in RawText
        /\ (t # <<>> => t[1] # Gap /\ t[Len(t)] # Gap)
    BY TypableIs, TrimIs, NoBlanksIsText
  <2>2. t # <<>>
    BY EmptyText DEF HasOpen
  <2>3. Len(t) \in Nat
    BY <2>1, LenProperties DEF RawText
  <2>4. QED
    BY <2>1, <2>2, <2>3
<1>1. /\ z \in Typable /\ z \in RawText /\ Split(t) \in Seq(RawText)
      /\ \A k \in DOMAIN Split(t) : Split(t)[k] \in Typable /\ Len(Split(t)[k]) < Len(s)
  BY ArgsAreShorter, TypableIs
<1>2. ParseExpression[s] # Invalid <=>
        /\ Last(t) = Closing /\ FirstOpen(t) # 1 /\ balanced(z)
        /\ \A k \in DOMAIN Split(t) : ParseExpression[Split(t)[k]] # Invalid
  <2>1. ParseExpression[s] # Invalid => IsCall(s)
    BY ParseCases DEF IsName
  <2>2. IsCall(s) =>
          /\ Last(t) = Closing /\ FirstOpen(t) # 1 /\ balanced(z)
          /\ \A k \in DOMAIN Split(t) : ParseExpression[Split(t)[k]] # Invalid
          /\ ParseExpression[s] # Invalid
    BY InvalidIsNot DEF IsCall
  <2>3. /\ Last(t) = Closing /\ FirstOpen(t) # 1 /\ balanced(z)
        /\ \A k \in DOMAIN Split(t) : ParseExpression[Split(t)[k]] # Invalid
        => IsCall(s)
    BY ParseCases DEF NotCall
  <2> HIDE DEF t, z
  <2>4. QED
    BY <2>1, <2>2, <2>3
<1>3. (\A k \in DOMAIN Split(t) : ParseExpression[Split(t)[k]] # Invalid) <=> Valid(Split(t))
  BY <1>1, TypableIs DEF Valid, Every
<1>4. balanced(z) /\ Valid(Split(t)) <=> IsArguments(zz)
  <2>1. Split(t) = IF zz = <<>> THEN <<>> ELSE parts[z]
    BY <1>1, SplitIs DEF Split
  <2>2. (balanced(zz) <=> balanced(z)) /\ zz \in RawText
    BY <1>1, BalancedBlanks
  <2>3. IsArguments(zz) <=> zz = <<>> \/ Fits(zz)
    BY <2>2, ArgumentsAre
  <2>4. CASE zz = <<>>
    <3>1. Valid(Split(t))
      <4>1. DOMAIN Split(t) = {}
        BY <2>1, <2>4
      <4>2. QED
        BY <4>1 DEF Valid, Every
    <3>2. balanced(zz)
      <4>1. balanced(<<>>)
        <5>1. Final(<<>>) = 0 /\ Behaves(<<>>, 0)
          BY EmptyText, DepthIs DEF Final, Behaves
        <5>2. QED
          BY <5>1, EmptyText, BalancedIs
      <4>2. QED
        BY <2>4, <4>1
    <3>3. QED
      BY <2>2, <2>3, <2>4, <3>1, <3>2
  <2>5. CASE zz # <<>>
    <3>1. balanced(z) /\ Valid(parts[z]) <=> zz # <<>> /\ Fits(zz)
      BY <1>1, ListIs
    <3>2. QED
      BY <2>1, <2>3, <2>5, <3>1
  <2>6. QED
    BY <2>4, <2>5
<1>5. HasOpen(w)
  BY <1>0, HasOpenBlanks
<1>6. IsExpression(w) <=> FirstOpen(w) > 1 /\ Last(w) = Closing /\ IsArguments(Inside(w))
  BY <1>0, <1>5, ExpressionIs
<1>7. Last(w) = Last(t)
  BY <1>0, InkAtTheEnds DEF Last
<1>8. CASE Last(t) # Closing
  BY <1>2, <1>6, <1>7, <1>8
<1>9. CASE Last(t) = Closing
  <2> DEFINE o == <<Opening>>
             c == <<Closing>>
  <2>1. /\ h \in RawText /\ Len(h) = FirstOpen(t) - 1 /\ FirstOpen(t) \in 1 .. Len(t)
        /\ \A i \in 1 .. FirstOpen(t) - 1 : t[i] # Opening
        /\ \A i \in 1 .. FirstOpen(t) - 1 : h[i] = t[i]
    BY <1>0, OpenIs
  <2>2. /\ hh \in RawText /\ zz \in RawText /\ \A i \in 1 .. Len(hh) : hh[i] # Opening
        /\ w = hh \o (o \o (zz \o c))
    BY <1>0, <1>9, CallWithoutBlanks
  <2>3. FirstOpen(w) = Len(hh) + 1 /\ Inside(w) = zz
    <3> DEFINE u == hh \o (o \o (zz \o c))
    <3> HIDE DEF hh, zz
    <3>1. FirstOpen(u) = Len(hh) + 1 /\ Inside(u) = zz
      BY <2>2, CallOf
    <3>2. w = u
      BY <2>2
    <3> HIDE DEF u, w
    <3>3. QED
      BY <3>1, <3>2
  <2>4. Len(hh) \in Nat /\ (hh = <<>> <=> Len(hh) = 0)
    BY <2>2, EmptyText, LenProperties, EmptySeq DEF RawText
  <2>5. hh = <<>> <=> FirstOpen(t) = 1
    <3>1. CASE FirstOpen(t) = 1
      <4>1. h = <<>>
        BY <2>1, <3>1, EmptyText, EmptySeq DEF RawText
      <4>2. QED
        BY <3>1, <4>1, NoBlanksIs
    <3>2. CASE FirstOpen(t) # 1
      <4> DEFINE open == FirstOpen(t)
      <4>1. open - 1 \in Nat /\ open - 1 >= 1
        BY <1>0, <2>1, <3>2
      <4> HIDE DEF open, h, t
      <4>2. Len(h) >= 1 /\ 1 \in 1 .. open - 1
        BY <2>1, <4>1 DEF open
      <4>3. h # <<>> /\ h[1] # Gap
        BY <1>0, <2>1, <4>2, EmptyText DEF open
      <4>4. hh # <<>>
        BY <2>1, <4>3, InkAtTheEnds
      <4>5. QED
        BY <3>2, <4>4
    <3>3. QED
      BY <3>1, <3>2
  <2>6. FirstOpen(w) > 1 <=> FirstOpen(t) # 1
    <3> HIDE DEF t, w, hh
    <3>1. QED
      BY <2>3, <2>4, <2>5
  <2>7. IsExpression(w) <=> FirstOpen(t) # 1 /\ IsArguments(zz)
    <3> HIDE DEF t, w, zz
    <3>1. QED
      BY <1>6, <1>7, <1>9, <2>3, <2>6
  <2> HIDE DEF t, w, z, zz
  <2>8. QED
    BY <1>2, <1>3, <1>4, <1>9, <2>7 DEF w
<1>10. QED
  BY <1>8, <1>9

(* The parser is exact, for every text.                                    *)
LEMMA AcceptedIs ==
  \A s \in Typable : ParseExpression[s] # Invalid <=> IsExpression(NoBlanks[s])
<1> DEFINE Good(s) == ParseExpression[s] # Invalid <=> IsExpression(NoBlanks[s])
           T == {s \in RawText : s \in Typable => Good(s)}
<1>1. ASSUME NEW s \in RawText, \A t \in RawText : Len(t) < Len(s) => t \in T, s \in Typable
      PROVE  Good(s)
  <2>1. \A p \in Typable : Len(p) < Len(s) => Good(p)
    BY <1>1, TypableIs
  <2>2. QED
    BY <1>1, <2>1, AcceptedName, AcceptedCall
<1>2. ASSUME NEW s \in RawText, \A t \in RawText : Len(t) < Len(s) => t \in T PROVE s \in T
  BY <1>1, <1>2
<1> HIDE DEF T
<1>3. RawText \subseteq T
  BY <1>2, LengthInduction
<1>4. QED
  BY <1>3, TypableIs DEF T

-----------------------------------------------------------------------------
(* What comes back from a file.                                            *)

EmptyCall(t) == \E i \in 1 .. Len(t) - 1 : t[i] = Opening /\ t[i + 1] = Closing

LEMMA EmptyCallTogether ==
  ASSUME NEW p \in RawText, NEW q \in RawText
  PROVE  EmptyCall(p \o q) <=>
           \/ EmptyCall(p) \/ EmptyCall(q)
           \/ p # <<>> /\ q # <<>> /\ p[Len(p)] = Opening /\ q[1] = Closing
<1> DEFINE R == {pair \in Alphabet \X Alphabet : ~(pair[1] = Opening /\ pair[2] = Closing)}
<1>1. \A c, d \in Alphabet : <<c, d>> \in R <=> ~(c = Opening /\ d = Closing)
  OBVIOUS
<1> HIDE DEF R
<1>2. ASSUME NEW t \in RawText PROVE ~EmptyCall(t) <=> Pairs(R, t)
  <2>1. ASSUME NEW i \in 1 .. Len(t) - 1
        PROVE  <<t[i], t[i + 1]>> \in R <=> ~(t[i] = Opening /\ t[i + 1] = Closing)
    <3>1. Len(t) \in Nat
      BY LenProperties DEF RawText
    <3>2. i \in 1 .. Len(t) /\ i + 1 \in 1 .. Len(t)
      BY <3>1
    <3>3. t[i] \in Alphabet /\ t[i + 1] \in Alphabet
      BY <3>2, Around
    <3>4. QED
      BY <1>1, <3>3
  <2>2. QED
    BY <2>1 DEF EmptyCall, Pairs
<1>3. ~EmptyCall(<<>>)
  BY EmptyText DEF EmptyCall
<1>4. CASE p = <<>>
  BY <1>3, <1>4, EmptyText
<1>5. CASE q = <<>>
  BY <1>3, <1>5, EmptyText
<1>6. CASE p # <<>> /\ q # <<>>
  <2>1. /\ Pairs(R, p \o q) <=> Pairs(R, p) /\ Pairs(R, q) /\ <<p[Len(p)], q[1]>> \in R
        /\ p \o q \in RawText
    BY <1>6, PairsTogether
  <2>2. p[Len(p)] \in Alphabet /\ q[1] \in Alphabet
    <3>1. Len(p) \in 1 .. Len(p) /\ 1 \in 1 .. Len(q)
      BY <1>6, EmptyText, LenProperties DEF RawText
    <3>2. QED
      BY <3>1, Around
  <2>3. (~EmptyCall(p) <=> Pairs(R, p)) /\ (~EmptyCall(q) <=> Pairs(R, q))
        /\ (~EmptyCall(p \o q) <=> Pairs(R, p \o q))
    BY <1>2, <2>1
  <2>4. QED
    BY <1>1, <1>6, <2>1, <2>2, <2>3
<1>7. QED
  BY <1>4, <1>5, <1>6

(* The parts of a text without a call without arguments have none.         *)
Filled(texts) == Every({t \in RawText : ~EmptyCall(NoBlanks[t])}, texts)

LEMMA FilledParts == \A u \in Typable : Filled(parts[u]) <=> ~EmptyCall(NoBlanks[u])
<1> DEFINE Good(u) == Filled(parts[u]) <=> ~EmptyCall(NoBlanks[u])
           T == {u \in RawText : u \in Typable => Good(u)}
           S == {t \in RawText : ~EmptyCall(NoBlanks[t])}
<1>0. \A t \in RawText : t \in S <=> ~EmptyCall(NoBlanks[t])
  OBVIOUS
<1>1. ASSUME NEW u \in RawText, \A v \in RawText : Len(v) < Len(u) => v \in T, u \in Typable
      PROVE  Good(u)
  <2>1. CASE separators(u) = {}
    <3> DEFINE a == TrimSpace(u)
               none == <<>>
    <3>0. none \in Seq(RawText)
      OBVIOUS
    <3>1. a \in RawText /\ NoBlanks[a] = NoBlanks[u] /\ parts[u] = <<a>>
      BY <1>1, <2>1, PartsIs, TrimIs
    <3> HIDE DEF a, none, S
    <3>2. Every(S, <<a>>) <=> a \in S
      BY <3>0, <3>1, EveryTogether
    <3>3. QED
      BY <1>0, <3>1, <3>2 DEF Filled, S
  <2>2. CASE separators(u) # {}
    <3> DEFINE x == Before(u)
               y == Behind(u)
               c == <<Comma>>
               a == TrimSpace(x)
               b == parts[y]
    <3>1. /\ x \in RawText /\ y \in RawText /\ Len(y) < Len(u) /\ y \in Typable
          /\ u = x \o (c \o y) /\ Len(u) \in Nat
      BY <1>1, <2>2, CutIs, TypableIs, LenProperties DEF RawText
    <3>2. /\ parts[u] = <<a>> \o b /\ a \in RawText /\ NoBlanks[a] = NoBlanks[x] /\ b \in Seq(RawText)
      BY <1>1, <2>2, <3>1, PartsIs, TrimIs, PartsAre
    <3>3. Good(y)
      BY <1>1, <3>1
    <3> HIDE DEF x, y
    <3>4. Filled(parts[u]) <=> ~EmptyCall(NoBlanks[x]) /\ ~EmptyCall(NoBlanks[y])
      <4>0. Every(S, b) <=> ~EmptyCall(NoBlanks[y])
        BY <3>3 DEF Filled
      <4>1. a \in S <=> ~EmptyCall(NoBlanks[x])
        BY <3>2
      <4> HIDE DEF a, b, S
      <4>2. Every(S, <<a>> \o b) <=> a \in S /\ Every(S, b)
        BY <3>2, EveryTogether
      <4>3. QED
        BY <3>2, <4>0, <4>1, <4>2 DEF Filled, S
    <3>5. c \in RawText /\ NoBlanks[c] = c /\ c # <<>> /\ Len(c) = 1 /\ c[1] = Comma /\ c[Len(c)] = Comma
      <4>1. c \in RawText /\ c # <<>> /\ Len(c) = 1 /\ c[1] = Comma /\ c[Len(c)] = Comma
        BY OneIs, MarksInAlphabet
      <4>2. NoBlanks[c] = Inked(Comma)
        BY NoBlanksOne, MarksInAlphabet
      <4>3. QED
        BY <4>1, <4>2, MarksAre DEF Inked
    <3>6. Comma # Opening /\ Comma # Closing
      BY MarksAre
    <3> HIDE DEF c
    <3> DEFINE xx == NoBlanks[x]
               yy == NoBlanks[y]
               r == c \o yy
    <3>7. NoBlanks[u] = xx \o r
      <4>1. c \o y \in RawText
        BY <3>1, <3>5, Together
      <4>2. NoBlanks[x \o (c \o y)] = NoBlanks[x] \o NoBlanks[c \o y]
        BY <3>1, <4>1, NoBlanksTogether
      <4>3. NoBlanks[c \o y] = NoBlanks[c] \o NoBlanks[y]
        BY <3>1, <3>5, NoBlanksTogether
      <4>4. QED
        BY <3>1, <3>5, <4>2, <4>3
    <3>8. xx \in RawText /\ yy \in RawText
      BY <3>1, NoBlanksIsText
    <3> HIDE DEF xx, yy
    <3>9. ~EmptyCall(c)
      BY <3>5 DEF EmptyCall
    <3>10. r \in RawText /\ (EmptyCall(r) <=> EmptyCall(yy)) /\ r[1] = Comma
      <4>1. EmptyCall(c \o yy) <=>
              \/ EmptyCall(c) \/ EmptyCall(yy)
              \/ c # <<>> /\ yy # <<>> /\ c[Len(c)] = Opening /\ yy[1] = Closing
        BY <3>5, <3>8, EmptyCallTogether
      <4>2. c \o yy \in RawText /\ \A i \in 1 .. Len(c) : (c \o yy)[i] = c[i]
        BY <3>5, <3>8, Together
      <4>3. 1 \in 1 .. Len(c)
        BY <3>5
      <4>4. (c \o yy)[1] = c[1]
        BY <4>2, <4>3
      <4>5. QED
        BY <3>5, <3>6, <3>9, <4>1, <4>2, <4>4
    <3> HIDE DEF r
    <3>11. EmptyCall(xx \o r) <=> EmptyCall(xx) \/ EmptyCall(yy)
      BY <3>6, <3>8, <3>10, EmptyCallTogether
    <3>12. QED
      BY <3>4, <3>7, <3>11 DEF xx, yy
  <2>3. QED
    BY <2>1, <2>2
<1>2. ASSUME NEW u \in RawText, \A v \in RawText : Len(v) < Len(u) => v \in T PROVE u \in T
  BY <1>1, <1>2
<1> HIDE DEF T
<1>3. RawText \subseteq T
  BY <1>2, LengthInduction
<1>4. QED
  BY <1>3, TypableIs DEF T

(* A call without arguments in the text of a call.                         *)
LEMMA EmptyCallIn ==
  ASSUME NEW h \in RawText, NEW z \in RawText, \A i \in 1 .. Len(h) : h[i] # Opening, balanced(z)
  PROVE  EmptyCall(h \o (<<Opening>> \o (z \o <<Closing>>))) <=> z = <<>> \/ EmptyCall(z)
<1> DEFINE o == <<Opening>>
           c == <<Closing>>
           y == z \o c
           x == o \o y
<1>1. /\ o \in RawText /\ o # <<>> /\ Len(o) = 1 /\ o[1] = Opening /\ o[Len(o)] = Opening
  BY OneIs, MarksInAlphabet
<1>2. /\ c \in RawText /\ c # <<>> /\ Len(c) = 1 /\ c[1] = Closing /\ c[Len(c)] = Closing
  BY OneIs, MarksInAlphabet
<1> HIDE DEF o, c
<1>3. ~EmptyCall(o) /\ ~EmptyCall(c)
  BY <1>1, <1>2 DEF EmptyCall
<1>4. ~EmptyCall(h)
  <2>1. Len(h) \in Nat
    BY LenProperties DEF RawText
  <2>2. \A i \in 1 .. Len(h) - 1 : i \in 1 .. Len(h)
    BY <2>1
  <2>3. QED
    BY <2>2 DEF EmptyCall
<1>5. h # <<>> => h[Len(h)] # Opening
  <2>1. h # <<>> => Len(h) \in 1 .. Len(h)
    BY EmptyText, LenProperties DEF RawText
  <2>2. QED
    BY <2>1
<1>6. /\ y \in RawText /\ y # <<>> /\ (EmptyCall(y) <=> EmptyCall(z))
      /\ (y[1] = Closing <=> z = <<>>)
  <2>1. CASE z = <<>>
    <3>1. z \o c = c
      BY <1>2, <2>1, EmptyText
    <3>2. ~EmptyCall(z)
      BY <2>1, EmptyText DEF EmptyCall
    <3>3. QED
      BY <1>2, <1>3, <2>1, <3>1, <3>2
  <2>2. CASE z # <<>>
    <3>1. z[1] # Closing /\ z[Len(z)] # Opening
      BY <2>2, BalancedEnds
    <3>2. EmptyCall(z \o c) <=>
            \/ EmptyCall(z) \/ EmptyCall(c)
            \/ z # <<>> /\ c # <<>> /\ z[Len(z)] = Opening /\ c[1] = Closing
      BY <1>2, EmptyCallTogether
    <3>3. z \o c \in RawText /\ z \o c # <<>> /\ (z \o c)[1] = z[1]
      <4> DEFINE R == Alphabet \X Alphabet
      <4> HIDE DEF R
      <4>1. z \o c \in RawText /\ z \o c # <<>> /\ (z \o c)[1] = z[1]
        BY <1>2, <2>2, PairsTogether
      <4>2. QED
        BY <4>1
    <3>4. QED
      BY <1>3, <2>2, <3>1, <3>2, <3>3
  <2>3. QED
    BY <2>1, <2>2
<1> HIDE DEF y
<1>7. x \in RawText /\ (EmptyCall(x) <=> z = <<>> \/ EmptyCall(z))
  <2>1. EmptyCall(o \o y) <=>
          \/ EmptyCall(o) \/ EmptyCall(y)
          \/ o # <<>> /\ y # <<>> /\ o[Len(o)] = Opening /\ y[1] = Closing
    BY <1>1, <1>6, EmptyCallTogether
  <2>2. o \o y \in RawText
    BY <1>1, <1>6, Together
  <2>3. QED
    BY <1>1, <1>3, <1>6, <2>1, <2>2
<1> HIDE DEF x
<1>8. EmptyCall(h \o x) <=> EmptyCall(x)
  BY <1>4, <1>5, <1>7, EmptyCallTogether
<1>9. QED
  BY <1>7, <1>8 DEF x, y, o, c

(* An expression comes back as it is unless it has a call without          *)
(* arguments, whatever it is.                                              *)
LEMMA LoadedBack ==
  \A s \in Typable :
    ParseExpression[s] # Invalid =>
      (Loaded[ParseExpression[s]] = ParseExpression[s] <=> ~EmptyCall(NoBlanks[s]))
<1> DEFINE f == ParseExpression
           Good(s) == f[s] # Invalid => (Loaded[f[s]] = f[s] <=> ~EmptyCall(NoBlanks[s]))
           T == {s \in RawText : s \in Typable => Good(s)}
<1>1. ASSUME NEW s \in RawText, \A t \in RawText : Len(t) < Len(s) => t \in T, s \in Typable,
             f[s] # Invalid
      PROVE  Loaded[f[s]] = f[s] <=> ~EmptyCall(NoBlanks[s])
  <2> DEFINE t == TrimSpace(s)
             w == NoBlanks[s]
             e == f[s]
  <2>0. t \in RawText /\ NoBlanks[t] = w /\ e \in Exprs
    BY <1>1, TrimIs, ParseTyped
  <2>1. CASE IsName(s)
    <3>1. e = Name(t) /\ ~HasOpen(t)
      BY <2>1 DEF IsName
    <3>2. ~HasOpen(w)
      BY <2>0, <3>1, HasOpenBlanks
    <3>3. ~EmptyCall(w)
      <4>1. Len(w) \in Nat
        BY <1>1, NoBlanksIsText, LenProperties DEF RawText
      <4>2. \A i \in 1 .. Len(w) - 1 : i \in 1 .. Len(w)
        BY <4>1
      <4>3. QED
        BY <3>2, <4>2 DEF EmptyCall, HasOpen
    <3> HIDE DEF e, w
    <3>4. Loaded[e] = e
      BY <2>0, <3>1, LoadedIs DEF Name
    <3>5. QED
      BY <3>3, <3>4 DEF e, w
  <2>2. CASE IsCall(s)
    <3> DEFINE p == Split(t)
               z == Inside(t)
               zz == NoBlanks[z]
               hh == NoBlanks[Heading(t)]
               n == TrimSpace(Heading(t))
               args == Args(f, t)
               back == [k \in DOMAIN args |-> Loaded[args[k]]]
    <3>1. /\ HasOpen(t) /\ Last(t) = Closing /\ e = Call(n, args) /\ balanced(z)
          /\ \A k \in DOMAIN p : f[p[k]] # Invalid
      BY <2>2 DEF IsCall
    <3>2. /\ z \in Typable /\ z \in RawText /\ p \in Seq(RawText)
          /\ \A k \in DOMAIN p : p[k] \in Typable /\ p[k] \in RawText /\ Len(p[k]) < Len(s)
      BY <1>1, <3>1, ArgsAreShorter, TypableIs
    <3>3. DOMAIN args = DOMAIN p /\ (\A k \in DOMAIN p : args[k] = f[p[k]])
          /\ args = [k \in DOMAIN p |-> args[k]]
      BY DEF Args
    <3>4. EmptyCall(w) <=> zz = <<>> \/ EmptyCall(zz)
      <4>1. /\ hh \in RawText /\ zz \in RawText /\ \A i \in 1 .. Len(hh) : hh[i] # Opening
            /\ NoBlanks[t] = hh \o (<<Opening>> \o (zz \o <<Closing>>))
        BY <2>0, <3>1, CallWithoutBlanks
      <4>2. balanced(zz)
        BY <3>1, <3>2, BalancedBlanks
      <4> HIDE DEF hh, zz
      <4> DEFINE u == hh \o (<<Opening>> \o (zz \o <<Closing>>))
      <4>3. EmptyCall(u) <=> zz = <<>> \/ EmptyCall(zz)
        BY <4>1, <4>2, EmptyCallIn
      <4>4. w = u
        BY <2>0, <4>1
      <4> HIDE DEF u, w
      <4>5. QED
        BY <4>3, <4>4
    <3>5. p = IF zz = <<>> THEN <<>> ELSE parts[z]
      BY <3>2, SplitIs DEF Split
    <3>6. ASSUME NEW k \in DOMAIN p PROVE Loaded[args[k]] = args[k] <=> ~EmptyCall(NoBlanks[p[k]])
      <4>1. p[k] \in T /\ p[k] \in Typable /\ f[p[k]] # Invalid
        BY <1>1, <3>1, <3>2
      <4>2. Loaded[f[p[k]]] = f[p[k]] <=> ~EmptyCall(NoBlanks[p[k]])
        BY <4>1
      <4>3. QED
        BY <3>3, <4>2
    <3> HIDE DEF p, z, zz, w, args, f
    <3>7. Loaded[e] = FromFile(n, back)
      <4>1. e.call /\ e.name = n /\ e.args = args
        BY <3>1 DEF Call
      <4> HIDE DEF e, n
      <4>2. QED
        BY <2>0, <4>1, LoadedIs
    <3>8. CASE zz = <<>>
      <4>1. p = <<>>
        BY <3>5, <3>8
      <4>2. DOMAIN back = {}
        BY <3>3, <4>1
      <4>3. back = <<>>
        BY <4>2
      <4>4. Loaded[e] = Name(n)
        BY <3>7, <4>3 DEF FromFile
      <4>5. Name(n) # Call(n, args)
        BY DEF Name, Call
      <4>6. Loaded[e] # e
        BY <3>1, <4>4, <4>5
      <4>7. QED
        BY <3>4, <3>8, <4>6 DEF w
    <3>9. CASE zz # <<>>
      <4>1. p = parts[z] /\ p # <<>> /\ DOMAIN p # {}
        <5>1. p = parts[z] /\ p # <<>>
          BY <3>2, <3>5, <3>9, PartsAre
        <5>2. DOMAIN p = 1 .. Len(p) /\ Len(p) >= 1
          BY <3>2, <5>1, LenProperties, EmptySeq
        <5>3. QED
          BY <5>1, <5>2
      <4>2. back # <<>>
        <5>1. DOMAIN back # {}
          BY <3>3, <4>1
        <5>2. DOMAIN <<>> = {}
          OBVIOUS
        <5> HIDE DEF back
        <5>3. QED
          BY <5>1, <5>2
      <4>3. Loaded[e] = Call(n, back)
        BY <3>7, <4>2 DEF FromFile
      <4>4. Call(n, back) = Call(n, args) <=> back = args
        BY DEF Call
      <4>5. back = args <=> \A k \in DOMAIN p : Loaded[args[k]] = args[k]
        <5>1. back = [k \in DOMAIN p |-> Loaded[args[k]]]
          BY <3>3
        <5> HIDE DEF back
        <5>2. ASSUME back = args, NEW k \in DOMAIN p PROVE Loaded[args[k]] = args[k]
          BY <5>1, <5>2
        <5>3. ASSUME \A k \in DOMAIN p : Loaded[args[k]] = args[k] PROVE back = args
          BY <3>3, <5>1, <5>3
        <5>4. QED
          BY <5>2, <5>3
      <4>6. (\A k \in DOMAIN p : Loaded[args[k]] = args[k]) <=> Filled(p)
        BY <3>2, <3>6 DEF Filled, Every
      <4>7. Filled(p) <=> ~EmptyCall(zz)
        BY <3>2, <4>1, FilledParts DEF zz
      <4> HIDE DEF back, e, n
      <4>8. Loaded[e] = e <=> ~EmptyCall(zz)
        BY <3>1, <4>3, <4>4, <4>5, <4>6, <4>7
      <4>9. QED
        BY <3>4, <3>9, <4>8 DEF e, w, f
    <3>10. QED
      BY <3>8, <3>9
  <2>3. QED
    BY <1>1, <2>1, <2>2, ParseCases
<1>2. ASSUME NEW s \in RawText, \A t \in RawText : Len(t) < Len(s) => t \in T PROVE s \in T
  BY <1>1, <1>2
<1> HIDE DEF T
<1>3. RawText \subseteq T
  BY <1>2, LengthInduction
<1>4. QED
  BY <1>3, TypableIs DEF T

-----------------------------------------------------------------------------
(* The theorems.                                                           *)

(* What is typed is a text of the bounded length.                          *)
TypeInv == raw \in Typable

(* TypeInv: ParseExpression is only ever given texts that it is defined    *)
(* for, whatever was typed before.                                         *)
THEOREM TypeIsCorrect == ExprSpec => []TypeInv
<1>1. ExprInit => TypeInv
  BY TypableIs DEF ExprInit, TypeInv
<1>2. TypeInv /\ [ExprNext]_raw => TypeInv'
  <2>1. SUFFICES ASSUME raw \in Typable, [ExprNext]_raw PROVE raw' \in Typable
    BY DEF TypeInv
  <2>2. CASE ExprNext
    <3>1. PICK c \in Alphabet : Type(c)
      BY <2>2 DEF ExprNext
    <3>2. raw' = Append(raw, c) /\ raw \in RawText
      BY <2>1, <3>1, TypableIs DEF Type
    <3>3. raw' \in RawText
      BY <3>2, AppendProperties DEF RawText
    <3>4. Len(raw') \in Nat
      BY <3>3, LenProperties DEF RawText
    <3>5. Len(raw') <= MaxLength
      <4>1. Len(raw') <= MaxLength \/ Len(raw') <= MaxLengthAny
        BY <3>1 DEF Type
      <4>2. QED
        BY <3>4, <4>1, LengthsAssumption
    <3>6. QED
      BY <3>3, <3>5, TypableIs
  <2>3. CASE UNCHANGED raw
    BY <2>1, <2>3
  <2>4. QED
    BY <2>1, <2>2, <2>3
<1>3. QED
  BY <1>1, <1>2, PTL DEF ExprSpec

(* RoundTrip, for names and lengths of any kind: ParseExpression drops,    *)
(* invents and moves nothing.                                              *)
THEOREM PrintedAsWritten == ExprSpec => []RoundTrip
<1>1. TypeInv => RoundTrip
  BY Printed DEF TypeInv, RoundTrip, Accepted, parsed
<1>2. QED
  BY <1>1, TypeIsCorrect, PTL

(* ParserIsExact, for names and lengths of any kind: the recursive descent *)
(* of ParseExpression and splitExpressionArgs accepts what the definition  *)
(* by neighbouring characters says.                                        *)
THEOREM AcceptsExactly == ExprSpec => []ParserIsExact
<1>1. TypeInv => ParserIsExact
  BY AcceptedIs DEF TypeInv, ParserIsExact, Accepted, parsed
<1>2. QED
  BY <1>1, TypeIsCorrect, PTL

(* ReloadedUnlessEmptyCall, for names and lengths of any kind: what a file *)
(* of proofs loses of an expression is the empty list of arguments.        *)
THEOREM ReloadsTheSame == ExprSpec => []ReloadedUnlessEmptyCall
<1>1. TypeInv => ReloadedUnlessEmptyCall
  BY LoadedBack DEF TypeInv, ReloadedUnlessEmptyCall, Accepted, parsed, EmptyCall, Opening, Closing
<1>2. QED
  BY <1>1, TypeIsCorrect, PTL
=============================================================================
