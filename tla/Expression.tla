----------------------------- MODULE Expression -----------------------------
(***************************************************************************)
(* ParseExpression and splitExpressionArgs (internal/meta/typecheck.go) on *)
(* whatever somebody types into the expr field of a case, character by     *)
(* character, and what a file of proofs keeps of the result.               *)
(***************************************************************************)
EXTENDS Integers, SequencesExt, FiniteSetsExt

CONSTANTS
  Letters,     \* the characters of names
  MaxLength,   \* bounds the length of an expression of names, commas and parentheses
  MaxLengthAny \* bounds the length of an expression that has braces or blanks, too

ASSUME LettersAssumption == Letters \cap {"(", ")", ",", "{", " "} = {}

ASSUME LengthsAssumption == MaxLength \in Nat /\ MaxLengthAny \in 0 .. MaxLength

(* The characters that ParseExpression looks for, with one of the two      *)
(* braces, which it treats alike, and a blank.                             *)
Plain == Letters \cup {"(", ")", ","}
Alphabet == Plain \cup {"{", " "}

(* What may be typed, and what it may be read as: expressions that have    *)
(* fewer calls inside each other than that.                                *)
Typable == {text \in Seq(Alphabet) : Len(text) <= MaxLength}

Nested[n \in 0 .. MaxLength] ==
  [name : Seq(Alphabet), call : BOOLEAN, args : IF n = 0 THEN {<<>>} ELSE Seq(Nested[n - 1])]

Exprs == Nested[MaxLength]

VARIABLE raw

TrimSpace(text) ==
  LET ink == {i \in DOMAIN text : text[i] # " "}
  IN  IF ink = {} THEN <<>> ELSE SubSeq(text, Min(ink), Max(ink))

(* How many parentheses are open after the first i characters.             *)
depth(text, i) ==
  Cardinality({j \in 1 .. i : text[j] = "("}) - Cardinality({j \in 1 .. i : text[j] = ")"})

balanced(text) ==
  depth(text, Len(text)) = 0 /\ \A i \in DOMAIN text : depth(text, i) >= 0

(* Mutant: every comma separates.                                          *)
separatorsAnywhere(text) == {i \in DOMAIN text : text[i] = ","}

separators(text) == {i \in DOMAIN text : text[i] = "," /\ depth(text, i) = 0}

(* Mutant: what follows the last comma is forgotten.                       *)
lastPartForgotten(text) == <<>>

lastPart(text) == <<TrimSpace(text)>>

(* What the loop cuts off at each separator, and the rest.  No parenthesis *)
(* is open where it starts again.                                          *)
parts[text \in Typable] ==
  LET cut == Min(separators(text))
  IN  IF separators(text) = {} THEN lastPart(text)
      ELSE <<TrimSpace(SubSeq(text, 1, cut - 1))>> \o parts[SubSeq(text, cut + 1, Len(text))]

(* The arguments, of which an empty one is an error.                       *)
splitExpressionArgs(text) == IF TrimSpace(text) = <<>> THEN <<>> ELSE parts[text]

(* A name by itself has no arguments (nil), a call has a list of them that *)
(* may be empty.  An error is an expression without a name.                *)
Invalid == [name |-> <<>>, call |-> FALSE, args |-> <<>>]
Name(text) == [name |-> text, call |-> FALSE, args |-> <<>>]
Call(name, args) == [name |-> name, call |-> TRUE, args |-> args]

FirstOpen(text) == Min({i \in DOMAIN text : text[i] = "("})

ParseExpression[text \in Typable] ==
  LET trimmed == TrimSpace(text)
      open    == FirstOpen(trimmed)
      inside  == SubSeq(trimmed, open + 1, Len(trimmed) - 1)
      split   == splitExpressionArgs(inside)
      args    == [k \in DOMAIN split |-> ParseExpression[split[k]]]
  IN  IF "(" \notin ToSet(trimmed)
      THEN IF ToSet(trimmed) \cap {")", "{", ","} = {} THEN Name(trimmed) ELSE Invalid
      ELSE IF Last(trimmed) # ")" \/ open = 1 \/ ~balanced(inside) \/ Invalid \in ToSet(args)
      THEN Invalid
      ELSE Call(TrimSpace(SubSeq(trimmed, 1, open - 1)), args)

(* Mutant: lists of arguments come back as they were.                      *)
LoadedCall(name, args) == Call(name, args)

(* An empty list of arguments is left out of a file, and comes back as     *)
(* none.                                                                   *)
FromFile(name, args) == IF args = <<>> THEN Name(name) ELSE Call(name, args)

(* What LoadIR and ProofFor make of an expression in a file of JSON.       *)
Loaded[expr \in Exprs] ==
  IF expr.call THEN FromFile(expr.name, [k \in DOMAIN expr.args |-> Loaded[expr.args[k]]])
  ELSE expr

-----------------------------------------------------------------------------
ExprInit == raw = <<>>

Type(c) ==
  /\ raw' = Append(raw, c)
  /\ Len(raw') <= IF ToSet(raw') \subseteq Plain THEN MaxLength ELSE MaxLengthAny

ExprNext == \E c \in Alphabet : Type(c)

ExprSpec == ExprInit /\ [][ExprNext]_raw

-----------------------------------------------------------------------------
(* Properties.                                                             *)

parsed == ParseExpression[raw]
Accepted == parsed # Invalid

NoBlanks[text \in Seq(Alphabet)] ==
  IF text = <<>> THEN <<>>
  ELSE (IF Head(text) = " " THEN <<>> ELSE <<Head(text)>>) \o NoBlanks[Tail(text)]

Joined[texts \in Seq(Seq(Alphabet))] ==
  IF texts = <<>> THEN <<>>
  ELSE IF Len(texts) = 1 THEN texts[1]
  ELSE texts[1] \o <<",">> \o Joined[Tail(texts)]

Show[expr \in Exprs] ==
  IF ~expr.call THEN expr.name
  ELSE expr.name \o <<"(">> \o Joined[[k \in DOMAIN expr.args |-> Show[expr.args[k]]]] \o <<")">>

(* What the typechecker sees is what was written: printing the parsed      *)
(* expression gives the text back, blanks aside.  No argument, name or     *)
(* nesting is dropped, invented or moved.                                  *)
RoundTrip == Accepted => NoBlanks[Show[parsed]] = NoBlanks[raw]

(* The neighbours a character of an argument list may have, the list being *)
(* put between two commas: f() is a call, f(,) and f((a)) are not.         *)
NameChar == Letters \cup {"{"}

MayFollow ==
  [c \in Alphabet |-> CASE c = "," -> NameChar
                        [] c = "(" -> NameChar \cup {")"}
                        [] c = ")" -> {")", ","}
                        [] OTHER   -> NameChar \cup {"(", ")", ","}]

(* A brace is only let through in the name of a call.                      *)
BracesInCalls(list) ==
  \A i \in DOMAIN list : list[i] = "{" =>
    \E j \in i .. Len(list) : list[j] = "(" /\ \A k \in i .. j : list[k] \in NameChar \cup {"("}

IsArguments(text) ==
  LET list == <<",">> \o text \o <<",">>
  IN  text # <<>> =>
        /\ \A i \in 1 .. Len(list) - 1 : list[i + 1] \in MayFollow[list[i]]
        /\ BracesInCalls(list)
        /\ depth(text, Len(text)) = 0
        /\ \A i \in DOMAIN text : text[i] = ")" => depth(text, i - 1) > 0

(* A definition of the accepted texts that does not follow the parser.  The *)
(* name of the outermost call is whatever comes before the first           *)
(* parenthesis, commas and closing parentheses included.                   *)
IsExpression(text) ==
  IF "(" \notin ToSet(text) THEN text # <<>> /\ ToSet(text) \subseteq Letters
  ELSE LET open == FirstOpen(text)
       IN  open > 1 /\ Last(text) = ")" /\ IsArguments(SubSeq(text, open + 1, Len(text) - 1))

(* The recursive descent accepts exactly those texts, blanks aside: no     *)
(* unbalanced or empty argument gets through and no expression is refused. *)
ParserIsExact == Accepted <=> IsExpression(NoBlanks[raw])

(* An expression comes back from a file of proofs as it was parsed, so     *)
(* that the deep comparisons of verify.go:19 and :30 are of equals, unless *)
(* it has a call without arguments.                                        *)
ReloadedUnlessEmptyCall ==
  LET text == NoBlanks[raw]
      emptyCall == \E i \in 1 .. Len(text) - 1 : text[i] = "(" /\ text[i + 1] = ")"
  IN  Accepted => (Loaded[parsed] = parsed <=> ~emptyCall)
=============================================================================
