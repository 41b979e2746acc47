--------------------------- MODULE OutputVerifier ---------------------------
(***************************************************************************)
(* ResultVerifier.verify and OutputNormalizer: when does a program's output *)
(* count as the expected one?  A text is a sequence of characters, of which *)
(* CR, LF and SP (any other white space) matter; the rest are Letters.      *)
(* What float() makes of a token is Value: a number in units of epsilon, or *)
(* an infinity or NaN, or a word (ValueError).                              *)
(***************************************************************************)
EXTENDS Integers, Sequences, FiniteSets, FiniteSetsExt

CONSTANTS
    Letters,    \* characters other than white space
    Value(_),   \* of a token: [kind : {"number", "nonfinite", "word"}, v : Int]
    One,        \* 1.0 in units of epsilon
    MaxText     \* bound: characters in both texts together

CR == "CR"
LF == "LF"
SP == "SP"
Chars == Letters \cup {CR, LF, SP}

ASSUME VerifierAssumption ==
    /\ Letters \cap {CR, LF, SP} = {}
    /\ One \in Nat \ {0}
    /\ MaxText \in Nat
    /\ \A n \in 1..MaxText : \A token \in [1..n -> Letters] :
          Value(token) \in [kind : {"number", "nonfinite", "word"}, v : Int]

-----------------------------------------------------------------------------
(* OutputNormalizer *)

\* A bug: the two replacements in the other order, so that CRLF counts twice.
UnifySwapped(text) == [i \in 1..Len(text) |-> IF text[i] = CR THEN LF ELSE text[i]]

\* The sequences of parts, one after the other.
Concat(parts) ==
    LET all[n \in 0..Len(parts)] == IF n = 0 THEN << >> ELSE all[n - 1] \o parts[n]
    IN  all[Len(parts)]

\* The elements of a sequence that stand at Places, in their order.
At(seq, Places) == Concat([i \in 1..Len(seq) |-> IF i \in Places THEN <<seq[i]>> ELSE << >>])

\* CRLF becomes LF, and then every other CR does.
UnifyLineEnds(text) ==
    At([i \in 1..Len(text) |-> IF text[i] = CR THEN LF ELSE text[i]],
       {i \in 1..Len(text) : ~(text[i] = LF /\ i > 1 /\ text[i - 1] = CR)})

\* str.split: the pieces between the characters of Separators.
Split(text, Separators) ==
    LET found == At([i \in 1..Len(text) |-> i], {i \in 1..Len(text) : text[i] \in Separators})
        cuts  == <<0>> \o found \o <<Len(text) + 1>>
    IN  [k \in 1..(Len(found) + 1) |-> SubSeq(text, cuts[k] + 1, cuts[k + 1] - 1)]

\* A sequence without its longest suffix of elements in Blank.
StripRight(seq, Blank) ==
    SubSeq(seq, 1, Max({0} \cup {i \in 1..Len(seq) : seq[i] \notin Blank}))

\* "\n".join
Join(lines) == Concat([i \in 1..Len(lines) |-> IF i = 1 THEN lines[i] ELSE <<LF>> \o lines[i]])

\* normalize_text
NormalizeText(text) ==
    LET lines    == Split(UnifyLineEnds(text), {LF})
        stripped == [i \in 1..Len(lines) |-> StripRight(lines[i], {SP, LF, CR})]
    IN  Join(StripRight(stripped, {<< >>}))

\* A bug: split at every single separator, as text.split(" ") does.
TokenizeAll(text) == Split(text, {CR, LF, SP})

\* tokenize
Tokenize(text) ==
    LET pieces == Split(text, {CR, LF, SP})
    IN  At(pieces, {i \in 1..Len(pieces) : pieces[i] # << >>})

-----------------------------------------------------------------------------
(* ResultVerifier *)

Distance(a, b) == IF a > b THEN a - b ELSE b - a
AtLeastOne(v)  == Max({One, v, -v})

\* A bug: relative to the submission's own value.
CloseToActual(actual, expected) ==
    \/ Distance(actual, expected) <= 1
    \/ Distance(actual, expected) * One <= AtLeastOne(actual)

\* Within epsilon, absolutely or relative to the expected value.
Close(actual, expected) ==
    \/ Distance(actual, expected) <= 1
    \/ Distance(actual, expected) * One <= AtLeastOne(expected)

\* One token against another: numbers by their distance (with an infinity or
\* NaN on either side it is infinite or NaN, and the comparison fails), and as
\* strings when either is none.
TokenMatches(actual, expected) ==
    LET kinds == {Value(actual).kind, Value(expected).kind}
    IN  IF "word" \in kinds THEN actual = expected
        ELSE "nonfinite" \notin kinds /\ Close(Value(actual).v, Value(expected).v)

\* verify: is_correct, for each comparison mode.
Verify(actual, expected, mode) ==
    CASE mode = "STRICT"     -> actual = expected
      [] mode = "NORMALIZED" -> NormalizeText(actual) = NormalizeText(expected)
      [] mode = "TOKEN"      -> Tokenize(actual) = Tokenize(expected)
      [] mode = "EPSILON"    ->
            LET a == Tokenize(actual)
                e == Tokenize(expected)
            IN  Len(a) = Len(e) /\ \A i \in 1..Len(e) : TokenMatches(a[i], e[i])

-----------------------------------------------------------------------------
(* All pairs of texts, grown character by character *)

VARIABLES actual, expected
texts == <<actual, expected>>

VerifierInit == actual = << >> /\ expected = << >>

VerifierNext ==
    /\ Len(actual) + Len(expected) < MaxText
    /\ \E c \in Chars : \/ actual' = Append(actual, c) /\ UNCHANGED expected
                        \/ expected' = Append(expected, c) /\ UNCHANGED actual

VerifierSpec == VerifierInit /\ [][VerifierNext]_texts

-----------------------------------------------------------------------------
(* Properties *)

\* Line n of a text, found without rewriting it: what stands between the n-1st
\* and the nth line end, and nothing beyond the last.
LineEnds(text) == {i \in 1..Len(text) : \/ text[i] = LF
                                        \/ text[i] = CR /\ (i = Len(text) \/ text[i + 1] # LF)}
Line(text, n) ==
    LET Before(i) == Cardinality({j \in LineEnds(text) : j < i})
        Here == {i \in 1..Len(text) : Before(i) = n - 1 /\ text[i] \in Letters}
    IN  IF Here = {} THEN << >>
        ELSE SubSeq(text, 1 + Max({0} \cup {j \in LineEnds(text) : j < Max(Here)}), Max(Here))

\* The reference for NORMALIZED: the same lines, white space at their ends and
\* empty lines at the end of the text apart.
NormalizedIsLinewise ==
    Verify(actual, expected, "NORMALIZED") <=>
        \A n \in 1..(MaxText + 1) : Line(actual, n) = Line(expected, n)

\* Each mode forgives what the stricter one does; but EPSILON rejects an output
\* that is equal character by character when it holds an infinity or a NaN.
ModesAreNested ==
    /\ Verify(actual, expected, "STRICT") => Verify(actual, expected, "NORMALIZED")
    /\ Verify(actual, expected, "NORMALIZED") => Verify(actual, expected, "TOKEN")
    /\ Verify(actual, expected, "TOKEN") =>
          (Verify(actual, expected, "EPSILON") <=>
              \A i \in 1..Len(Tokenize(expected)) :
                  Value(Tokenize(expected)[i]).kind # "nonfinite")

\* The documented formula: |a - e| / max(1, |e|) <= epsilon for every pair of
\* numbers, equality for everything else.
EpsilonMeetsTheFormula ==
    LET a == Tokenize(actual)
        e == Tokenize(expected)
        Number(t) == Value(t).kind = "number"
    IN  Verify(actual, expected, "EPSILON") =>
          /\ Len(a) = Len(e)
          /\ \A i \in 1..Len(e) :
                \/ a[i] = e[i]
                \/ /\ Number(a[i]) /\ Number(e[i])
                   /\ Distance(Value(a[i]).v, Value(e[i]).v) * One <= AtLeastOne(Value(e[i]).v)
=============================================================================
