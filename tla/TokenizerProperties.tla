------------------------- MODULE TokenizerProperties -------------------------
(* What a text means: the tokens its document defines (doc/tokenizer.pdf,  *)
(* pages 1-3), one after another, each as long as it can be.  It is stated *)
(* on places of the text, without the automaton of module Tokenizer.       *)
EXTENDS Tokenizer

Each(i, j, chars) == \A k \in i .. j : char(k) \in chars
Digits(i, j) == i <= j /\ Each(i, j, Digit)

Word(i, j)  == char(i) \in Alpha /\ Each(i + 1, j, InWord)
Octal(i, j) == char(i) = "0" /\ i < j /\ Each(i + 1, j, ODigit)
HexPrefix(i, j) == char(i) = "0" /\ j = i + 1 /\ char(j) \in {"x", "X"}
Hex(i, j) == HexPrefix(i, i + 1) /\ i + 1 < j /\ Each(i + 2, j, XDigit)

(* Floating-point constants as in C: a point with a digit on either side,  *)
(* or an exponent, or both.                                                *)
Pointed(i, j) ==
    i < j /\ \E d \in i .. j : char(d) = "." /\ Each(i, d - 1, Digit) /\ Each(d + 1, j, Digit)
Mantissa(i, j) == Digits(i, j) \/ Pointed(i, j)
ExponentMark(i, j) ==
    char(i) \in {"e", "E"} /\ (j = i \/ (j = i + 1 /\ char(j) \in {"+", "-"}))
Float(i, j) ==
    \/ Pointed(i, j)
    \/ \E m \in i .. j - 2 : /\ Mantissa(i, m)
                             /\ \E n \in m + 1 .. j - 1 : ExponentMark(m + 1, n) /\ Digits(n + 1, j)

(* The number that is begun but not ended is malformed (testcases.txt,     *)
(* lines 50-56).                                                           *)
Mal(i, j) == HexPrefix(i, j) \/ \E m \in i .. j - 1 : Mantissa(i, m) /\ ExponentMark(m + 1, j)

Operator(i, j) ==
    \/ SubSeq(text, i, j) \in {ops[k] : k \in DOMAIN ops}
    \/ i = j /\ char(i) \in Punct

(* What the strings of the program spell, which a prover does not look     *)
(* into: the characters have codes, the keywords and operators are of such *)
(* characters, no operator is in the array twice or without a name, and of *)
(* two and three characters there are these.                               *)
Pairs ==
    {<<c, c>> : c \in Repeats \cup Angles} \cup {<<c, "=">> : c \in Assigns \cup Angles}
        \cup {<<"-", ">">>}
Triples == {<<c, c, "=">> : c \in Angles}

ASSUME CodeAssumption ==
    Code \in [DOMAIN Code -> Nat] /\ Alpha \cup Digit \cup Punct \subseteq DOMAIN Code
ASSUME KeywordsAssumption == kw \in Seq(Seq(DOMAIN Code))
ASSUME OperatorsAssumption ==
    /\ ops \in Seq(Seq(DOMAIN Code)) /\ Len(opNames) = Len(ops)
    /\ \A k, l \in DOMAIN ops : ops[k] = ops[l] => k = l
    /\ \A k \in DOMAIN ops : opNames[k] # NotThere
    /\ Pairs \cup Triples = {ops[k] : k \in DOMAIN ops} \ {<<c>> : c \in Punct}

Kind(i, j) ==
    CASE Word(i, j)     -> "WORD"
      [] Octal(i, j)    -> "OCTAL"
      [] Hex(i, j)      -> "HEX"
      [] Digits(i, j) /\ ~Octal(i, j) -> "DEC"
      [] Float(i, j)    -> "FLOAT"
      [] Mal(i, j)      -> "MAL"
      [] Operator(i, j) -> "OPE"
      [] i = j /\ char(i) = Control -> "CTR"
      [] OTHER          -> "none"

TokenEnd(i) == Max({j \in i .. Len(text) : Kind(i, j) # "none"})

(* The name to be printed, from the arrays and not from the hash tables.   *)
Name(kind, token) ==
    IF dialect # "c" THEN kind
    ELSE CASE kind = "WORD" -> IF \E k \in DOMAIN kw : kw[k] = token THEN "C-keyword" ELSE "word"
           [] kind = "OPE"  -> IF \E k \in DOMAIN ops : ops[k] = token
                               THEN opNames[CHOOSE k \in DOMAIN ops : ops[k] = token]
                               ELSE "operator"
           [] OTHER         -> typeToString(kind, token)

(* Comments are treated like white space (page 3).                         *)
OpensComment(p) == char(p) = "/" /\ char(p + 1) \in {"/", "*"}
CommentEnd(p) ==
    LET ends == IF char(p + 1) = "/"
                THEN {q \in p + 2 .. Len(text) : char(q) = "\n"}
                ELSE {q \in p + 3 .. Len(text) : char(q - 1) = "*" /\ char(q) = "/"}
    IN  IF ends = {} THEN Len(text) ELSE Min(ends)

(* Where the program is known to read otherwise: a comment after another   *)
(* opener than "/", and what follows a leading zero.  And where it stops:  *)
(* at a byte above 127, and the C tokenizer at a control character.        *)
FalseComment(p) == char(p) \in Openers \ {"/"} /\ char(p + 1) \in {"/", "*"}
ZeroCutShort(p) ==
    /\ char(p) = "0"
    /\ \/ char(p + 1) \in {"8", "9"}
       \/ \E q \in p .. Len(text) : Each(p, q, ODigit) /\ char(q + 1) \in {"e", "E"}
Misread(p) == FalseComment(p) \/ ZeroCutShort(p)
StopsAt(p) ==
    \/ char(p) \notin Blank \cup Digit \cup Alpha \cup Punct \cup {Control}
    \/ char(p) = Control /\ dialect = "c"

(* The tokens of the text from a position on, to the first misread one.    *)
Reading[p \in 1 .. Len(text) + 1] ==
    IF StopsAt(p) \/ Misread(p) THEN <<>>
    ELSE IF char(p) \in Blank THEN Reading[p + 1]
    ELSE IF OpensComment(p) THEN Reading[CommentEnd(p) + 1]
    ELSE LET kind  == Kind(p, TokenEnd(p))
             token == SubSeq(text, p, TokenEnd(p))
         IN  <<[type |-> kind, token |-> token, name |-> Name(kind, token)]>>
                 \o Reading[TokenEnd(p) + 1]

(* Longest match, through every branch of the automaton, every fall        *)
(* through the switch and every chain of the two dictionaries: the tokens  *)
(* the program returns, with their types and names, are those the document *)
(* defines, as far as the first place of the two kinds above.              *)
ReadsAsDocumented ==
    Ended =>
        /\ IsPrefix(Reading[1], tokens)
        /\ tokens # Reading[1] => \E p \in 1 .. Len(text) : Misread(p)

(* curPos never leaves the text and its NUL, though every loop and every   *)
(* skip by two is a ++ of a pointer, and what is copied is the text        *)
(* between begin and curPos.                                               *)
StaysInText ==
    /\ curPos \in 1 .. Len(text) + 1
    /\ begin + length \in 1 .. Len(text) + 1

(* Whatever the text, main's loop ends: no branch returns to where it was  *)
(* without having advanced, not even at the end of an unclosed comment.    *)
EveryTextEnds == <>Ended

=============================================================================
