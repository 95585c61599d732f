--------------------------- MODULE TokenizerProofs ---------------------------
(***************************************************************************)
(* For every text and every copy of the program: the pointers of the       *)
(* tokenizer stay in the text, each token is the longest one that begins   *)
(* where it does, the dictionaries name it, and all of them together are   *)
(* what the document makes of the text.                                    *)
(***************************************************************************)
EXTENDS TokenizerProperties, TLAPS, FiniteSetTheorems, SequenceTheorems,
        WellFoundedInduction

(* curPos and the token lie in the text.  A token is under way in every    *)
(* state but the ones that skip, and then it reaches up to curPos; the     *)
(* switch of formPuncToken is entered on a character of the text, which it *)
(* takes without looking at it again.                                      *)
Skipping == {"next", "line", "block", "star", "done", "exited"}
Within ==
    /\ Len(text) \in Nat
    /\ curPos \in Nat /\ begin \in Nat /\ length \in Nat
    /\ 1 <= curPos /\ curPos <= Len(text) + 1
    /\ 1 <= begin /\ begin + length <= Len(text) + 1
    /\ state \notin Skipping => curPos = begin + length
    /\ state = "punct" => curPos <= Len(text)

(* A character that is not NUL is one of the text.                         *)
LEMMA CharInText ==
    ASSUME NEW p, char(p) # NUL
    PROVE  p <= Len(text)
BY DEF char

LEMMA InText ==
    ASSUME Within, NEW s, NEW chars, In(s, chars), NUL \notin chars
    PROVE  curPos + 1 <= Len(text) + 1
BY CharInText DEF In, Within

(* NUL is in none of the sets of characters the functions take.            *)
LEMMA NulIsNoCharacter ==
    /\ NUL \notin Digit /\ NUL \notin ODigit /\ NUL \notin XDigit
    /\ NUL \notin Alpha /\ NUL \notin Blank /\ NUL \notin Punct
BY DEF NUL, Digit, ODigit, XDigit, Alpha, Blank, Punct

(* The steps of the helpers, with the look at the character before them.   *)
LEMMA Going ==
    ASSUME Within, NEW s, Go(s), s \in Skipping \/ state \notin Skipping, s # "punct"
    PROVE  Within'
BY DEF Within, Go, Skipping

LEMMA Taking ==
    ASSUME Within, NEW n \in 1 .. 2, NEW s, Take(n, s), s \notin Skipping, s # "punct",
           state \notin Skipping, curPos + n <= Len(text) + 1
    PROVE  Within'
BY DEF Within, Take, Skipping

LEMMA TakingOne ==
    ASSUME Within, NEW r, NEW chars, NEW s, In(r, chars), NUL \notin chars, Take(1, s),
           r \notin Skipping, s \notin Skipping, s # "punct"
    PROVE  Within'
BY InText, Taking DEF In, Within

LEMMA Passing ==
    ASSUME Within, NEW n \in 1 .. 2, NEW s, Skip(n, s), s \in Skipping,
           curPos + n <= Len(text) + 1
    PROVE  Within'
BY DEF Within, Skip, Skipping

LEMMA PassingOne ==
    ASSUME Within, NEW r, NEW chars, NEW s, Skip(1, s), s \in Skipping,
           \/ In(r, chars) /\ NUL \notin chars
           \/ Not(r, chars) /\ NUL \in chars
    PROVE  Within'
BY CharInText, Passing DEF In, Not, Within

LEMMA Returning == ASSUME Within, NEW t, Return(t) PROVE Within'
BY DEF Within, Return, Skipping

LEMMA Beginning ==
    ASSUME Within, NEW n \in 0 .. 1, NEW s, Begin(n, s), curPos + n <= Len(text) + 1,
           s = "punct" => n = 0 /\ curPos <= Len(text)
    PROVE  Within'
BY DEF Within, Begin, Skipping

LEMMA BeginningOn ==
    ASSUME Within, NEW n \in 0 .. 1, NEW s, NEW r, NEW chars, Begin(n, s),
           In(r, chars), NUL \notin chars, s = "punct" => n = 0
    PROVE  Within'
BY CharInText, Beginning DEF In, Within

-----------------------------------------------------------------------------
(* Every step keeps Within: one step of the proof for each function.       *)
THEOREM StepWithin == Within /\ [Next]_vars => Within'
<1>. SUFFICES ASSUME Within, [Next]_vars PROVE Within'
  OBVIOUS
<1>. USE NulIsNoCharacter DEF Skipping
<1>1. CASE formOctalToken
  <2>1. NUL \notin {"x", "X"} /\ NUL \notin {"."}
    BY DEF NUL
  <2>2. In("octal", {"8", "9"}) => state \notin Skipping
    BY DEF In
  <2>. QED
    BY <1>1, <2>1, <2>2, TakingOne, Going, Returning DEF formOctalToken
<1>2. CASE formHexToken
  BY <1>2, TakingOne, Returning DEF formHexToken
<1>3. CASE formDecimalToken
  <2>1. NUL \notin {"e", "E"} /\ NUL \notin {"."}
    BY DEF NUL
  <2>. QED
    BY <1>3, <2>1, TakingOne, Returning DEF formDecimalToken
<1>4. CASE formFloatToken
  <2>1. NUL \notin {"e", "E"}
    BY DEF NUL
  <2>. QED
    BY <1>4, <2>1, TakingOne, Returning DEF formFloatToken
<1>5. CASE formFloatWithExpToken
  <2>1. NUL \notin {"+", "-"}
    BY DEF NUL
  <2>. QED
    BY <1>5, <2>1, TakingOne, Returning DEF formFloatWithExpToken
<1>6. CASE formWordToken
  <2>1. NUL \notin InWord
    BY DEF NUL, InWord
  <2>. QED
    BY <1>6, <2>1, TakingOne, Returning DEF formWordToken
<1>7. CASE formNextControlToken
  BY <1>7, Returning DEF formNextControlToken
<1>8. CASE LineComment
  <2>1. NUL \notin {"\n"} /\ NUL \in {NUL, "\n"}
    BY DEF NUL
  <2>. QED
    BY <1>8, <2>1, PassingOne, Going DEF LineComment
<1>9. CASE BlockComment
  <2>1. NUL \notin {"*"} /\ NUL \notin {"/"} /\ NUL \in {NUL, "*"}
    BY DEF NUL
  <2>. QED
    BY <1>9, <2>1, PassingOne, Going DEF BlockComment
<1>10. CASE formPuncToken
  <2>1. NUL \notin {"."} /\ NUL \notin {"="} /\ NUL \notin Angles /\ NUL \notin Repeats
    BY DEF NUL, Angles, Repeats
  <2>2. ASSUME NEW s, NEW chars, In("punct", chars) \/ Not("punct", chars),
               Take(1, s), s \notin Skipping, s # "punct"
        PROVE  Within'
    BY <2>2, Taking DEF Within, In, Not
  <2>3. In("punct", Repeats) /\ Doubled => curPos + 2 <= Len(text) + 1
    BY <2>1, CharInText DEF In, Doubled, Within
  <2>4. char(curPos + 1) \in {">", "/", "*"} => curPos + 2 <= Len(text) + 1
    <3>1. NUL \notin {">", "/", "*"}
      BY DEF NUL
    <3>. QED
      BY <3>1, CharInText DEF Within
  <2>5. Arrow \/ Comment("/") \/ Comment("*") => curPos + 2 <= Len(text) + 1
    BY <2>4 DEF Arrow, Comment
  <2>6. ASSUME NEW chars, In("punct", chars), Take(2, "operator"), curPos + 2 <= Len(text) + 1
        PROVE  Within'
    BY <2>6, Taking DEF In
  <2>7. ASSUME NEW s \in {"line", "block"}, Skip(2, s), curPos + 2 <= Len(text) + 1
        PROVE  Within'
    BY <2>7, Passing
  <2>8. ASSUME NEW chars, Not("assign", chars) \/ Not("angle", chars), Go("operator")
        PROVE  Within'
    BY <2>8, Going DEF Not
  <2>. QED
    BY <1>10, <2>1, <2>2, <2>3, <2>5, <2>6, <2>7, <2>8, TakingOne, Returning DEF formPuncToken
<1>11. CASE formNextToken
  <2>1. NUL \notin {"0"} /\ NUL \notin Digit \ {"0"} /\ NUL \notin {Control}
    BY DEF NUL, Control
  <2>2. curPos + 0 <= Len(text) + 1
    BY DEF Within
  <2>. QED
    BY <1>11, <2>1, <2>2, PassingOne, Beginning, BeginningOn DEF formNextToken
<1>12. CASE UNCHANGED vars
  BY <1>12 DEF Within, vars
<1>. QED
  BY <1>1, <1>2, <1>3, <1>4, <1>5, <1>6, <1>7, <1>8, <1>9, <1>10, <1>11, <1>12 DEF Next

LEMMA InitWithin == Init => Within
<1>. SUFFICES ASSUME Init PROVE Within
  OBVIOUS
<1>1. \E C : text \in Seq(C)
  BY InputsAssumption DEF Init
<1>2. Len(text) \in Nat
  BY <1>1
<1>. QED
  BY <1>2 DEF Init, Within, Skipping

(* curPos never leaves the text and its NUL, whatever the texts are.       *)
THEOREM InsideText == Spec => []StaysInText
<1>1. Init => Within
  BY InitWithin
<1>2. Within => StaysInText
  BY DEF Within, StaysInText
<1>. QED
  BY <1>1, <1>2, StepWithin, PTL DEF Spec

-----------------------------------------------------------------------------
(* What the tokens are.  Where a token lies, from place i to place j, it   *)
(* is of the kind that the document gives the characters there.            *)

(* The operators by their characters: what the array ops spells, and every *)
(* other character of punctuation.                                         *)
Spelling(i, j) ==
    /\ char(i) \in Punct
    /\ \/ j = i
       \/ j = i + 1 /\ char(i) = "-" /\ char(j) = ">"
       \/ j = i + 1 /\ char(i) \in Repeats \cup Angles /\ char(j) = char(i)
       \/ j = i + 1 /\ char(i) \in Assigns \cup Angles /\ char(j) = "="
       \/ j = i + 2 /\ char(i) \in Angles /\ char(i + 1) = char(i) /\ char(j) = "="

Defined(type, i, j) ==
    /\ type \in {"WORD", "OCTAL", "HEX", "DEC", "FLOAT", "MAL", "OPE", "CTR"}
    /\ type = "WORD"  => Word(i, j)
    /\ type = "OCTAL" => Octal(i, j)
    /\ type = "HEX"   => Hex(i, j)
    /\ type = "DEC"   => Digits(i, j) /\ ~Octal(i, j)
    /\ type = "FLOAT" => Float(i, j)
    /\ type = "MAL"   => Mal(i, j)
    /\ type = "OPE"   => Spelling(i, j)
    /\ type = "CTR"   => i = j /\ char(i) = Control

Number(i, j) == Octal(i, j) \/ Hex(i, j) \/ Digits(i, j) \/ Float(i, j) \/ Mal(i, j)

(* What is returned is the text from begin on, of the kind it is said to   *)
(* be; and no longer token begins there, unless a leading zero cut it      *)
(* short: every branch of the automaton, and every fall through the cases  *)
(* of its switch, goes on as long as it may.                               *)
Longest(i, j) == \A k \in Nat : k > j => ~Word(i, k) /\ ~Number(i, k) /\ ~Spelling(i, k)
Found(t) ==
    /\ tokens' = Append(tokens, t)
    /\ t.token = SubSeq(text, begin, curPos - 1)
    /\ Defined(t.type, begin, curPos - 1)
    /\ ~ZeroCutShort(begin) => Longest(begin, curPos - 1)
Appended == tokens' = tokens \/ \E t : Found(t)
TokensAreLongest == [][Appended]_vars

(* A mantissa up to m, the mark of an exponent up to n, digits up to j.    *)
Powered(i, m, n, j) ==
    /\ Mantissa(i, m) /\ m \in Int /\ n \in Int
    /\ char(m + 1) \in {"e", "E"}
    /\ n = m + 1 \/ (n = m + 2 /\ char(n) \in {"+", "-"})
    /\ n <= j /\ Each(n + 1, j, Digit)

(* An operator that cannot grow, and a character that can by "=" only.     *)
Whole(i, j) ==
    /\ i <= j /\ char(i) # "." /\ Spelling(i, j)
    /\ \A k \in Nat : k > j => ~Spelling(i, k)
Alone(i) ==
    /\ char(i) \in Assigns
    /\ char(i) = "-" => char(i + 1) # ">"
    /\ char(i) \in Repeats => char(i + 1) # char(i)

(* What state s has read of its token, from place i to place j.            *)
Formed(s, i, j) ==
    /\ s = "zero"      => i = j /\ char(i) = "0"
    /\ s = "octal"     => Octal(i, j)
    /\ s = "hex"       => HexPrefix(i, j)
    /\ s = "hexdigits" => Hex(i, j)
    /\ s = "decimal"   => /\ Each(i, j, Digit)
                          /\ j < i => char(i) \in Digit
                          /\ char(i) = "0" => i < j
                          /\ Octal(i, j) => char(j + 1) \in {"8", "9"}
    /\ s = "fraction"  => Pointed(i, j)
    /\ s = "exponent"  => \E m : m + 1 = j /\ Powered(i, m, j, j)
    /\ s = "signed"    => \E m : m + 2 = j /\ Powered(i, m, j, j)
    /\ s = "power"     => \E m, n : n < j /\ Powered(i, m, n, j)
    /\ s = "word"      => Word(i, j) /\ i <= j
    /\ s = "control"   => i = j /\ char(i) = Control
    /\ s = "punct"     => j = i - 1 /\ char(i) \in Punct
    /\ s = "point"     => i = j /\ char(i) = "."
    /\ s = "angle"     => i = j /\ char(i) \in Angles
    /\ s = "assign"    => \/ i = j /\ Alone(i)
                          \/ j = i + 1 /\ char(i) \in Angles /\ char(j) = char(i)
    /\ s = "operator"  => Whole(i, j)
Forming == Formed(state, begin, curPos - 1)

(* Which characters are which.                                             *)
LEMMA Classes ==
    /\ ODigit = Digit \ {"8", "9"} /\ "0" \in ODigit
    /\ Alpha \cap Digit = {} /\ Punct \cap Digit = {} /\ Punct \cap Alpha = {}
    /\ "." \in Punct
    /\ {"e", "E"} \cap (Digit \cup {"."}) = {} /\ {"+", "-"} \cap Digit = {}
    /\ {"x", "X"} \cap (Digit \cup {".", "e", "E"}) = {}
    /\ Control \notin Digit \cup Alpha \cup Punct
    /\ Repeats \subseteq Assigns /\ Assigns \cup Angles \subseteq Punct \ {"."}
    /\ Assigns \cap Angles = {} /\ "=" \notin Angles /\ "=" \notin Repeats /\ "-" \in Repeats
    /\ ">" # "=" /\ "-" # "." /\ ">" # "-"
BY DEF ODigit, Digit, Alpha, Punct, Control, Repeats, Openers, Assigns, Angles

(* A mantissa is of digits and a point, and they continue as one.          *)
LEMMA MantissaChars ==
    ASSUME NEW i \in Int, NEW m, Mantissa(i, m), m \in Int
    PROVE  i <= m /\ \A k \in i .. m : char(k) \in Digit \cup {"."}
<1>1. CASE Digits(i, m)
  BY <1>1 DEF Digits, Each
<1>2. CASE Pointed(i, m)
  <2>1. PICK d \in i .. m : char(d) = "." /\ Each(i, d - 1, Digit) /\ Each(d + 1, m, Digit)
    BY <1>2 DEF Pointed
  <2>2. \A k \in i .. m : k \in i .. d - 1 \/ k = d \/ k \in d + 1 .. m
    BY <2>1
  <2>. QED
    BY <1>2, <2>1, <2>2 DEF Pointed, Each
<1>. QED
  BY <1>1, <1>2 DEF Mantissa

LEMMA AfterPoint ==
    ASSUME NEW i \in Int, NEW j \in Int, Pointed(i, j), NEW m \in Int, m > j, Mantissa(i, m)
    PROVE  char(j + 1) \in Digit
<1>1. PICK d \in i .. j : char(d) = "." /\ Each(i, d - 1, Digit)
  BY DEF Pointed
<1>2. "." \notin Digit
  BY Classes
<1>3. ~Digits(i, m)
  BY <1>1, <1>2 DEF Digits, Each
<1>4. PICK f \in i .. m : char(f) = "." /\ Each(i, f - 1, Digit) /\ Each(f + 1, m, Digit)
  BY <1>3 DEF Mantissa, Pointed
<1>5. ~(d < f) /\ ~(f < d)
  BY <1>1, <1>2, <1>4 DEF Each
<1>. QED
  BY <1>1, <1>4, <1>5 DEF Each

LEMMA OneMantissa ==
    ASSUME NEW i \in Int, NEW m \in Int, NEW n \in Int, Mantissa(i, m), Mantissa(i, n),
           char(m + 1) \in {"e", "E"}, char(n + 1) \in {"e", "E"}
    PROVE  m = n
<1>1. \A k : char(k) \in {"e", "E"} => char(k) \notin Digit \cup {"."}
  BY Classes
<1>. QED
  BY <1>1, MantissaChars

(* A number is a mantissa, or has an exponent, or begins as hex.           *)
LEMMA NumberShape ==
    ASSUME NEW i \in Int, NEW k \in Int, Number(i, k)
    PROVE  \/ HexPrefix(i, i + 1) /\ (k = i + 1 \/ Hex(i, k))
           \/ Mantissa(i, k)
           \/ \E m, n : Powered(i, m, n, k) /\ (n < k \/ n = k)
<1>1. CASE Octal(i, k)
  <2>1. \A x \in ODigit : x \in Digit
    BY Classes
  <2>2. Digits(i, k)
    BY <1>1, <2>1, Classes DEF Octal, Digits, Each
  <2>. QED
    BY <2>2 DEF Mantissa
<1>2. CASE Hex(i, k)
  BY <1>2 DEF Hex
<1>3. CASE Digits(i, k) \/ Pointed(i, k)
  BY <1>3 DEF Mantissa
<1>4. ASSUME NEW m \in i .. k - 2, Mantissa(i, m),
             NEW n \in m + 1 .. k - 1, ExponentMark(m + 1, n), Digits(n + 1, k)
      PROVE  Powered(i, m, n, k) /\ n < k
  BY <1>4 DEF ExponentMark, Digits, Powered
<1>5. CASE HexPrefix(i, k)
  BY <1>5 DEF HexPrefix
<1>6. ASSUME NEW m \in i .. k - 1, Mantissa(i, m), ExponentMark(m + 1, k)
      PROVE  Powered(i, m, k, k)
  BY <1>6 DEF ExponentMark, Powered, Each
<1>. QED
  BY <1>1, <1>2, <1>3, <1>4, <1>5, <1>6 DEF Number, Float, Mal

(* Nothing longer begins where these have begun.                           *)
LEMMA AfterMantissa ==
    ASSUME NEW i \in Int, NEW j \in Int, Mantissa(i, j),
           \A m \in Int : m > j => ~Mantissa(i, m),
           char(j + 1) \notin {"e", "E"},
           i = j /\ char(i) = "0" => char(j + 1) \notin {"x", "X"}
    PROVE  \A k \in Int : k > j => ~Number(i, k)
<1>. SUFFICES ASSUME NEW k \in Int, k > j, Number(i, k) PROVE FALSE
  OBVIOUS
<1>1. i <= j /\ \A p \in i .. j : char(p) \in Digit \cup {"."}
  BY MantissaChars
<1>2. ~HexPrefix(i, i + 1)
  <2>1. \A p : char(p) \in {"x", "X"} => char(p) \notin Digit \cup {"."}
    BY Classes
  <2>. QED
    BY <1>1, <2>1 DEF HexPrefix
<1>3. ~Mantissa(i, k)
  OBVIOUS
<1>4. PICK m, n : Powered(i, m, n, k)
  BY <1>2, <1>3, NumberShape
<1>5. m \in Int /\ Mantissa(i, m) /\ char(m + 1) \in {"e", "E"}
  BY <1>4 DEF Powered
<1>6. m < j
  BY <1>5
<1>7. i <= m
  BY <1>5, MantissaChars
<1>8. char(m + 1) \in Digit \cup {"."}
  BY <1>1, <1>5, <1>6, <1>7
<1>. QED
  BY <1>5, <1>8, Classes

LEMMA AfterPower ==
    ASSUME NEW i \in Int, NEW j \in Int, NEW a \in Int, NEW b \in Int, Powered(i, a, b, j),
           char(j + 1) \notin Digit,
           b = j /\ b = a + 1 => char(j + 1) \notin {"+", "-"}
    PROVE  \A k \in Int : k > j => ~Number(i, k)
<1>. SUFFICES ASSUME NEW k \in Int, k > j, Number(i, k) PROVE FALSE
  OBVIOUS
<1>1. /\ Mantissa(i, a) /\ char(a + 1) \in {"e", "E"} /\ a + 1 <= j
      /\ b = a + 1 \/ (b = a + 2 /\ char(b) \in {"+", "-"})
      /\ b <= j /\ Each(b + 1, j, Digit)
  BY DEF Powered
<1>2. i <= a /\ \A p \in i .. a : char(p) \in Digit \cup {"."}
  BY <1>1, MantissaChars
<1>3. char(a + 1) \notin Digit \cup {".", "x", "X"}
  BY <1>1, Classes
<1>4. ~HexPrefix(i, i + 1)
  <2>1. \A p : char(p) \in {"x", "X"} => char(p) \notin Digit \cup {"."}
    BY Classes
  <2>2. i = a => char(i + 1) = char(a + 1)
    OBVIOUS
  <2>3. i < a => i + 1 \in i .. a
    BY <1>2
  <2>. QED
    BY <1>2, <1>3, <2>1, <2>2, <2>3 DEF HexPrefix
<1>5. ~Mantissa(i, k)
  <2>1. Mantissa(i, k) => char(a + 1) \in Digit \cup {"."}
    BY <1>1, <1>2, MantissaChars
  <2>. QED
    BY <1>3, <2>1
<1>6. PICK m, n : Powered(i, m, n, k)
  BY <1>4, <1>5, NumberShape
<1>7. /\ m \in Int /\ n \in Int /\ Mantissa(i, m) /\ char(m + 1) \in {"e", "E"}
      /\ n = m + 1 \/ (n = m + 2 /\ char(n) \in {"+", "-"})
      /\ n <= k /\ Each(n + 1, k, Digit)
  BY <1>6 DEF Powered
<1>8. m = a
  BY <1>1, <1>7, OneMantissa
<1>9. \A p : char(p) \in {"+", "-"} => char(p) \notin Digit
  BY Classes
<1>10. n > j
  <2>1. SUFFICES ASSUME n <= j PROVE FALSE
    BY <1>7
  <2>2. j + 1 \in n + 1 .. k
    BY <1>7, <2>1
  <2>. QED
    BY <1>7, <2>2 DEF Each
<1>11. n = a + 2 /\ b = a + 1 /\ j = a + 1
  BY <1>1, <1>7, <1>8, <1>10
<1>12. n = j + 1 /\ n # m + 1 /\ b = j
  BY <1>8, <1>11
<1>. QED
  BY <1>7, <1>11, <1>12

LEMMA NumberBegins ==
    ASSUME NEW i \in Int, NEW k \in Int, Number(i, k)
    PROVE  char(i) \in Digit \cup {"."}
<1>1. CASE HexPrefix(i, i + 1)
  BY <1>1, Classes DEF HexPrefix
<1>2. CASE Mantissa(i, k)
  BY <1>2, MantissaChars
<1>3. CASE \E m, n : Powered(i, m, n, k)
  BY <1>3, MantissaChars DEF Powered
<1>. QED
  BY <1>1, <1>2, <1>3, NumberShape

LEMMA AfterHex ==
    ASSUME NEW i \in Int, NEW j \in Int, HexPrefix(i, i + 1), i + 1 <= j,
           char(j + 1) \notin XDigit
    PROVE  \A k \in Int : k > j => ~Number(i, k)
<1>. SUFFICES ASSUME NEW k \in Int, k > j, Number(i, k) PROVE FALSE
  OBVIOUS
<1>1. char(i) = "0" /\ char(i + 1) \in {"x", "X"}
  BY DEF HexPrefix
<1>2. char(i + 1) \notin Digit \cup {".", "e", "E"}
  BY <1>1, Classes
<1>3. ~Hex(i, k)
  BY DEF Hex, Each
<1>4. ASSUME NEW m \in Int, Mantissa(i, m), char(m + 1) \in {"e", "E"} PROVE FALSE
  <2>1. i <= m /\ \A p \in i .. m : char(p) \in Digit \cup {"."}
    BY <1>4, MantissaChars
  <2>2. i = m
    BY <1>2, <2>1
  <2>. QED
    BY <1>2, <1>4, <2>2
<1>5. ~Mantissa(i, k)
  BY <1>2, MantissaChars
<1>. QED
  BY <1>3, <1>4, <1>5, NumberShape DEF Powered

LEMMA AfterSign ==
    ASSUME NEW i \in Int, char(i) = ".", char(i + 1) \notin Digit
    PROVE  \A k \in Int : k > i => ~Number(i, k)
<1>1. "." \notin Digit /\ "." # "0"
  BY Classes
<1>2. ASSUME NEW m \in Int, Mantissa(i, m) PROVE FALSE
  <2>1. ~Digits(i, m)
    BY <1>1 DEF Digits, Each
  <2>2. PICK d \in i .. m : i < m /\ Each(i, d - 1, Digit) /\ Each(d + 1, m, Digit)
    BY <1>2, <2>1 DEF Mantissa, Pointed
  <2>3. d = i
    BY <1>1, <2>2 DEF Each
  <2>. QED
    BY <2>2, <2>3 DEF Each
<1>. QED
  BY <1>1, <1>2, NumberShape DEF Powered, HexPrefix

LEMMA NoWord ==
    ASSUME NEW i \in Int, char(i) \in Digit \cup {"."}
    PROVE  \A k \in Int : ~Word(i, k) /\ (k > i => ~Spelling(i, k))
<1>1. char(i) \notin Alpha /\ char(i) \notin Repeats \cup Angles \cup Assigns \cup {"-"}
  BY Classes
<1>. QED
  BY <1>1 DEF Word, Spelling

-----------------------------------------------------------------------------
(* What each function returns.                                             *)

(* All that Return needs of the token that lies from i to j.               *)
Good(type, i, j) == Defined(type, i, j) /\ (~ZeroCutShort(i) => Longest(i, j))

LEMMA GoodNumber ==
    ASSUME NEW i \in Nat, NEW j \in Int, NEW type, Defined(type, i, j),
           i <= j, char(i) \in Digit \cup {"."},
           ~ZeroCutShort(i) => \A k \in Int : k > j => ~Number(i, k)
    PROVE  Good(type, i, j)
BY NoWord DEF Good, Longest

-----------------------------------------------------------------------------
(* What the steps form and return.                                         *)

Returned ==
    \/ tokens' = tokens
    \/ \E type : Return(type) /\ Good(type, begin, curPos - 1)

(* What lies in the text stays while the text and the dialect do.          *)
LEMMA Lasting ==
    ASSUME text' = text, dialect' = dialect
    PROVE  /\ \A p : char(p) = char(p)'
           /\ \A a, b, chars : Each(a, b, chars) <=> Each(a, b, chars)'
           /\ \A a, b : /\ Digits(a, b) <=> Digits(a, b)'
                        /\ Octal(a, b) <=> Octal(a, b)'
                        /\ HexPrefix(a, b) <=> HexPrefix(a, b)'
                        /\ Hex(a, b) <=> Hex(a, b)'
                        /\ Pointed(a, b) <=> Pointed(a, b)'
                        /\ Mantissa(a, b) <=> Mantissa(a, b)'
                        /\ Word(a, b) <=> Word(a, b)'
                        /\ Spelling(a, b) <=> Spelling(a, b)'
<1>1. \A p : char(p) = char(p)'
  BY DEF char
<1>2. \A a, b, chars : Each(a, b, chars) <=> Each(a, b, chars)'
  BY <1>1 DEF Each
<1>3. \A a, b : /\ Digits(a, b) <=> Digits(a, b)'
                /\ Octal(a, b) <=> Octal(a, b)'
                /\ HexPrefix(a, b) <=> HexPrefix(a, b)'
  BY <1>1, <1>2 DEF Digits, Octal, HexPrefix, ODigit, Digit
<1>4. \A a, b : Hex(a, b) <=> Hex(a, b)'
  BY <1>2, <1>3 DEF Hex, XDigit, Digit
<1>5. \A a, b : Pointed(a, b) <=> Pointed(a, b)'
  BY <1>1, <1>2 DEF Pointed, Digit
<1>6. \A a, b : Mantissa(a, b) <=> Mantissa(a, b)'
  BY <1>3, <1>5 DEF Mantissa
<1>7. \A a, b : Word(a, b) <=> Word(a, b)'
  <2>1. InWord' = InWord
    BY DEF InWord, Alpha, Digit
  <2>. QED
    BY <1>1, <1>2, <2>1 DEF Word, Alpha
<1>8. \A a, b : Spelling(a, b) <=> Spelling(a, b)'
  <2>1. /\ Punct' = Punct /\ Repeats' = Repeats
        /\ Angles' = Angles /\ Assigns' = Assigns
    BY DEF Punct, Repeats, Angles, Assigns, Openers
  <2>. QED
    BY <1>1, <2>1 DEF Spelling
<1>. QED
  BY <1>1, <1>2, <1>3, <1>4, <1>5, <1>6, <1>7, <1>8

(* The text stays, and with it what lies in it.                            *)
LEMMA Standing ==
    ASSUME text' = text, dialect' = dialect, NEW s, NEW i, NEW j, Formed(s, i, j),
           state' = s, begin' = i, curPos' - 1 = j
    PROVE  Forming'
<1>1. \A a, b, c, d : Powered(a, b, c, d) <=> Powered(a, b, c, d)'
  BY Lasting DEF Powered, Digit
<1>2. \A a, b : Whole(a, b) <=> Whole(a, b)'
  BY Lasting DEF Whole
<1>3. \A a : Alone(a) <=> Alone(a)'
  BY Lasting DEF Alone, Assigns, Openers, Repeats
<1>4. Formed(s, i, j)'
  <2>1. s = "decimal" => Each(i, j, Digit)' /\ (j < i => char(i)' \in Digit)
                      /\ (char(i)' = "0" => i < j) /\ (Octal(i, j)' => char(j + 1)' \in {"8", "9"})
    BY Lasting DEF Formed
  <2>2. s \in {"exponent", "signed", "power"} =>
           /\ s = "exponent"  => \E m : m + 1 = j /\ Powered(i, m, j, j)'
           /\ s = "signed"    => \E m : m + 2 = j /\ Powered(i, m, j, j)'
           /\ s = "power"     => \E m, n : n < j /\ Powered(i, m, n, j)'
    BY <1>1 DEF Formed
  <2>3. /\ s = "octal"     => Octal(i, j)'
        /\ s = "hex"       => HexPrefix(i, j)'
        /\ s = "hexdigits" => Hex(i, j)'
        /\ s = "fraction"  => Pointed(i, j)'
        /\ s = "word"      => Word(i, j)' /\ i <= j
    BY Lasting DEF Formed
  <2>4. /\ s = "zero"      => i = j /\ char(i)' = "0"
        /\ s = "control"   => i = j /\ char(i)' = Control
        /\ s = "punct"     => j = i - 1 /\ char(i)' \in Punct
        /\ s = "point"     => i = j /\ char(i)' = "."
        /\ s = "angle"     => i = j /\ char(i)' \in Angles
        /\ s = "assign"    => \/ i = j /\ Alone(i)'
                              \/ j = i + 1 /\ char(i)' \in Angles /\ char(j)' = char(i)'
        /\ s = "operator"  => Whole(i, j)'
    BY <1>2, <1>3, Lasting DEF Formed
  <2>. QED
    BY <2>1, <2>2, <2>3, <2>4 DEF Formed, Digit, Punct, Control, Angles
<1>. QED
  BY <1>4 DEF Forming

LEMMA TakeForms ==
    ASSUME Within, NEW n \in 1 .. 2, NEW s, Take(n, s), Formed(s, begin, curPos - 1 + n)
    PROVE  Forming' /\ Returned
<1>1. begin' = begin /\ curPos' - 1 = curPos - 1 + n
  BY DEF Within, Take
<1>. QED
  BY <1>1, Standing DEF Take, Returned

LEMMA GoForms ==
    ASSUME Within, NEW s, Go(s), Formed(s, begin, curPos - 1)
    PROVE  Forming' /\ Returned
BY Standing DEF Go, Returned

LEMMA Idle ==
    ASSUME NEW s \in Skipping, NEW i, NEW j
    PROVE  Formed(s, i, j)
BY DEF Skipping, Formed

LEMMA SkipForms ==
    ASSUME NEW n, NEW s \in Skipping, Skip(n, s)
    PROVE  Forming' /\ Returned
BY Idle, Standing DEF Skip, Returned

LEMMA StopForms ==
    ASSUME NEW s \in Skipping, Go(s)
    PROVE  Forming' /\ Returned
BY Idle, Standing DEF Go, Returned

LEMMA ReturnForms ==
    ASSUME NEW type, Return(type), Good(type, begin, curPos - 1)
    PROVE  Forming' /\ Returned
<1>1. "next" \in Skipping
  BY DEF Skipping
<1>2. Forming'
  BY <1>1, Idle, Standing DEF Return
<1>. QED
  BY <1>2 DEF Returned

LEMMA BeginForms ==
    ASSUME Within, NEW n \in 0 .. 1, NEW s, Begin(n, s), Formed(s, curPos, curPos - 1 + n)
    PROVE  Forming' /\ Returned
<1>1. begin' = curPos /\ curPos' - 1 = curPos - 1 + n
  BY DEF Within, Begin
<1>. QED
  BY <1>1, Standing DEF Begin, Returned

(* The places a step looks at.                                             *)
LEMMA Places ==
    ASSUME Within
    PROVE  /\ begin \in Nat /\ curPos - 1 \in Int /\ begin >= 1 /\ curPos \in Nat
           /\ (curPos - 1) + 1 = curPos
           /\ state \notin Skipping => begin <= curPos
BY DEF Within

-----------------------------------------------------------------------------
(* The functions.                                                          *)

LEMMA OctalForms ==
    ASSUME Within, Forming, formOctalToken
    PROVE  Forming' /\ Returned
<1>. DEFINE i == begin
            j == curPos - 1
<1>0. i \in Nat /\ j \in Int /\ i >= 1 /\ j + 1 = curPos /\ Formed(state, i, j)
  BY Places DEF Forming
<1>1. ASSUME state = "zero"
      PROVE  i = j /\ char(i) = "0" /\ char(i) \in Digit /\ Mantissa(i, j) /\ Each(i, j, Digit)
  BY <1>0, <1>1, Classes DEF Formed, Mantissa, Digits, Each
<1>2. ASSUME state = "octal"
      PROVE  /\ Octal(i, j) /\ i < j /\ char(i) = "0" /\ char(i) \in Digit
             /\ Mantissa(i, j) /\ Each(i, j, Digit) /\ Each(i + 1, j, ODigit)
  <2>1. Octal(i, j)
    BY <1>0, <1>2 DEF Formed
  <2>2. Each(i, j, Digit)
    BY <1>0, <2>1, Classes DEF Octal, Each
  <2>. QED
    BY <1>0, <2>1, <2>2, Classes DEF Octal, Mantissa, Digits
<1>. HIDE DEF i, j
<1>3. ASSUME state \in {"zero", "octal"}, char(j + 1) = "." PROVE Pointed(i, j + 1)
  <2>1. Each(i, j, Digit) /\ i <= j
    BY <1>0, <1>1, <1>2, <1>3
  <2>2. Each(i, (j + 1) - 1, Digit) /\ Each((j + 1) + 1, j + 1, Digit)
    BY <1>0, <2>1 DEF Each
  <2>3. j + 1 \in i .. j + 1 /\ i < j + 1
    BY <1>0, <2>1
  <2>. QED
    BY <1>3, <2>2, <2>3 DEF Pointed
<1>4. CASE In("zero", {"x", "X"}) /\ Take(1, "hex")
  <2>1. Formed("hex", i, j + 1)
    BY <1>0, <1>1, <1>4 DEF Formed, HexPrefix, In
  <2>. QED
    BY <1>0, <1>4, <2>1, TakeForms DEF i, j
<1>5. CASE (In("zero", ODigit) \/ In("octal", ODigit)) /\ Take(1, "octal")
  <2>1. Octal(i, j + 1)
    BY <1>0, <1>1, <1>2, <1>5 DEF Octal, Each, In
  <2>2. Formed("octal", i, j + 1)
    BY <2>1 DEF Formed
  <2>. QED
    BY <1>0, <1>5, <2>2, TakeForms DEF i, j
<1>6. CASE (In("zero", {"."}) \/ In("octal", {"."})) /\ Take(1, "fraction")
  <2>1. Formed("fraction", i, j + 1)
    BY <1>0, <1>3, <1>6 DEF Formed, In
  <2>. QED
    BY <1>0, <1>6, <2>1, TakeForms DEF i, j
<1>7. CASE Not("zero", ODigit \cup {"x", "X", "."}) /\ Return("DEC")
  <2>1. state = "zero" /\ char(j + 1) \notin ODigit \cup {"x", "X", "."}
    BY <1>0, <1>7 DEF Not
  <2>2. Defined("DEC", i, j)
    BY <1>0, <1>1, <2>1 DEF Defined, Digits, Octal
  <2>3. ASSUME ~ZeroCutShort(i) PROVE \A k \in Int : k > j => ~Number(i, k)
    <3>1. i \in i .. Len(text) /\ Each(i, i, ODigit)
      <4>1. char(i) # NUL
        BY <1>1, <2>1 DEF NUL
      <4>2. i <= Len(text) /\ Len(text) \in Nat
        BY <4>1, CharInText DEF Within
      <4>. QED
        BY <1>0, <1>1, <2>1, <4>2, Classes DEF Each
    <3>2. char(i + 1) \notin {"8", "9"} /\ char(i + 1) \notin {"e", "E"}
      BY <1>1, <2>1, <2>3, <3>1 DEF ZeroCutShort
    <3>3. i = j /\ char(j + 1) \notin Digit \cup {".", "e", "E", "x", "X"}
      BY <1>1, <2>1, <3>2, Classes
    <3>4. \A m \in Int : m > j => ~Mantissa(i, m)
      BY <1>0, <3>3, MantissaChars
    <3>. QED
      BY <1>0, <1>1, <2>1, <3>3, <3>4, AfterMantissa
  <2>4. Good("DEC", i, j)
    BY <1>0, <1>1, <2>1, <2>2, <2>3, GoodNumber
  <2>. QED
    BY <1>7, <2>4, ReturnForms DEF i, j
<1>8. CASE In("octal", {"8", "9"}) /\ Go("decimal")
  <2>1. Formed("decimal", i, j)
    BY <1>0, <1>2, <1>8 DEF Formed, In
  <2>. QED
    BY <1>8, <2>1, GoForms DEF i, j
<1>9. CASE Not("octal", Digit \cup {"."}) /\ Return("OCTAL")
  <2>1. state = "octal" /\ char(j + 1) \notin Digit \cup {"."}
    BY <1>0, <1>9 DEF Not
  <2>2. Defined("OCTAL", i, j)
    BY <1>2, <2>1 DEF Defined
  <2>3. ASSUME ~ZeroCutShort(i) PROVE \A k \in Int : k > j => ~Number(i, k)
    <3>1. j \in i .. Len(text) /\ Each(i, j, ODigit)
      <4>1. char(j) # NUL
        BY <1>0, <1>2, <2>1, NulIsNoCharacter DEF Each
      <4>2. j <= Len(text) /\ Len(text) \in Nat
        BY <4>1, CharInText DEF Within
      <4>. QED
        BY <1>0, <1>2, <2>1, <4>2, Classes DEF Each
    <3>2. char(j + 1) \notin {"e", "E"}
      BY <1>2, <2>1, <2>3, <3>1 DEF ZeroCutShort
    <3>3. \A m \in Int : m > j => ~Mantissa(i, m)
      BY <1>0, <1>2, <2>1, MantissaChars
    <3>. QED
      BY <1>0, <1>2, <2>1, <3>2, <3>3, AfterMantissa
  <2>4. Good("OCTAL", i, j)
    BY <1>0, <1>2, <2>1, <2>2, <2>3, GoodNumber
  <2>. QED
    BY <1>9, <2>4, ReturnForms DEF i, j
<1>. QED
  BY <1>4, <1>5, <1>6, <1>7, <1>8, <1>9 DEF formOctalToken

LEMMA HexForms ==
    ASSUME Within, Forming, formHexToken
    PROVE  Forming' /\ Returned
<1>. DEFINE i == begin
            j == curPos - 1
<1>0. i \in Nat /\ j \in Int /\ i >= 1 /\ j + 1 = curPos /\ Formed(state, i, j)
  BY Places DEF Forming
<1>. HIDE DEF i, j
<1>1. state = "hex" => HexPrefix(i, j) /\ j = i + 1
  BY <1>0 DEF Formed, HexPrefix
<1>2. state = "hexdigits" => Hex(i, j) /\ i + 1 < j /\ HexPrefix(i, i + 1) /\ Each(i + 2, j, XDigit)
  BY <1>0 DEF Formed, Hex
<1>3. CASE (In("hex", XDigit) \/ In("hexdigits", XDigit)) /\ Take(1, "hexdigits")
  <2>1. Hex(i, j + 1)
    BY <1>0, <1>1, <1>2, <1>3 DEF Hex, Each, In
  <2>2. Formed("hexdigits", i, j + 1)
    BY <2>1 DEF Formed
  <2>. QED
    BY <1>0, <1>3, <2>2, TakeForms DEF i, j
<1>4. CASE Not("hex", XDigit) /\ Return("MAL")
  <2>1. Defined("MAL", i, j)
    BY <1>1, <1>4 DEF Defined, Mal, Not
  <2>2. HexPrefix(i, i + 1) /\ i + 1 <= j /\ char(j + 1) \notin XDigit
    BY <1>0, <1>1, <1>4 DEF Not
  <2>3. char(i) \in Digit
    BY <2>2, Classes DEF HexPrefix
  <2>4. Good("MAL", i, j)
    BY <1>0, <2>1, <2>2, <2>3, AfterHex, GoodNumber
  <2>. QED
    BY <1>4, <2>4, ReturnForms DEF i, j
<1>5. CASE Not("hexdigits", XDigit) /\ Return("HEX")
  <2>1. Defined("HEX", i, j)
    BY <1>2, <1>5 DEF Defined, Not
  <2>2. HexPrefix(i, i + 1) /\ i + 1 <= j /\ char(j + 1) \notin XDigit
    BY <1>0, <1>2, <1>5 DEF Not
  <2>3. char(i) \in Digit
    BY <2>2, Classes DEF HexPrefix
  <2>4. Good("HEX", i, j)
    BY <1>0, <2>1, <2>2, <2>3, AfterHex, GoodNumber
  <2>. QED
    BY <1>5, <2>4, ReturnForms DEF i, j
<1>. QED
  BY <1>3, <1>4, <1>5 DEF formHexToken

(* Where an exponent begins behind a mantissa.                             *)
LEMMA Powers ==
    ASSUME Within, Mantissa(begin, curPos - 1), char(curPos) \in {"e", "E"}, Take(1, "exponent")
    PROVE  Forming' /\ Returned
<1>. DEFINE i == begin
            j == curPos - 1
<1>0. i \in Nat /\ j \in Int /\ j + 1 = curPos
  BY Places
<1>1. Mantissa(i, j) /\ char(j + 1) \in {"e", "E"}
  BY <1>0
<1>. HIDE DEF i, j
<1>2. Powered(i, j, j + 1, j + 1)
  BY <1>0, <1>1 DEF Powered, Each
<1>3. Formed("exponent", i, j + 1)
  BY <1>0, <1>2 DEF Formed
<1>. QED
  BY <1>0, <1>3, TakeForms DEF i, j

LEMMA DecimalForms ==
    ASSUME Within, Forming, formDecimalToken
    PROVE  Forming' /\ Returned
<1>. DEFINE i == begin
            j == curPos - 1
<1>0. i \in Nat /\ j \in Int /\ i >= 1 /\ j + 1 = curPos /\ Formed(state, i, j)
  BY Places DEF Forming
<1>1. state = "decimal"
  BY DEF formDecimalToken, In, Not
<1>2. i <= j + 1
  BY <1>0, <1>1, Places DEF Skipping
<1>. HIDE DEF i, j
<1>3. /\ Each(i, j, Digit) /\ (j < i => char(i) \in Digit)
      /\ (char(i) = "0" => i < j) /\ (Octal(i, j) => char(j + 1) \in {"8", "9"})
  BY <1>0, <1>1 DEF Formed
<1>4. char(j + 1) \notin Digit => /\ i <= j /\ Digits(i, j) /\ Mantissa(i, j)
                                  /\ char(i) \in Digit
  <2>1. SUFFICES ASSUME char(j + 1) \notin Digit
                 PROVE  i <= j /\ Digits(i, j) /\ char(i) \in Digit
    BY DEF Mantissa
  <2>2. i <= j
    <3>1. SUFFICES ASSUME j < i PROVE FALSE
      BY <1>0
    <3>2. i = j + 1
      BY <1>0, <1>2, <3>1
    <3>. QED
      BY <1>3, <2>1, <3>1, <3>2
  <2>. QED
    BY <1>0, <1>3, <2>2 DEF Digits, Each
<1>5. CASE In("decimal", Digit) /\ Take(1, "decimal")
  <2>1. char(j + 1) \in Digit
    BY <1>0, <1>5 DEF In
  <2>2. Each(i, j + 1, Digit)
    BY <1>0, <1>3, <2>1 DEF Each
  <2>3. ~Octal(i, j + 1)
    <3>1. SUFFICES ASSUME Octal(i, j + 1) PROVE FALSE
      OBVIOUS
    <3>2. char(i) = "0" /\ i < j /\ Each(i + 1, j + 1, ODigit)
      BY <1>3, <3>1 DEF Octal
    <3>3. Octal(i, j) /\ char(j + 1) \in ODigit
      BY <1>0, <3>2 DEF Octal, Each
    <3>. QED
      BY <1>3, <3>3, Classes
  <2>4. Formed("decimal", i, j + 1)
    BY <1>0, <1>2, <1>3, <2>2, <2>3 DEF Formed
  <2>. QED
    BY <1>0, <1>5, <2>4, TakeForms DEF i, j
<1>6. CASE In("decimal", {"."}) /\ Take(1, "fraction")
  <2>1. char(j + 1) = "." /\ "." \notin Digit
    BY <1>0, <1>6, Classes DEF In
  <2>2. Each(i, (j + 1) - 1, Digit) /\ Each((j + 1) + 1, j + 1, Digit) /\ i < j + 1
    BY <1>0, <1>3, <1>4, <2>1 DEF Each
  <2>3. Pointed(i, j + 1)
    BY <1>0, <2>1, <2>2 DEF Pointed
  <2>4. Formed("fraction", i, j + 1)
    BY <2>3 DEF Formed
  <2>. QED
    BY <1>0, <1>6, <2>4, TakeForms DEF i, j
<1>7. CASE In("decimal", {"e", "E"}) /\ Take(1, "exponent")
  <2>1. char(j + 1) \in {"e", "E"} /\ char(j + 1) \notin Digit
    BY <1>0, <1>7, Classes DEF In
  <2>. QED
    BY <1>0, <1>4, <1>7, <2>1, Powers DEF i, j
<1>8. CASE Not("decimal", Digit \cup {".", "e", "E"}) /\ Return("DEC")
  <2>1. char(j + 1) \notin Digit \cup {".", "e", "E"}
    BY <1>0, <1>8 DEF Not
  <2>2. ~Octal(i, j)
    BY <1>3, <2>1 DEF Digit
  <2>3. Defined("DEC", i, j)
    BY <1>4, <2>1, <2>2 DEF Defined
  <2>4. \A m \in Int : m > j => ~Mantissa(i, m)
    BY <1>0, <1>4, <2>1, MantissaChars
  <2>5. \A k \in Int : k > j => ~Number(i, k)
    BY <1>0, <1>3, <1>4, <2>1, <2>4, AfterMantissa
  <2>6. Good("DEC", i, j)
    BY <1>0, <1>4, <2>1, <2>3, <2>5, GoodNumber
  <2>. QED
    BY <1>8, <2>6, ReturnForms DEF i, j
<1>. QED
  BY <1>5, <1>6, <1>7, <1>8 DEF formDecimalToken

LEMMA FloatForms ==
    ASSUME Within, Forming, formFloatToken
    PROVE  Forming' /\ Returned
<1>. DEFINE i == begin
            j == curPos - 1
<1>0. i \in Nat /\ j \in Int /\ i >= 1 /\ j + 1 = curPos /\ Formed(state, i, j)
  BY Places DEF Forming
<1>1. state = "fraction"
  BY DEF formFloatToken, In, Not
<1>. HIDE DEF i, j
<1>2. Pointed(i, j) /\ i < j /\ Mantissa(i, j)
  BY <1>0, <1>1 DEF Formed, Pointed, Mantissa
<1>3. CASE In("fraction", Digit) /\ Take(1, "fraction")
  <2>1. char(j + 1) \in Digit
    BY <1>0, <1>3 DEF In
  <2>2. PICK d \in i .. j : char(d) = "." /\ Each(i, d - 1, Digit) /\ Each(d + 1, j, Digit)
    BY <1>2 DEF Pointed
  <2>3. Each(d + 1, j + 1, Digit)
    BY <1>0, <2>1, <2>2 DEF Each
  <2>4. Pointed(i, j + 1)
    BY <1>0, <1>2, <2>2, <2>3 DEF Pointed
  <2>5. Formed("fraction", i, j + 1)
    BY <2>4 DEF Formed
  <2>. QED
    BY <1>0, <1>3, <2>5, TakeForms DEF i, j
<1>4. CASE In("fraction", {"e", "E"}) /\ Take(1, "exponent")
  BY <1>2, <1>4, Powers DEF i, j, In
<1>5. CASE Not("fraction", Digit \cup {"e", "E"}) /\ Return("FLOAT")
  <2>1. char(j + 1) \notin Digit \cup {"e", "E"}
    BY <1>0, <1>5 DEF Not
  <2>2. Defined("FLOAT", i, j)
    BY <1>2 DEF Defined, Float
  <2>3. char(i) \in Digit \cup {"."}
    BY <1>0, <1>2, MantissaChars
  <2>4. \A m \in Int : m > j => ~Mantissa(i, m)
    BY <1>0, <1>2, <2>1, AfterPoint
  <2>5. \A k \in Int : k > j => ~Number(i, k)
    BY <1>0, <1>2, <2>1, <2>4, AfterMantissa
  <2>6. Good("FLOAT", i, j)
    BY <1>0, <1>2, <2>2, <2>3, <2>5, GoodNumber
  <2>. QED
    BY <1>5, <2>6, ReturnForms DEF i, j
<1>. QED
  BY <1>3, <1>4, <1>5 DEF formFloatToken

LEMMA ExpForms ==
    ASSUME Within, Forming, formFloatWithExpToken
    PROVE  Forming' /\ Returned
<1>. DEFINE i == begin
            j == curPos - 1
<1>0. i \in Nat /\ j \in Int /\ i >= 1 /\ j + 1 = curPos /\ Formed(state, i, j)
  BY Places DEF Forming
<1>. HIDE DEF i, j
<1>1. ASSUME NEW m, NEW n, Powered(i, m, n, j)
      PROVE  /\ m \in Int /\ n \in Int /\ i <= m /\ m + 1 <= n /\ n <= j /\ ExponentMark(m + 1, n)
             /\ Mantissa(i, m) /\ char(i) \in Digit \cup {"."}
  BY <1>0, <1>1, MantissaChars DEF Powered, ExponentMark
<1>2. ASSUME NEW m, Powered(i, m, j, j) PROVE Defined("MAL", i, j)
  <2>1. m \in i .. j - 1 /\ Mantissa(i, m) /\ ExponentMark(m + 1, j)
    BY <1>0, <1>1, <1>2
  <2>2. Mal(i, j)
    BY <2>1 DEF Mal
  <2>. QED
    BY <2>2 DEF Defined
<1>3. ASSUME NEW type, NEW m, NEW n, Powered(i, m, n, j), Defined(type, i, j),
             char(j + 1) \notin Digit, n = j /\ n = m + 1 => char(j + 1) \notin {"+", "-"}
      PROVE  Good(type, i, j)
  <2>1. m \in Int /\ n \in Int /\ char(i) \in Digit \cup {"."} /\ i <= j
    BY <1>0, <1>1, <1>3
  <2>2. \A k \in Int : k > j => ~Number(i, k)
    BY <1>0, <1>3, <2>1, AfterPower
  <2>. QED
    BY <1>0, <1>3, <2>1, <2>2, GoodNumber
<1>4. ASSUME state \in {"exponent", "signed"}
      PROVE  \E m : Powered(i, m, j, j) /\ m + (IF state = "exponent" THEN 1 ELSE 2) = j
  BY <1>0, <1>4 DEF Formed
<1>5. ASSUME state \in {"exponent", "signed"}, char(j + 1) \in Digit
      PROVE  Formed("power", i, j + 1)
  <2>1. PICK m : Powered(i, m, j, j)
    BY <1>4, <1>5
  <2>2. Powered(i, m, j, j + 1)
    BY <1>0, <1>5, <2>1 DEF Powered, Each
  <2>3. j < j + 1
    BY <1>0
  <2>. QED
    BY <2>2, <2>3 DEF Formed
<1>6. CASE In("exponent", {"+", "-"}) /\ Take(1, "signed")
  <2>1. PICK m : Powered(i, m, j, j) /\ m + 1 = j
    BY <1>4, <1>6 DEF In
  <2>2. Powered(i, m, j + 1, j + 1)
    BY <1>0, <1>6, <2>1 DEF Powered, Each, In
  <2>3. m + 2 = j + 1
    BY <1>0, <1>1, <2>1
  <2>4. Formed("signed", i, j + 1)
    BY <2>2, <2>3 DEF Formed
  <2>. QED
    BY <1>0, <1>6, <2>4, TakeForms DEF i, j
<1>7. CASE (In("exponent", Digit) \/ In("signed", Digit)) /\ Take(1, "power")
  <2>1. Formed("power", i, j + 1)
    BY <1>0, <1>5, <1>7 DEF In
  <2>. QED
    BY <1>0, <1>7, <2>1, TakeForms DEF i, j
<1>8. CASE Not("exponent", Digit \cup {"+", "-"}) /\ Return("MAL")
  <2>1. char(j + 1) \notin Digit \cup {"+", "-"} /\ state = "exponent"
    BY <1>0, <1>8 DEF Not
  <2>2. PICK m : Powered(i, m, j, j)
    BY <1>4, <2>1
  <2>3. Good("MAL", i, j)
    BY <1>2, <1>3, <2>1, <2>2
  <2>. QED
    BY <1>8, <2>3, ReturnForms DEF i, j
<1>9. CASE Not("signed", Digit) /\ Return("MAL")
  <2>1. char(j + 1) \notin Digit /\ state = "signed"
    BY <1>0, <1>9 DEF Not
  <2>2. PICK m : Powered(i, m, j, j) /\ m + 2 = j
    BY <1>4, <2>1
  <2>3. ~(j = m + 1)
    BY <1>0, <1>1, <2>2
  <2>4. Good("MAL", i, j)
    BY <1>2, <1>3, <2>1, <2>2, <2>3
  <2>. QED
    BY <1>9, <2>4, ReturnForms DEF i, j
<1>10. ASSUME state = "power" PROVE \E m, n : n < j /\ Powered(i, m, n, j)
  BY <1>0, <1>10 DEF Formed
<1>11. CASE In("power", Digit) /\ Take(1, "power")
  <2>1. char(j + 1) \in Digit /\ state = "power"
    BY <1>0, <1>11 DEF In
  <2>2. PICK m, n : n < j /\ Powered(i, m, n, j)
    BY <1>10, <2>1
  <2>3. Powered(i, m, n, j + 1) /\ n < j + 1
    BY <1>0, <1>1, <2>1, <2>2 DEF Powered, Each
  <2>4. Formed("power", i, j + 1)
    BY <2>3 DEF Formed
  <2>. QED
    BY <1>0, <1>11, <2>4, TakeForms DEF i, j
<1>12. CASE Not("power", Digit) /\ Return("FLOAT")
  <2>1. char(j + 1) \notin Digit /\ state = "power"
    BY <1>0, <1>12 DEF Not
  <2>2. PICK m, n : n < j /\ Powered(i, m, n, j)
    BY <1>10, <2>1
  <2>3. Digits(n + 1, j)
    BY <1>0, <1>1, <2>2 DEF Powered, Digits
  <2>4. m \in i .. j - 2 /\ n \in m + 1 .. j - 1 /\ ExponentMark(m + 1, n) /\ Mantissa(i, m)
    BY <1>0, <1>1, <2>2
  <2>5. Defined("FLOAT", i, j)
    BY <2>3, <2>4 DEF Defined, Float
  <2>6. ~(n = j)
    BY <1>0, <1>1, <2>2
  <2>7. Good("FLOAT", i, j)
    BY <1>3, <2>1, <2>2, <2>5, <2>6
  <2>. QED
    BY <1>12, <2>7, ReturnForms DEF i, j
<1>. QED
  BY <1>6, <1>7, <1>8, <1>9, <1>11, <1>12 DEF formFloatWithExpToken

LEMMA WordForms ==
    ASSUME Within, Forming, formWordToken
    PROVE  Forming' /\ Returned
<1>. DEFINE i == begin
            j == curPos - 1
<1>0. i \in Nat /\ j \in Int /\ i >= 1 /\ j + 1 = curPos /\ Formed(state, i, j)
  BY Places DEF Forming
<1>. HIDE DEF i, j
<1>1. Word(i, j) /\ i <= j
  BY <1>0 DEF Formed, formWordToken, In, Not
<1>2. CASE In("word", InWord) /\ Take(1, "word")
  <2>1. Word(i, j + 1) /\ i <= j + 1
    BY <1>0, <1>1, <1>2 DEF Word, Each, In
  <2>2. Formed("word", i, j + 1)
    BY <2>1 DEF Formed
  <2>. QED
    BY <1>0, <1>2, <2>2, TakeForms DEF i, j
<1>3. CASE Not("word", InWord) /\ Return("WORD")
  <2>1. Defined("WORD", i, j)
    BY <1>1 DEF Defined
  <2>2. char(i) \notin Digit \cup {"."}
    BY <1>1, Classes DEF Word
  <2>3. \A k \in Nat : k > j => ~Word(i, k) /\ ~Number(i, k) /\ ~Spelling(i, k)
    <3>1. char(i) \notin Punct
      BY <1>1, Classes DEF Word
    <3>. QED
      BY <1>0, <1>1, <1>3, <2>2, <3>1, NumberBegins DEF Word, Each, Not, Spelling
  <2>4. Good("WORD", i, j)
    BY <2>1, <2>3 DEF Good, Longest
  <2>. QED
    BY <1>3, <2>4, ReturnForms DEF i, j
<1>. QED
  BY <1>2, <1>3 DEF formWordToken

(* What begins with punctuation, but for a point, or with a control        *)
(* character is no word and no number.                                     *)
LEMMA GoodOther ==
    ASSUME NEW i \in Nat, NEW j, NEW type, Defined(type, i, j),
           char(i) \in (Punct \ {"."}) \cup {Control},
           \A k \in Nat : k > j => ~Spelling(i, k)
    PROVE  Good(type, i, j)
<1>1. char(i) \notin Digit \cup {"."} \cup Alpha
  BY Classes
<1>. QED
  BY <1>1, NumberBegins DEF Good, Longest, Word

LEMMA ControlForms ==
    ASSUME Within, Forming, formNextControlToken
    PROVE  Forming' /\ Returned
<1>1. begin = curPos - 1 /\ char(begin) = Control
  BY DEF Forming, Formed, formNextControlToken
<1>2. Defined("CTR", begin, curPos - 1)
  BY <1>1 DEF Defined
<1>3. char(begin) \notin Punct
  BY <1>1, Classes
<1>4. Good("CTR", begin, curPos - 1)
  BY <1>1, <1>2, <1>3, Places, GoodOther DEF Spelling
<1>. QED
  BY <1>4, ReturnForms DEF formNextControlToken

(* How operators grow.                                                     *)
LEMMA WholeOne ==
    ASSUME NEW i \in Nat, char(i) \in Punct \ {"."},
           \/ char(i) \notin Assigns \cup Angles
           \/ Alone(i) /\ char(i + 1) # "="
           \/ char(i) \in Angles /\ char(i + 1) # "=" /\ char(i + 1) # char(i)
    PROVE  Whole(i, i)
<1>1. Spelling(i, i)
  BY DEF Spelling
<1>. SUFFICES ASSUME NEW k \in Nat, k > i, Spelling(i, k) PROVE FALSE
  BY <1>1 DEF Whole
<1>2. \/ char(i) = "-" /\ char(i + 1) = ">"
      \/ char(i) \in Repeats \cup Angles /\ char(i + 1) = char(i)
      \/ char(i) \in Assigns \cup Angles /\ char(i + 1) = "="
  BY DEF Spelling
<1>. QED
  BY <1>2, Classes DEF Alone

LEMMA WholeTwo ==
    ASSUME NEW i \in Nat,
           \/ char(i) = "-" /\ char(i + 1) = ">"
           \/ char(i) \in Repeats /\ char(i + 1) = char(i)
           \/ char(i) \in Assigns \cup Angles /\ char(i + 1) = "="
           \/ char(i) \in Angles /\ char(i + 1) = char(i) /\ char(i + 2) # "="
    PROVE  Whole(i, i + 1)
<1>1. char(i) \in Punct /\ char(i) # "."
  BY Classes
<1>2. Spelling(i, i + 1)
  BY <1>1 DEF Spelling
<1>. SUFFICES ASSUME NEW k \in Nat, k > i + 1, Spelling(i, k) PROVE FALSE
  BY <1>1, <1>2 DEF Whole
<1>3. char(i) \in Angles /\ char(i + 1) = char(i) /\ char(i + 2) = "="
  BY DEF Spelling
<1>. QED
  BY <1>3, Classes

LEMMA WholeThree ==
    ASSUME NEW i \in Nat, char(i) \in Angles, char(i + 1) = char(i), char(i + 2) = "="
    PROVE  Whole(i, i + 2)
<1>1. char(i) \in Punct /\ char(i) # "."
  BY Classes
<1>. QED
  BY <1>1 DEF Whole, Spelling

LEMMA PuncForms ==
    ASSUME Within, Forming, formPuncToken
    PROVE  Forming' /\ Returned
<1>. DEFINE i == begin
            j == curPos - 1
<1>0. i \in Nat /\ j \in Int /\ i >= 1 /\ j + 1 = curPos /\ Formed(state, i, j)
  BY Places DEF Forming
<1>. HIDE DEF i, j
<1>1. state = "punct" => j = i - 1 /\ curPos = i /\ char(i) \in Punct
  BY <1>0 DEF Formed
<1>2. state = "point" => i = j /\ curPos = i + 1 /\ char(i) = "."
  BY <1>0 DEF Formed
<1>3. state = "angle" => i = j /\ curPos = i + 1 /\ char(i) \in Angles
  BY <1>0 DEF Formed
<1>4. state = "assign" => \/ i = j /\ curPos = i + 1 /\ Alone(i)
                          \/ j = i + 1 /\ curPos = i + 2 /\ char(i) \in Angles /\ char(j) = char(i)
  BY <1>0 DEF Formed
<1>5. ASSUME NEW n \in 1 .. 2, Take(n, "operator"), Whole(i, j + n) PROVE Forming' /\ Returned
  <2>1. Formed("operator", i, j + n)
    BY <1>5 DEF Formed
  <2>. QED
    BY <1>5, <2>1, TakeForms DEF i, j
<1>6. ASSUME Go("operator"), Whole(i, j) PROVE Forming' /\ Returned
  <2>1. Formed("operator", i, j)
    BY <1>6 DEF Formed
  <2>. QED
    BY <1>6, <2>1, GoForms DEF i, j
<1>7. CASE In("punct", {"."}) /\ Take(1, "point")
  <2>1. Formed("point", i, j + 1)
    BY <1>0, <1>1, <1>7 DEF Formed, In
  <2>. QED
    BY <1>7, <2>1, TakeForms DEF i, j
<1>8. CASE In("point", Digit) /\ Take(1, "fraction")
  <2>1. Each(i, i - 1, Digit) /\ Each(i + 1, i + 1, Digit) /\ char(i) = "."
    BY <1>0, <1>2, <1>8 DEF Each, In
  <2>2. Pointed(i, i + 1)
    BY <1>0, <2>1 DEF Pointed
  <2>3. Formed("fraction", i, j + 1)
    BY <1>2, <1>8, <2>2 DEF Formed, In
  <2>. QED
    BY <1>8, <2>3, TakeForms DEF i, j
<1>9. CASE Not("point", Digit) /\ Return("OPE")
  <2>1. i = j /\ char(i) = "." /\ char(i + 1) \notin Digit
    BY <1>0, <1>2, <1>9 DEF Not
  <2>2. Defined("OPE", i, j)
    BY <1>0, <2>1, Classes DEF Defined, Spelling
  <2>3. \A k \in Int : k > j => ~Number(i, k)
    BY <1>0, <2>1, AfterSign
  <2>4. Good("OPE", i, j)
    BY <1>0, <2>1, <2>2, <2>3, GoodNumber
  <2>. QED
    BY <1>9, <2>4, ReturnForms DEF i, j
<1>10. CASE state = "operator" /\ Return("OPE")
  <2>1. Whole(i, j)
    BY <1>0, <1>10 DEF Formed
  <2>2. Defined("OPE", i, j) /\ char(i) \in Punct \ {"."}
    BY <2>1 DEF Defined, Whole, Spelling
  <2>3. Good("OPE", i, j)
    BY <1>0, <2>1, <2>2, GoodOther DEF Whole
  <2>. QED
    BY <1>10, <2>3, ReturnForms DEF i, j
<1>11. CASE \/ In("punct", Openers) /\ Comment("/") /\ Skip(2, "line")
            \/ In("punct", Openers) /\ Comment("*") /\ Skip(2, "block")
  BY <1>11, SkipForms DEF Skipping
<1>12. CASE \/ In("punct", {"-"}) /\ Arrow /\ Take(2, "operator")
            \/ In("punct", Repeats) /\ Doubled /\ Take(2, "operator")
  <2>1. curPos = i /\ j + 2 = i + 1
    BY <1>0, <1>1, <1>12 DEF In
  <2>2. \/ char(i) = "-" /\ char(i + 1) = ">"
        \/ char(i) \in Repeats /\ char(i + 1) = char(i)
    BY <1>12, <2>1 DEF Arrow, Doubled
  <2>3. Whole(i, j + 2)
    BY <1>0, <2>1, <2>2, WholeTwo
  <2>. QED
    BY <1>5, <1>12, <2>3
<1>13. CASE /\ In("punct", Assigns)
            /\ ~(Arrow \/ Doubled \/ Comment("/") \/ Comment("*"))
            /\ Take(1, "assign")
  <2>1. curPos = i /\ j + 1 = i /\ char(i) \in Assigns
    BY <1>0, <1>1, <1>13 DEF In
  <2>2. Alone(i)
    BY <1>13, <2>1 DEF Alone, Arrow, Doubled
  <2>3. Formed("assign", i, j + 1)
    BY <2>1, <2>2 DEF Formed
  <2>. QED
    BY <1>13, <2>3, TakeForms DEF i, j
<1>14. CASE In("punct", Angles) /\ Take(1, "angle")
  <2>1. Formed("angle", i, j + 1)
    BY <1>0, <1>1, <1>14 DEF Formed, In
  <2>. QED
    BY <1>14, <2>1, TakeForms DEF i, j
<1>15. CASE Not("punct", Assigns \cup Angles \cup {"."}) /\ Take(1, "operator")
  <2>1. j + 1 = i /\ char(i) \in Punct \ {"."} /\ char(i) \notin Assigns \cup Angles
    BY <1>0, <1>1, <1>15 DEF Not
  <2>2. Whole(i, j + 1)
    BY <1>0, <2>1, WholeOne
  <2>. QED
    BY <1>5, <1>15, <2>2
<1>16. CASE In("assign", {"="}) /\ Take(1, "operator")
  <2>1. char(curPos) = "=" /\ state = "assign"
    BY <1>16 DEF In
  <2>2. CASE i = j /\ curPos = i + 1 /\ Alone(i)
    BY <1>0, <1>5, <1>16, <2>1, <2>2, WholeTwo DEF Alone
  <2>3. CASE j = i + 1 /\ curPos = i + 2 /\ char(i) \in Angles /\ char(j) = char(i)
    <3>1. Whole(i, i + 2) /\ j + 1 = i + 2
      BY <1>0, <2>1, <2>3, WholeThree
    <3>. QED
      BY <1>5, <1>16, <3>1
  <2>. QED
    BY <1>4, <2>1, <2>2, <2>3
<1>17. CASE Not("assign", {"="}) /\ Go("operator")
  <2>1. char(curPos) # "=" /\ state = "assign"
    BY <1>17 DEF Not
  <2>2. CASE i = j /\ curPos = i + 1 /\ Alone(i)
    <3>1. char(i) \in Punct \ {"."}
      BY <2>2, Classes DEF Alone
    <3>2. Whole(i, i)
      BY <1>0, <2>1, <2>2, <3>1, WholeOne
    <3>. QED
      BY <1>6, <1>17, <2>2, <3>2
  <2>3. CASE j = i + 1 /\ curPos = i + 2 /\ char(i) \in Angles /\ char(j) = char(i)
    <3>1. Whole(i, i + 1)
      BY <1>0, <2>1, <2>3, WholeTwo
    <3>. QED
      BY <1>6, <1>17, <2>3, <3>1
  <2>. QED
    BY <1>4, <2>1, <2>2, <2>3
<1>18. CASE In("angle", {"="}) /\ Take(1, "operator")
  <2>1. Whole(i, i + 1) /\ j + 1 = i + 1
    BY <1>0, <1>3, <1>18, WholeTwo DEF In
  <2>. QED
    BY <1>5, <1>18, <2>1
<1>19. CASE In("angle", Angles) /\ char(curPos) = char(curPos - 1) /\ Take(1, "assign")
  <2>1. j + 1 = i + 1 /\ char(i) \in Angles /\ char(i + 1) = char(i) /\ curPos = i + 1
    BY <1>0, <1>3, <1>19 DEF In
  <2>2. Formed("assign", i, j + 1)
    BY <2>1 DEF Formed
  <2>. QED
    BY <1>19, <2>2, TakeForms DEF i, j
<1>20. CASE Not("angle", {"=", char(curPos - 1)}) /\ Go("operator")
  <2>1. i = j /\ char(i) \in Angles /\ char(i + 1) # "=" /\ char(i + 1) # char(i)
    BY <1>0, <1>3, <1>20 DEF Not
  <2>2. char(i) \in Punct \ {"."}
    BY <2>1, Classes
  <2>3. Whole(i, i)
    BY <1>0, <2>1, <2>2, WholeOne
  <2>. QED
    BY <1>6, <1>20, <2>1, <2>3
<1>. QED
  BY <1>7, <1>8, <1>9, <1>10, <1>11, <1>12, <1>13, <1>14, <1>15, <1>16, <1>17, <1>18, <1>19,
     <1>20 DEF formPuncToken

LEMMA NextForms ==
    ASSUME Within, formNextToken
    PROVE  Forming' /\ Returned
<1>1. curPos \in Nat /\ curPos >= 1
  BY DEF Within
<1>2. CASE In("next", Blank) /\ Skip(1, "next")
  BY <1>2, SkipForms DEF Skipping
<1>3. CASE In("next", {"0"}) /\ Begin(1, "zero")
  <2>1. Formed("zero", curPos, curPos - 1 + 1)
    BY <1>1, <1>3 DEF Formed, In
  <2>. QED
    BY <1>3, <2>1, BeginForms
<1>4. CASE In("next", Digit \ {"0"}) /\ Begin(0, "decimal")
  <2>1. Formed("decimal", curPos, curPos - 1)
    BY <1>1, <1>4 DEF Formed, In, Each, Octal
  <2>. QED
    BY <1>1, <1>4, <2>1, BeginForms
<1>5. CASE In("next", Alpha) /\ Begin(1, "word")
  <2>1. Formed("word", curPos, curPos - 1 + 1)
    BY <1>1, <1>5 DEF Formed, In, Word, Each
  <2>. QED
    BY <1>5, <2>1, BeginForms
<1>6. CASE In("next", Punct) /\ Begin(0, "punct")
  <2>1. Formed("punct", curPos, curPos - 1)
    BY <1>1, <1>6 DEF Formed, In
  <2>. QED
    BY <1>1, <1>6, <2>1, BeginForms
<1>7. CASE In("next", {Control}) /\ dialect # "c" /\ Begin(1, "control")
  <2>1. Formed("control", curPos, curPos - 1 + 1)
    BY <1>1, <1>7 DEF Formed, In
  <2>. QED
    BY <1>7, <2>1, BeginForms
<1>8. ASSUME NEW s \in {"done", "exited"}, Begin(0, s) PROVE Forming' /\ Returned
  <2>1. Formed(s, curPos, curPos - 1)
    BY Idle DEF Skipping
  <2>. QED
    BY <1>1, <1>8, <2>1, BeginForms
<1>. QED
  BY <1>2, <1>3, <1>4, <1>5, <1>6, <1>7, <1>8 DEF formNextToken

-----------------------------------------------------------------------------
(* Every step: what is read of a token is what its state says, and what is *)
(* returned is good.                                                       *)
LEMMA StepForms == Within /\ Forming /\ [Next]_vars => Forming' /\ Returned
<1>. SUFFICES ASSUME Within, Forming, [Next]_vars PROVE Forming' /\ Returned
  OBVIOUS
<1>1. CASE formNextToken
  BY <1>1, NextForms
<1>2. CASE formOctalToken \/ formHexToken \/ formDecimalToken
  BY <1>2, OctalForms, HexForms, DecimalForms
<1>3. CASE formFloatToken \/ formFloatWithExpToken
  BY <1>3, FloatForms, ExpForms
<1>4. CASE formWordToken \/ formNextControlToken \/ formPuncToken
  BY <1>4, WordForms, ControlForms, PuncForms
<1>5. CASE LineComment
  BY <1>5, SkipForms, StopForms DEF LineComment, Skipping
<1>6. CASE BlockComment
  BY <1>6, SkipForms, StopForms DEF BlockComment, Skipping
<1>7. CASE UNCHANGED vars
  BY <1>7, Standing DEF vars, Forming, Returned
<1>. QED
  BY <1>1, <1>2, <1>3, <1>4, <1>5, <1>6, <1>7 DEF Next

(* A token is returned at its end.                                         *)
LEMMA ReturnsAtEnd ==
    ASSUME [Next]_vars, tokens' # tokens
    PROVE  state \notin Skipping
<1>1. CASE formNextToken \/ LineComment \/ BlockComment \/ UNCHANGED vars
  BY <1>1 DEF formNextToken, LineComment, BlockComment, Begin, Skip, Go, vars
<1>2. CASE formOctalToken
  BY <1>2 DEF formOctalToken, In, Not, Skipping
<1>3. CASE formHexToken
  BY <1>3 DEF formHexToken, In, Not, Skipping
<1>4. CASE formDecimalToken
  BY <1>4 DEF formDecimalToken, In, Not, Skipping
<1>5. CASE formFloatToken \/ formFloatWithExpToken
  BY <1>5 DEF formFloatToken, formFloatWithExpToken, In, Not, Skipping
<1>6. CASE formWordToken \/ formNextControlToken
  BY <1>6 DEF formWordToken, formNextControlToken, In, Not, Skipping
<1>7. CASE formPuncToken
  BY <1>7 DEF formPuncToken, In, Not, Skipping
<1>. QED
  BY <1>1, <1>2, <1>3, <1>4, <1>5, <1>6, <1>7 DEF Next

(* Each token is of the kind the document gives its text, and no longer    *)
(* one begins where it does: for every text and every dialect, but for     *)
(* what follows a leading zero (tokenizer.c:336-355).                      *)
THEOREM TokensAreDefined == Spec => TokensAreLongest
<1>1. Init => Forming
  BY Idle DEF Init, Forming, Skipping
<1>2. Within /\ Returned /\ [Next]_vars => Appended
  <2>. SUFFICES ASSUME Within, Returned, [Next]_vars, tokens' # tokens
                PROVE  \E t : Found(t)
    BY DEF Appended
  <2>1. curPos = begin + length
    BY ReturnsAtEnd DEF Within
  <2>2. PICK type : Return(type) /\ Good(type, begin, curPos - 1)
    BY DEF Returned
  <2>3. begin + length - 1 = curPos - 1
    BY <2>1 DEF Within
  <2>. DEFINE token == SubSeq(text, begin, curPos - 1)
              t == [type |-> type, token |-> token,
                    name |-> IF dialect = "c" THEN typeToString(type, token) ELSE type]
  <2>4. tokens' = Append(tokens, t)
    BY <2>2, <2>3 DEF Return
  <2>5. t.type = type /\ t.token = SubSeq(text, begin, curPos - 1)
    OBVIOUS
  <2>. HIDE DEF t
  <2>6. Found(t)
    BY <2>2, <2>4, <2>5 DEF Found, Good
  <2>. QED
    BY <2>6
<1>3. Init => Within
  BY InitWithin
<1>4. Appended <=> (tokens' = tokens \/ \E t : Found(t))
  BY DEF Appended
<1>. QED
  BY <1>1, <1>2, <1>3, StepForms, StepWithin, PTL DEF Spec, TokensAreLongest

-----------------------------------------------------------------------------
(* What the dictionaries find.                                             *)

(* A set of naturals that is not empty has a least element.                *)
LEMMA LeastNatural ==
    ASSUME NEW T, T \subseteq Nat, T # {}
    PROVE  \E m \in T : \A k \in T : m <= k
<1>. DEFINE R == OpToRel(<, Nat)
<1>1. IsWellFoundedOn(R, Nat)
  BY NatLessThanWellFounded
<1>2. \A a, b \in Nat : a < b => <<a, b>> \in R
  BY DEF OpToRel
<1>. HIDE DEF R
<1>3. PICK m \in T : \A k \in T : ~(<<k, m>> \in R)
  BY <1>1, WFMin
<1>4. ASSUME NEW k \in T PROVE m <= k
  <2>1. k \in Nat /\ m \in Nat /\ ~(k < m)
    BY <1>2, <1>3
  <2>. QED
    BY <2>1
<1>. QED
  BY <1>4

(* Induction up to n, on a set of numbers.                                 *)
LEMMA Upward ==
    ASSUME NEW n \in Nat, NEW T, 0 \in T, \A k \in 1 .. n : k - 1 \in T => k \in T
    PROVE  \A k \in 0 .. n : k \in T
<1>. DEFINE Bad == {k \in 0 .. n : k \notin T}
<1>. SUFFICES ASSUME NEW b \in Bad PROVE FALSE
  OBVIOUS
<1>1. PICK m \in Bad : \A k \in Bad : m <= k
  <2>1. Bad \subseteq Nat /\ Bad # {}
    OBVIOUS
  <2>. HIDE DEF Bad
  <2>. QED
    BY <2>1, LeastNatural
<1>2. m \in 1 .. n /\ m - 1 \in 0 .. n /\ m - 1 \notin Bad
  BY <1>1
<1>. QED
  BY <1>1, <1>2

(* What is defined by recursion up to n exists: when g leads from every    *)
(* value that S allows at k - 1 to one that it allows at k.                *)
Leads(n, g, S) == \A k \in 1 .. n : \A x \in S[k - 1] : g[<<k, x>>] \in S[k]
Solves(f, n, s, g, S) ==
    /\ f = [k \in 0 .. n |-> IF k = 0 THEN s ELSE g[<<k, f[k - 1]>>]]
    /\ \A k \in 0 .. n : f[k] \in S[k]
LEMMA Recursion ==
    ASSUME NEW n \in Nat, NEW s, NEW g, NEW S, s \in S[0], Leads(n, g, S)
    PROVE  \E f : Solves(f, n, s, g, S)
<1>. DEFINE T == {m \in 0 .. n : \E f : Solves(f, m, s, g, S)}
<1>. USE DEF Leads, Solves
<1>1. 0 \in T
  <2>. DEFINE h == [k \in 0 .. 0 |-> s]
  <2>1. Solves(h, 0, s, g, S)
    OBVIOUS
  <2>. HIDE DEF h, Solves
  <2>. QED
    BY <2>1
<1>2. ASSUME NEW m \in 1 .. n, m - 1 \in T PROVE m \in T
  <2>1. PICK f : Solves(f, m - 1, s, g, S)
    BY <1>2
  <2>. DEFINE h == [k \in 0 .. m |-> IF k = m THEN g[<<m, f[m - 1]>>] ELSE f[k]]
  <2>2. /\ f[0] = s /\ \A k \in 1 .. m - 1 : f[k] = g[<<k, f[k - 1]>>]
        /\ \A k \in 0 .. m - 1 : f[k] \in S[k]
    BY <2>1
  <2>3. /\ h[0] = s /\ h[m] = g[<<m, f[m - 1]>>] /\ \A k \in 0 .. m - 1 : h[k] = f[k]
    BY <2>2
  <2>4. \A k \in 1 .. m : h[k] = g[<<k, h[k - 1]>>]
    <3>. HIDE DEF h
    <3>1. h[m] = g[<<m, h[m - 1]>>]
      <4>1. m - 1 \in 0 .. m - 1
        OBVIOUS
      <4>2. h[m - 1] = f[m - 1]
        BY <2>3, <4>1
      <4>. QED
        BY <2>3, <4>2
    <3>2. ASSUME NEW k \in 1 .. m - 1 PROVE h[k] = g[<<k, h[k - 1]>>]
      <4>1. k \in 0 .. m - 1 /\ k - 1 \in 0 .. m - 1
        OBVIOUS
      <4>. QED
        BY <2>2, <2>3, <4>1
    <3>. QED
      BY <3>1, <3>2
  <2>5. \A k \in 0 .. m : h[k] \in S[k]
    <3>1. g[<<m, f[m - 1]>>] \in S[m]
      BY <2>2
    <3>. HIDE DEF h
    <3>. QED
      BY <2>2, <2>3, <3>1
  <2>6. h = [k \in 0 .. m |-> IF k = 0 THEN s ELSE g[<<k, h[k - 1]>>]]
    <3>1. h = [k \in 0 .. m |-> h[k]]
      OBVIOUS
    <3>. HIDE DEF h
    <3>2. \A k \in 0 .. m : h[k] = IF k = 0 THEN s ELSE g[<<k, h[k - 1]>>]
      BY <2>3, <2>4
    <3>. QED
      BY <3>1, <3>2
  <2>. HIDE DEF h
  <2>7. Solves(h, m, s, g, S)
    BY <2>5, <2>6
  <2>. HIDE DEF Solves
  <2>. QED
    BY <2>7
<1>. HIDE DEF Solves
<1>3. \A m \in 0 .. n : m \in T
  <2>. HIDE DEF T
  <2>. QED
    BY <1>1, <1>2, Upward
<1>. QED
  BY <1>3

(* The hash of a key of characters that have codes is a list of the table. *)
Keys == Seq(DOMAIN Code)
LEMMA HashInTable ==
    ASSUME NEW key \in Keys, NEW size \in Nat \ {0}
    PROVE  hash(key, size) \in 0 .. size - 1
<1>. DEFINE n == Len(key)
            code == [i \in 1 .. n |-> Code[key[i]]]
            S == [k \in 0 .. n |-> Nat]
            g == [a \in (1 .. n) \X Nat |-> a[2] + code[a[1]]]
            index == CHOOSE f : f = [i \in 0 .. n |-> IF i = 0 THEN 0 ELSE f[i - 1] + Code[key[i]]]
<1>1. n \in Nat /\ \A k \in 1 .. n : code[k] \in Nat /\ code[k] = Code[key[k]]
  BY CodeAssumption DEF Keys
<1>2. 0 \in S[0] /\ \A k \in 0 .. n : S[k] = Nat
  BY <1>1
<1>3. \A k \in 1 .. n : \A x \in Nat : g[<<k, x>>] = x + code[k]
  OBVIOUS
<1>. HIDE DEF S, g, code, n
<1>4. Leads(n, g, S)
  <2>. SUFFICES ASSUME NEW k \in 1 .. n, NEW x \in S[k - 1] PROVE g[<<k, x>>] \in S[k]
    BY DEF Leads
  <2>1. k \in 0 .. n /\ k - 1 \in 0 .. n
    BY <1>1
  <2>2. x \in Nat /\ S[k] = Nat
    BY <1>2, <2>1
  <2>3. g[<<k, x>>] = x + code[k] /\ code[k] \in Nat
    BY <1>1, <1>3, <2>2
  <2>. QED
    BY <2>2, <2>3
<1>5. PICK f : /\ f = [k \in 0 .. n |-> IF k = 0 THEN 0 ELSE g[<<k, f[k - 1]>>]]
               /\ \A k \in 0 .. n : f[k] \in S[k]
  <2>1. \E f : Solves(f, n, 0, g, S)
    BY <1>1, <1>2, <1>4, Recursion
  <2>. QED
    BY <2>1 DEF Solves
<1>6. f = [k \in 0 .. n |-> IF k = 0 THEN 0 ELSE f[k - 1] + Code[key[k]]]
  <2>1. \A k \in 1 .. n : g[<<k, f[k - 1]>>] = f[k - 1] + Code[key[k]]
    <3>1. \A k \in 1 .. n : k - 1 \in 0 .. n
      BY <1>1
    <3>. QED
      BY <1>1, <1>2, <1>3, <1>5, <3>1
  <2>2. \A k \in 0 .. n : (IF k = 0 THEN 0 ELSE g[<<k, f[k - 1]>>])
                          = (IF k = 0 THEN 0 ELSE f[k - 1] + Code[key[k]])
    BY <1>1, <2>1
  <2>. QED
    BY <1>5, <2>2
<1>7. index = [k \in 0 .. n |-> IF k = 0 THEN 0 ELSE index[k - 1] + Code[key[k]]]
  BY <1>6
<1>8. hash(key, size) = index[n] % size
  BY DEF hash, n
<1>. HIDE DEF index
<1>9. \A k \in 0 .. n : index[k] \in Nat
  <2>. DEFINE T == {k \in 0 .. n : index[k] \in Nat}
  <2>1. index[0] = 0 /\ \A k \in 1 .. n : index[k] = index[k - 1] + Code[key[k]]
    BY <1>1, <1>7
  <2>3. 0 \in T /\ \A k \in 1 .. n : k - 1 \in T => k \in T
    BY <1>1, <2>1
  <2>. HIDE DEF T
  <2>2. \A k \in 0 .. n : k \in T
    BY <1>1, <2>3, Upward
  <2>. QED
    BY <2>2 DEF T
<1>. QED
  BY <1>1, <1>8, <1>9

(* A table holds the first k entries of two arrays.                        *)
Entries(keys, values) == [key : Keys, value : {values[l] : l \in 1 .. Len(keys)}]
Holds(ht, size, keys, values, k) ==
    /\ ht \in [0 .. size - 1 -> Seq(Entries(keys, values))]
    /\ \A b \in 0 .. size - 1 : \A i \in 1 .. Len(ht[b]) :
         \E l \in 1 .. k : ht[b][i].key = keys[l] /\ ht[b][i].value = values[l]
    /\ \A l \in 1 .. k :
         \E i \in 1 .. Len(ht[hash(keys[l], size)]) : ht[hash(keys[l], size)][i].key = keys[l]

LEMMA Sizes == ASSUME NEW size \in Nat \ {0} PROVE Cardinality(0 .. size - 1) = size
BY FS_Interval

LEMMA EmptyHolds ==
    ASSUME NEW size \in Nat \ {0}, NEW keys, NEW values
    PROVE  Holds(HTCreate(size), size, keys, values, 0)
BY DEF Holds, HTCreate

LEMMA AddingHolds ==
    ASSUME NEW size \in Nat \ {0}, NEW keys \in Seq(Keys), NEW values,
           NEW k \in 1 .. Len(keys), NEW ht, Holds(ht, size, keys, values, k - 1)
    PROVE  Holds(addToHashTable(ht, keys[k], values[k]), size, keys, values, k)
<1>. DEFINE Entry == Entries(keys, values)
            e == [key |-> keys[k], value |-> values[k]]
            h == hash(keys[k], size)
            new == addToHashTable(ht, keys[k], values[k])
            At(l) == hash(keys[l], size)
<1>1. keys[k] \in Keys /\ h \in 0 .. size - 1
  BY HashInTable
<1>2. ht \in [0 .. size - 1 -> Seq(Entry)]
  BY DEF Holds
<1>3. DOMAIN ht = 0 .. size - 1 /\ Cardinality(DOMAIN ht) = size
  BY <1>2, Sizes
<1>4. new = [ht EXCEPT ![h] = Append(ht[h], e)]
  BY <1>3 DEF addToHashTable
<1>5. e \in Entry /\ e.key = keys[k] /\ e.value = values[k]
  BY <1>1 DEF Entries
<1>6. /\ \A b \in 0 .. size - 1 : \A i \in 1 .. Len(ht[b]) :
           \E l \in 1 .. k - 1 : ht[b][i].key = keys[l] /\ ht[b][i].value = values[l]
      /\ \A l \in 1 .. k - 1 : \E i \in 1 .. Len(ht[At(l)]) : ht[At(l)][i].key = keys[l]
  BY DEF Holds
<1>7. \A l \in 1 .. k : At(l) \in 0 .. size - 1
  <2>1. \A l \in 1 .. k : keys[l] \in Keys
    OBVIOUS
  <2>. QED
    BY <2>1, HashInTable
<1>8. At(k) = h
  OBVIOUS
<1>9. k \in Nat /\ k \in 1 .. k /\ \A l \in 1 .. k : l # k => l \in 1 .. k - 1
  OBVIOUS
<1>. HIDE DEF Entry, e, h, new, At
<1>10. ht[h] \in Seq(Entry) /\ Append(ht[h], e) \in Seq(Entry)
       /\ Len(Append(ht[h], e)) = Len(ht[h]) + 1
       /\ \A i \in 1 .. Len(ht[h]) : Append(ht[h], e)[i] = ht[h][i]
       /\ Append(ht[h], e)[Len(ht[h]) + 1] = e /\ Len(ht[h]) \in Nat
  BY <1>1, <1>2, <1>5
<1>11. /\ new \in [0 .. size - 1 -> Seq(Entry)]
       /\ new[h] = Append(ht[h], e)
       /\ \A b \in 0 .. size - 1 : b # h => new[b] = ht[b]
  BY <1>1, <1>2, <1>4, <1>10
<1>12. ASSUME NEW b \in 0 .. size - 1, NEW i \in 1 .. Len(new[b])
       PROVE  \E l \in 1 .. k : new[b][i].key = keys[l] /\ new[b][i].value = values[l]
  <2>1. CASE b # h \/ i \in 1 .. Len(ht[b])
    <3>1. new[b][i] = ht[b][i] /\ i \in 1 .. Len(ht[b])
      BY <1>10, <1>11, <1>12, <2>1
    <3>2. PICK l \in 1 .. k - 1 : ht[b][i].key = keys[l] /\ ht[b][i].value = values[l]
      BY <1>6, <3>1
    <3>. QED
      BY <3>1, <3>2
  <2>2. CASE b = h /\ i \notin 1 .. Len(ht[b])
    <3>1. new[b][i] = e
      BY <1>10, <1>11, <1>12, <2>2
    <3>. QED
      BY <1>5, <1>9, <3>1
  <2>. QED
    BY <2>1, <2>2
<1>13. ASSUME NEW l \in 1 .. k
       PROVE  \E i \in 1 .. Len(new[At(l)]) : new[At(l)][i].key = keys[l]
  <2>1. CASE l = k
    <3>1. Len(ht[h]) + 1 \in 1 .. Len(new[h])
      BY <1>10, <1>11
    <3>2. new[h][Len(ht[h]) + 1] = e
      BY <1>10, <1>11
    <3>. QED
      BY <1>5, <1>8, <2>1, <3>1, <3>2
  <2>2. CASE l # k
    <3>1. PICK i \in 1 .. Len(ht[At(l)]) : ht[At(l)][i].key = keys[l]
      BY <1>6, <1>9, <2>2
    <3>2. i \in 1 .. Len(new[At(l)]) /\ new[At(l)][i] = ht[At(l)][i]
      <4>1. CASE At(l) = h
        <5>1. i \in 1 .. Len(ht[h]) /\ ht[h][i].key = keys[l]
          BY <3>1, <4>1
        <5>2. i \in 1 .. Len(new[h]) /\ new[h][i] = ht[h][i]
          BY <1>10, <1>11, <5>1
        <5>. QED
          BY <4>1, <5>1, <5>2
      <4>2. CASE At(l) # h
        BY <1>7, <1>11, <3>1, <4>2
      <4>. QED
        BY <4>1, <4>2
    <3>. QED
      BY <3>1, <3>2
  <2>. QED
    BY <2>1, <2>2
<1>. QED
  BY <1>11, <1>12, <1>13 DEF Holds, Entry, new, At

(* The dictionaries find (hashtable.c): what two arrays put into a table   *)
(* of any size is found under its key, whatever collides, and nothing else *)
(* is.                                                                     *)
THEOREM TableFinds ==
    ASSUME NEW size \in Nat \ {0}, NEW keys \in Seq(Keys), NEW values, NEW key \in Keys
    PROVE  IF \E l \in 1 .. Len(keys) : keys[l] = key
           THEN \E l \in 1 .. Len(keys) :
                    keys[l] = key /\ find(Table(size, keys, values), key) = values[l]
           ELSE find(Table(size, keys, values), key) = NotThere
<1>. DEFINE n == Len(keys)
            All == [0 .. size - 1 -> Seq(Entries(keys, values))]
            Tables == [k \in 0 .. n |-> {ht \in All : Holds(ht, size, keys, values, k)}]
            g == [a \in (1 .. n) \X All |-> addToHashTable(a[2], keys[a[1]], values[a[1]])]
            table == CHOOSE f : f = [i \in 0 .. n |->
                        IF i = 0 THEN HTCreate(size)
                        ELSE addToHashTable(f[i - 1], keys[i], values[i])]
<1>1. n \in Nat
  OBVIOUS
<1>2. \A k \in 0 .. n : \A ht : ht \in Tables[k] <=> Holds(ht, size, keys, values, k)
  BY DEF Holds
<1>3. \A k \in 1 .. n : \A x : Holds(x, size, keys, values, k - 1) =>
           g[<<k, x>>] = addToHashTable(x, keys[k], values[k])
  BY DEF Holds
<1>4. Table(size, keys, values) = table[n]
  BY DEF Table
<1>. HIDE DEF Tables, g
<1>5. \A k \in 1 .. n : k \in 0 .. n /\ k - 1 \in 0 .. n
  BY <1>1
<1>. HIDE DEF n
<1>6. HTCreate(size) \in Tables[0]
  BY <1>1, <1>2, EmptyHolds
<1>7. Leads(n, g, Tables)
  <2>. SUFFICES ASSUME NEW k \in 1 .. n, NEW x \in Tables[k - 1] PROVE g[<<k, x>>] \in Tables[k]
    BY DEF Leads
  <2>1. Holds(x, size, keys, values, k - 1)
    BY <1>2, <1>5
  <2>2. Holds(addToHashTable(x, keys[k], values[k]), size, keys, values, k)
    BY <2>1, AddingHolds DEF n
  <2>. QED
    BY <1>2, <1>3, <1>5, <2>1, <2>2
<1>8. PICK f : /\ f = [k \in 0 .. n |-> IF k = 0 THEN HTCreate(size) ELSE g[<<k, f[k - 1]>>]]
               /\ \A k \in 0 .. n : f[k] \in Tables[k]
  <2>1. \E f : Solves(f, n, HTCreate(size), g, Tables)
    BY <1>1, <1>6, <1>7, Recursion
  <2>. QED
    BY <2>1 DEF Solves
<1>9. f = [k \in 0 .. n |-> IF k = 0 THEN HTCreate(size)
                            ELSE addToHashTable(f[k - 1], keys[k], values[k])]
  <2>1. \A k \in 1 .. n : g[<<k, f[k - 1]>>] = addToHashTable(f[k - 1], keys[k], values[k])
    BY <1>2, <1>3, <1>5, <1>8
  <2>2. \A k \in 0 .. n : (IF k = 0 THEN HTCreate(size) ELSE g[<<k, f[k - 1]>>])
                          = (IF k = 0 THEN HTCreate(size)
                             ELSE addToHashTable(f[k - 1], keys[k], values[k]))
    BY <1>1, <2>1
  <2>. QED
    BY <1>8, <2>2
<1>10. table = [k \in 0 .. n |-> IF k = 0 THEN HTCreate(size)
                                 ELSE addToHashTable(table[k - 1], keys[k], values[k])]
  BY <1>9
<1>. HIDE DEF table
<1>11. \A k \in 0 .. n : Holds(table[k], size, keys, values, k)
  <2>. DEFINE T == {k \in 0 .. n : Holds(table[k], size, keys, values, k)}
  <2>1. 0 \in T
    BY <1>1, <1>10, EmptyHolds
  <2>2. \A k \in 1 .. n : k - 1 \in T => k \in T
    <3>. SUFFICES ASSUME NEW k \in 1 .. n, k - 1 \in T PROVE k \in T
      OBVIOUS
    <3>1. Holds(addToHashTable(table[k - 1], keys[k], values[k]), size, keys, values, k)
      BY AddingHolds DEF n
    <3>2. table[k] = addToHashTable(table[k - 1], keys[k], values[k])
      BY <1>1, <1>10
    <3>. QED
      BY <1>5, <3>1, <3>2
  <2>. HIDE DEF T
  <2>3. \A k \in 0 .. n : k \in T
    BY <1>1, <2>1, <2>2, Upward
  <2>. QED
    BY <2>3 DEF T
<1>. DEFINE ht == Table(size, keys, values)
            list == ht[hash(key, size)]
            with == {i \in DOMAIN list : list[i].key = key}
<1>12. Holds(ht, size, keys, values, n)
  BY <1>1, <1>4, <1>11
<1>. HIDE DEF ht
<1>13. /\ ht \in [0 .. size - 1 -> Seq(Entries(keys, values))]
       /\ hash(key, size) \in 0 .. size - 1
       /\ \A b \in 0 .. size - 1 : \A i \in 1 .. Len(ht[b]) :
            \E l \in 1 .. n : ht[b][i].key = keys[l] /\ ht[b][i].value = values[l]
       /\ \A l \in 1 .. n :
            \E i \in 1 .. Len(ht[hash(keys[l], size)]) : ht[hash(keys[l], size)][i].key = keys[l]
  BY <1>12, HashInTable DEF Holds
<1>14. find(ht, key) = IF with = {} THEN NotThere ELSE list[Min(with)].value
  <2>1. Cardinality(DOMAIN ht) = size
    BY <1>13, Sizes
  <2>2. find(ht, key) = listFind(list, key)
    BY <2>1 DEF find
  <2>. QED
    BY <2>2 DEF listFind
<1>15. DOMAIN list = 1 .. Len(list) /\ Len(list) \in Nat
  BY <1>13
<1>16. ASSUME with # {} PROVE Min(with) \in with
  <2>1. with \subseteq Nat
    BY <1>15
  <2>. HIDE DEF with
  <2>2. \E m \in with : \A k \in with : m <= k
    BY <1>16, <2>1, LeastNatural
  <2>. QED
    BY <2>2 DEF Min
<1>17. CASE \E l \in 1 .. n : keys[l] = key
  <2>1. with # {}
    BY <1>13, <1>15, <1>17
  <2>2. Min(with) \in 1 .. Len(list) /\ list[Min(with)].key = key
    BY <1>15, <1>16, <2>1
  <2>3. PICK l \in 1 .. n : list[Min(with)].key = keys[l] /\ list[Min(with)].value = values[l]
    BY <1>13, <2>2
  <2>. QED
    BY <1>14, <1>17, <2>1, <2>2, <2>3 DEF n, ht
<1>18. CASE ~\E l \in 1 .. n : keys[l] = key
  <2>1. with = {}
    <3>. SUFFICES ASSUME NEW i \in 1 .. Len(list), list[i].key = key PROVE FALSE
      BY <1>15
    <3>1. PICK l \in 1 .. n : list[i].key = keys[l]
      BY <1>13
    <3>. QED
      BY <1>18, <3>1
  <2>. QED
    BY <1>14, <1>18, <2>1 DEF n, ht
<1>. QED
  BY <1>17, <1>18

-----------------------------------------------------------------------------
(* What the document says of a place, without quantifiers over kinds.      *)

(* The text is a C string.                                                 *)
Terminated == text \in Seq(STRING \ {NUL})

LEMMA Characters ==
    ASSUME Terminated
    PROVE  /\ Len(text) \in Nat
           /\ \A p \in 1 .. Len(text) : char(p) = text[p] /\ char(p) # NUL
           /\ \A p \in Int : p > Len(text) => char(p) = NUL
BY DEF Terminated, char

(* The text between two places.                                            *)
LEMMA Excerpt ==
    ASSUME Terminated, NEW i \in 1 .. Len(text), NEW j \in i .. Len(text)
    PROVE  /\ Len(SubSeq(text, i, j)) = j - i + 1
           /\ \A k \in 1 .. j - i + 1 : SubSeq(text, i, j)[k] = char(i + k - 1)
           /\ SubSeq(text, i, j) \in Seq({char(k) : k \in i .. j})
           /\ j = i => SubSeq(text, i, j) = <<char(i)>>
           /\ j = i + 1 => SubSeq(text, i, j) = <<char(i), char(i + 1)>>
           /\ j = i + 2 => SubSeq(text, i, j) = <<char(i), char(i + 1), char(i + 2)>>
<1>. DEFINE s == SubSeq(text, i, j)
<1>1. text \in Seq(STRING \ {NUL}) /\ Len(text) \in Nat
  BY Characters DEF Terminated
<1>2. s \in Seq(STRING \ {NUL}) /\ Len(s) = j - i + 1
      /\ \A k \in 1 .. j - i + 1 : s[k] = text[i + k - 1]
  BY <1>1
<1>3. \A k \in 1 .. j - i + 1 : i + k - 1 \in 1 .. Len(text) /\ i + k - 1 \in i .. j
  OBVIOUS
<1>4. \A k \in 1 .. j - i + 1 : s[k] = char(i + k - 1)
  BY <1>2, <1>3, Characters
<1>. HIDE DEF s
<1>5. s = [k \in 1 .. Len(s) |-> s[k]]
  BY <1>2
<1>6. s \in Seq({char(k) : k \in i .. j})
  <2>. DEFINE C == {char(k) : k \in i .. j}
  <2>1. \A k \in 1 .. Len(s) : s[k] \in C
    BY <1>2, <1>3, <1>4
  <2>. HIDE DEF C
  <2>2. Len(s) \in Nat
    BY <1>2
  <2>. QED
    BY <1>5, <2>1, <2>2 DEF C
<1>7. j = i => s = <<char(i)>>
  BY <1>2, <1>4
<1>8. j = i + 1 => s = <<char(i), char(i + 1)>>
  BY <1>2, <1>4
<1>9. j = i + 2 => s = <<char(i), char(i + 1), char(i + 2)>>
  BY <1>2, <1>4
<1>. QED
  BY <1>2, <1>4, <1>6, <1>7, <1>8, <1>9 DEF s

(* The operators the array spells are those of Spelling.                   *)
LEMMA PairsAre ==
    ASSUME NEW a, NEW b
    PROVE  <<a, b>> \in Pairs \cup Triples
               <=> \/ a \in Repeats \cup Angles /\ b = a
                   \/ a \in Assigns \cup Angles /\ b = "="
                   \/ a = "-" /\ b = ">"
<1>1. <<a, b>> \notin Triples
  BY DEF Triples
<1>2. <<a, b>> \in Pairs <=> \/ \E c \in Repeats \cup Angles : <<a, b>> = <<c, c>>
                             \/ \E c \in Assigns \cup Angles : <<a, b>> = <<c, "=">>
                             \/ <<a, b>> = <<"-", ">">>
  BY DEF Pairs
<1>. QED
  BY <1>1, <1>2

LEMMA TriplesAre ==
    ASSUME NEW a, NEW b, NEW c
    PROVE  <<a, b, c>> \in Pairs \cup Triples <=> a \in Angles /\ b = a /\ c = "="
<1>1. <<a, b, c>> \notin Pairs
  BY DEF Pairs
<1>2. <<a, b, c>> \in Triples <=> \E d \in Angles : <<a, b, c>> = <<d, d, "=">>
  BY DEF Triples
<1>. QED
  BY <1>1, <1>2

LEMMA OperatorIs ==
    ASSUME Terminated, NEW i \in 1 .. Len(text), NEW j \in i .. Len(text)
    PROVE  Operator(i, j) <=> Spelling(i, j)
<1>. DEFINE s == SubSeq(text, i, j)
            spelled == {ops[k] : k \in DOMAIN ops}
            ones == {<<c>> : c \in Punct}
<1>1. Pairs \cup Triples = spelled \ ones
  BY OperatorsAssumption
<1>2. Operator(i, j) <=> s \in spelled \/ (i = j /\ char(i) \in Punct)
  BY DEF Operator
<1>3. Len(s) = j - i + 1
  BY Excerpt
<1>4. CASE j = i
  <2>1. s = <<char(i)>>
    BY <1>4, Excerpt
  <2>2. s \notin Pairs \cup Triples
    BY <2>1 DEF Pairs, Triples
  <2>3. s \in ones => char(i) \in Punct
    BY <2>1
  <2>. QED
    BY <1>1, <1>2, <1>4, <2>2, <2>3, Classes DEF Spelling
<1>5. CASE j = i + 1
  <2>1. s = <<char(i), char(i + 1)>>
    BY <1>5, Excerpt
  <2>2. s \notin ones
    BY <1>3, <1>5
  <2>3. s \in Pairs \cup Triples <=> \/ char(i) \in Repeats \cup Angles /\ char(i + 1) = char(i)
                                     \/ char(i) \in Assigns \cup Angles /\ char(i + 1) = "="
                                     \/ char(i) = "-" /\ char(i + 1) = ">"
    BY <2>1, PairsAre
  <2>4. j # i /\ j # i + 2
    BY <1>5
  <2>5. char(i) \in Repeats \cup Angles \cup Assigns \cup {"-"} => char(i) \in Punct
    BY Classes
  <2>. QED
    BY <1>1, <1>2, <1>5, <2>2, <2>3, <2>4, <2>5 DEF Spelling
<1>6. CASE j = i + 2
  <2>1. s = <<char(i), char(i + 1), char(i + 2)>>
    BY <1>6, Excerpt
  <2>2. s \notin ones
    BY <1>3, <1>6
  <2>3. s \in Pairs \cup Triples
          <=> char(i) \in Angles /\ char(i + 1) = char(i) /\ char(i + 2) = "="
    BY <2>1, TriplesAre
  <2>4. j # i /\ j # i + 1
    BY <1>6
  <2>5. char(i) \in Angles => char(i) \in Punct
    BY Classes
  <2>. QED
    BY <1>1, <1>2, <1>6, <2>2, <2>3, <2>4, <2>5 DEF Spelling
<1>7. CASE j > i + 2
  <2>1. Len(s) # 1 /\ Len(s) # 2 /\ Len(s) # 3
    BY <1>3, <1>7
  <2>2. s \notin Pairs /\ s \notin Triples /\ s \notin ones
    <3>1. \A t \in Pairs : Len(t) = 2
      BY DEF Pairs
    <3>2. \A t \in Triples : Len(t) = 3
      BY DEF Triples
    <3>3. \A t \in ones : Len(t) = 1
      OBVIOUS
    <3>. HIDE DEF s, ones
    <3>. QED
      BY <2>1, <3>1, <3>2, <3>3
  <2>3. j # i /\ j # i + 1 /\ j # i + 2
    BY <1>7
  <2>4. ~Spelling(i, j) /\ i # j
    BY <2>3 DEF Spelling
  <2>. QED
    BY <1>1, <1>2, <2>2, <2>4
<1>. QED
  BY <1>4, <1>5, <1>6, <1>7

-----------------------------------------------------------------------------
(* A token is of one kind.                                                 *)
LEMMA OneNumber ==
    ASSUME NEW i \in Int, NEW j \in Int
    PROVE  /\ Hex(i, j) => ~Octal(i, j) /\ ~Digits(i, j) /\ ~Float(i, j) /\ ~Mal(i, j)
           /\ Mal(i, j) => ~Octal(i, j) /\ ~Digits(i, j) /\ ~Float(i, j)
           /\ Float(i, j) => ~Octal(i, j) /\ ~Digits(i, j)
<1>1. ASSUME Octal(i, j) PROVE Digits(i, j)
  <2>1. \A x \in ODigit : x \in Digit
    BY Classes
  <2>. QED
    BY <1>1, <2>1, Classes DEF Octal, Digits, Each
<1>2. ASSUME Hex(i, j) PROVE char(i) = "0" /\ char(i + 1) \in {"x", "X"} /\ i + 1 < j
  BY <1>2 DEF Hex, HexPrefix
<1>3. ASSUME NEW m \in Int, Mantissa(i, m)
      PROVE  i <= m /\ \A k \in i .. m : char(k) \in Digit \cup {"."}
  BY <1>3, MantissaChars
<1>4. \A k : /\ char(k) \in {"x", "X"} => char(k) \notin Digit \cup {".", "e", "E"}
             /\ char(k) \in {"e", "E"} => char(k) \notin Digit \cup {"."}
             /\ char(k) \in {"+", "-"} => char(k) \notin Digit \cup {"."}
  BY Classes
<1>5. "." \notin Digit
  BY Classes
<1>6. ASSUME Float(i, j)
      PROVE  \/ Pointed(i, j)
             \/ \E m, n \in Int : /\ Mantissa(i, m) /\ char(m + 1) \in {"e", "E"} /\ m + 1 < j
                                 /\ n < j /\ Each(n + 1, j, Digit)
  BY <1>6 DEF Float, ExponentMark, Digits
<1>7. ASSUME Mal(i, j)
      PROVE  \/ char(i) = "0" /\ j = i + 1 /\ char(j) \in {"x", "X"}
             \/ \E m \in Int : /\ Mantissa(i, m) /\ char(m + 1) \in {"e", "E"} /\ m + 1 <= j
                              /\ char(j) \in {"e", "E", "+", "-"}
  BY <1>7 DEF Mal, ExponentMark, HexPrefix
<1>8. ASSUME Digits(i, j) PROVE i <= j /\ \A k \in i .. j : char(k) \in Digit
  BY <1>8 DEF Digits, Each
<1>9. ASSUME Pointed(i, j)
      PROVE  Mantissa(i, j) /\ \E d \in i .. j : char(d) = "."
  BY <1>9 DEF Pointed, Mantissa
<1>10. ASSUME NEW m \in Int, Mantissa(i, m), char(m + 1) \in {"e", "E"},
              char(i) = "0", char(i + 1) \in {"x", "X"}
       PROVE  FALSE
  <2>1. m # i
    BY <1>4, <1>10
  <2>2. i + 1 \in i .. m
    BY <1>3, <1>10, <2>1
  <2>. QED
    BY <1>3, <1>4, <1>10, <2>2
<1>11. ASSUME Hex(i, j) PROVE ~Digits(i, j) /\ ~Float(i, j) /\ ~Mal(i, j)
  <2>1. i + 1 \in i .. j /\ char(i + 1) \notin Digit \cup {"."}
    BY <1>2, <1>4, <1>11
  <2>2. ~Digits(i, j) /\ ~Mantissa(i, j)
    BY <1>3, <1>8, <2>1
  <2>3. ~Float(i, j)
    BY <1>2, <1>6, <1>9, <1>10, <1>11, <2>2
  <2>. QED
    BY <1>2, <1>7, <1>10, <1>11, <2>2, <2>3
<1>12. ASSUME Mal(i, j) PROVE ~Digits(i, j) /\ ~Float(i, j)
  <2>1. char(j) \notin Digit \cup {"."} /\ i <= j
    BY <1>3, <1>4, <1>7, <1>12
  <2>2. ~Digits(i, j) /\ ~Mantissa(i, j)
    BY <1>3, <1>8, <2>1
  <2>3. ASSUME NEW n \in Int, n < j, Each(n + 1, j, Digit) PROVE FALSE
    BY <2>1, <2>3 DEF Each
  <2>. QED
    BY <1>6, <1>9, <2>2, <2>3
<1>13. ASSUME Float(i, j) PROVE ~Digits(i, j)
  <2>. SUFFICES ASSUME Digits(i, j) PROVE FALSE
    OBVIOUS
  <2>1. ~Pointed(i, j)
    BY <1>5, <1>8, <1>9
  <2>2. PICK m \in Int : Mantissa(i, m) /\ char(m + 1) \in {"e", "E"} /\ m + 1 < j
    BY <1>6, <1>13, <2>1
  <2>3. m + 1 \in i .. j
    BY <1>3, <2>2
  <2>. QED
    BY <1>4, <1>8, <2>2, <2>3
<1>. QED
  BY <1>1, <1>11, <1>12, <1>13

LEMMA KindIs ==
    ASSUME Terminated, NEW i \in 1 .. Len(text), NEW j \in i .. Len(text)
    PROVE  /\ \A type : Defined(type, i, j) => Kind(i, j) = type
           /\ \/ Kind(i, j) = "none"
              \/ Defined(Kind(i, j), i, j)
<1>. DEFINE w == Word(i, j)
            o == Octal(i, j)
            h == Hex(i, j)
            d == Digits(i, j) /\ ~Octal(i, j)
            f == Float(i, j)
            m == Mal(i, j)
            p == Spelling(i, j)
            c == i = j /\ char(i) = Control
<1>1. i \in Int /\ j \in Int
  BY Characters
<1>2. Operator(i, j) <=> p
  BY OperatorIs
<1>3. o \/ h \/ d \/ f \/ m => Number(i, j) /\ char(i) \in Digit \cup {"."}
  <2>1. o \/ h \/ d \/ f \/ m => Number(i, j)
    BY DEF Number
  <2>. QED
    BY <1>1, <2>1, NumberBegins
<1>4. /\ w => char(i) \in Alpha
      /\ p => char(i) \in Punct
      /\ c => char(i) = Control
  BY DEF Word, Spelling
<1>5. w => ~(o \/ h \/ d \/ f \/ m) /\ ~p /\ ~c
  BY <1>3, <1>4, Classes
<1>6. c => ~(o \/ h \/ d \/ f \/ m) /\ ~p
  BY <1>3, <1>4, Classes
<1>7. p => ~(o \/ h \/ d \/ f \/ m)
  <2>. SUFFICES ASSUME p, o \/ h \/ d \/ f \/ m PROVE FALSE
    OBVIOUS
  <2>1. char(i) = "." /\ char(i) \notin Digit
    BY <1>3, <1>4, Classes
  <2>2. i = j
    BY <1>1, <1>3, NoWord
  <2>3. "." # "0"
    BY Classes
  <2>4. ~o /\ ~h /\ ~d
    BY <1>1, <2>1, <2>2, <2>3 DEF Octal, Hex, HexPrefix, Digits, Each
  <2>5. ~Pointed(i, j) /\ ~HexPrefix(i, j)
    BY <1>1, <2>2 DEF Pointed, HexPrefix
  <2>6. ~f
    BY <1>1, <2>2, <2>5 DEF Float
  <2>7. ~m
    BY <1>1, <2>2, <2>5 DEF Mal
  <2>. QED
    BY <2>4, <2>6, <2>7
<1>8. /\ h => ~o /\ ~d /\ ~f /\ ~m
      /\ m => ~o /\ ~d /\ ~f
      /\ f => ~o /\ ~d
      /\ d => ~o
  BY <1>1, OneNumber
<1>9. Kind(i, j) = CASE w -> "WORD"
                     [] o -> "OCTAL"
                     [] h -> "HEX"
                     [] d -> "DEC"
                     [] f -> "FLOAT"
                     [] m -> "MAL"
                     [] p -> "OPE"
                     [] c -> "CTR"
                     [] OTHER -> "none"
  BY <1>2 DEF Kind
<1>10. \A type : Defined(type, i, j) <=>
         /\ type \in {"WORD", "OCTAL", "HEX", "DEC", "FLOAT", "MAL", "OPE", "CTR"}
         /\ type = "WORD" => w
         /\ type = "OCTAL" => o
         /\ type = "HEX" => h
         /\ type = "DEC" => d
         /\ type = "FLOAT" => f
         /\ type = "MAL" => m
         /\ type = "OPE" => p
         /\ type = "CTR" => c
  BY DEF Defined
<1>. HIDE DEF w, o, h, d, f, m, p, c
<1>11. /\ w => Kind(i, j) = "WORD"
       /\ o => Kind(i, j) = "OCTAL"
       /\ h => Kind(i, j) = "HEX"
       /\ d => Kind(i, j) = "DEC"
       /\ f => Kind(i, j) = "FLOAT"
       /\ m => Kind(i, j) = "MAL"
       /\ p => Kind(i, j) = "OPE"
       /\ c => Kind(i, j) = "CTR"
       /\ ~(w \/ o \/ h \/ d \/ f \/ m \/ p \/ c) => Kind(i, j) = "none"
  BY <1>5, <1>6, <1>7, <1>8, <1>9
<1>. QED
  BY <1>10, <1>11

-----------------------------------------------------------------------------
(* Where tokens and comments end, and what the tokens are called.          *)
LEMMA LeastIs ==
    ASSUME NEW T, T \subseteq Int, NEW m \in T, \A k \in T : m <= k
    PROVE  Min(T) = m
<1>1. Min(T) \in T /\ \A k \in T : Min(T) <= k
  BY DEF Min
<1>2. Min(T) \in Int /\ m \in Int /\ Min(T) <= m /\ m <= Min(T)
  BY <1>1
<1>. QED
  BY ONLY <1>2

LEMMA GreatestIs ==
    ASSUME NEW T, T \subseteq Int, NEW m \in T, \A k \in T : k <= m
    PROVE  Max(T) = m
<1>1. Max(T) \in T /\ \A k \in T : Max(T) >= k
  BY DEF Max
<1>2. Max(T) \in Int /\ m \in Int /\ m <= Max(T) /\ Max(T) <= m
  BY <1>1
<1>. QED
  BY ONLY <1>2

(* A set of naturals that is bounded has a greatest element.               *)
LEMMA GreatestNatural ==
    ASSUME NEW T, NEW n \in Nat, T \subseteq 0 .. n, T # {}
    PROVE  \E m \in T : \A k \in T : k <= m
<1>. DEFINE U == {n - k : k \in T}
<1>1. U \subseteq Nat /\ U # {}
  <2>1. \A k \in T : n - k \in Nat
    OBVIOUS
  <2>. QED
    BY <2>1
<1>2. PICK u \in U : \A v \in U : u <= v
  <2>. HIDE DEF U
  <2>. QED
    BY <1>1, LeastNatural
<1>3. PICK m \in T : u = n - m
  BY <1>2
<1>4. ASSUME NEW k \in T PROVE k <= m
  <2>1. n - m <= n - k
    BY <1>2, <1>3
  <2>. QED
    BY <2>1
<1>. QED
  BY <1>4

(* The longest token is where it ends.                                     *)
LEMMA EndIs ==
    ASSUME Terminated, NEW i \in 1 .. Len(text), NEW j \in i .. Len(text), NEW type,
           Good(type, i, j), ~Misread(i)
    PROVE  TokenEnd(i) = j /\ Kind(i, j) = type
<1>. DEFINE T == {k \in i .. Len(text) : Kind(i, k) # "none"}
<1>1. Defined(type, i, j) /\ Longest(i, j)
  BY DEF Good, Misread
<1>2. Kind(i, j) = type
  BY <1>1, KindIs
<1>3. type # "none"
  BY <1>1 DEF Defined
<1>4. T \subseteq Int /\ j \in T
  BY <1>2, <1>3, Characters
<1>5. ASSUME NEW k \in T PROVE k <= j
  <2>. SUFFICES ASSUME k > j PROVE FALSE
    BY Characters
  <2>1. k \in i .. Len(text) /\ Defined(Kind(i, k), i, k)
    BY KindIs
  <2>2. ~Word(i, k) /\ ~Number(i, k) /\ ~Spelling(i, k)
    BY <1>1, Characters DEF Longest
  <2>3. k # i
    BY Characters
  <2>. QED
    BY <2>1, <2>2, <2>3 DEF Defined, Number
<1>. HIDE DEF T
<1>6. Max(T) = j
  BY <1>4, <1>5, GreatestIs
<1>. QED
  BY <1>2, <1>6 DEF TokenEnd, T

(* Where something is to be read there is a token.                         *)
LEMMA EndInText ==
    ASSUME Terminated, NEW i \in 1 .. Len(text), ~StopsAt(i), char(i) \notin Blank
    PROVE  TokenEnd(i) \in i .. Len(text) /\ Defined(Kind(i, TokenEnd(i)), i, TokenEnd(i))
<1>. DEFINE T == {k \in i .. Len(text) : Kind(i, k) # "none"}
<1>1. i \in i .. Len(text) /\ i \in Int /\ Len(text) \in Nat
  BY Characters
<1>2. char(i) \in Digit \cup Alpha \cup Punct \cup {Control}
  BY DEF StopsAt
<1>3. \E type : Defined(type, i, i)
  <2>1. CASE char(i) \in Digit
    <3>1. Digits(i, i) /\ ~Octal(i, i)
      BY <1>1, <2>1 DEF Digits, Each, Octal
    <3>2. Defined("DEC", i, i)
      BY <3>1 DEF Defined
    <3>. QED
      BY <3>2
  <2>2. CASE char(i) \in Alpha
    <3>1. Word(i, i)
      BY <1>1, <2>2 DEF Word, Each
    <3>2. Defined("WORD", i, i)
      BY <3>1 DEF Defined
    <3>. QED
      BY <3>2
  <2>3. CASE char(i) \in Punct
    <3>1. Defined("OPE", i, i)
      BY <2>3 DEF Defined, Spelling
    <3>. QED
      BY <3>1
  <2>4. CASE char(i) = Control
    <3>1. Defined("CTR", i, i)
      BY <2>4 DEF Defined
    <3>. QED
      BY <3>1
  <2>. QED
    BY <1>2, <2>1, <2>2, <2>3, <2>4
<1>4. Kind(i, i) # "none"
  BY <1>1, <1>3, KindIs DEF Defined
<1>5. T \subseteq 0 .. Len(text) /\ i \in T /\ T \subseteq Int
  BY <1>1, <1>4
<1>6. Max(T) \in T
  <2>. HIDE DEF T
  <2>1. PICK m \in T : \A k \in T : k <= m
    BY <1>1, <1>5, GreatestNatural
  <2>2. Max(T) = m
    BY <1>5, <2>1, GreatestIs
  <2>. QED
    BY <2>2
<1>7. TokenEnd(i) = Max(T)
  BY DEF TokenEnd
<1>8. TokenEnd(i) \in i .. Len(text) /\ Kind(i, TokenEnd(i)) # "none"
  BY <1>6, <1>7
<1>. QED
  BY <1>8, KindIs

(* A comment ends at the first place that ends it, or with the text.       *)
Ends(p, q) ==
    IF char(p + 1) = "/" THEN q >= p + 2 /\ char(q) = "\n"
    ELSE q >= p + 3 /\ char(q - 1) = "*" /\ char(q) = "/"
EndsAt(p, e) ==
    /\ e \in p .. Len(text)
    /\ \A q \in p .. e - 1 : ~Ends(p, q)
    /\ Ends(p, e) \/ e = Len(text)

LEMMA CommentEndIs ==
    ASSUME Terminated, NEW p \in 1 .. Len(text)
    PROVE  /\ CommentEnd(p) \in p .. Len(text)
           /\ \A e : EndsAt(p, e) => CommentEnd(p) = e
<1>. DEFINE T == IF char(p + 1) = "/"
                 THEN {q \in p + 2 .. Len(text) : char(q) = "\n"}
                 ELSE {q \in p + 3 .. Len(text) : char(q - 1) = "*" /\ char(q) = "/"}
<1>1. p \in Int /\ Len(text) \in Nat /\ p <= Len(text) /\ p >= 1
  BY Characters
<1>2. \A q : q \in T <=> q \in p .. Len(text) /\ Ends(p, q)
  BY <1>1 DEF Ends
<1>3. CommentEnd(p) = IF T = {} THEN Len(text) ELSE Min(T)
  BY DEF CommentEnd
<1>. HIDE DEF T
<1>4. T \subseteq Nat /\ T \subseteq Int
  BY <1>1, <1>2
<1>5. CASE T = {}
  <2>1. ASSUME NEW e, EndsAt(p, e) PROVE e = Len(text)
    BY <1>2, <1>5, <2>1 DEF EndsAt
  <2>. QED
    BY <1>1, <1>3, <1>5, <2>1
<1>6. CASE T # {}
  <2>1. PICK m \in T : \A k \in T : m <= k
    BY <1>4, <1>6, LeastNatural
  <2>2. CommentEnd(p) = m
    BY <1>3, <1>4, <1>6, <2>1, LeastIs
  <2>3. m \in p .. Len(text) /\ Ends(p, m)
    BY <1>2
  <2>4. ASSUME NEW e, EndsAt(p, e) PROVE e = m
    <3>1. /\ e \in p .. Len(text) /\ (\A q \in p .. e - 1 : ~Ends(p, q))
          /\ Ends(p, e) \/ e = Len(text)
      BY <2>4 DEF EndsAt
    <3>2. ~(m < e)
      BY <1>1, <2>3, <3>1
    <3>3. ~(e < m)
      <4>1. SUFFICES ASSUME e < m PROVE FALSE
        OBVIOUS
      <4>2. e # Len(text)
        BY <1>1, <2>3, <3>1, <4>1
      <4>3. e \in T
        BY <1>2, <3>1, <4>2
      <4>4. m <= e
        BY <2>1, <4>3
      <4>. QED
        BY <1>1, <2>3, <3>1, <4>1, <4>4
    <3>. QED
      BY <1>1, <2>3, <3>1, <3>2, <3>3
  <2>. QED
    BY <2>2, <2>3, <2>4
<1>. QED
  BY <1>5, <1>6

(* The names the dictionaries give are those of the arrays.                *)
LEMMA NameIs ==
    ASSUME Terminated, dialect = "c", NEW i \in 1 .. Len(text), NEW j \in i .. Len(text), NEW type,
           Defined(type, i, j)
    PROVE  Name(type, SubSeq(text, i, j)) = typeToString(type, SubSeq(text, i, j))
<1>. DEFINE token == SubSeq(text, i, j)
            blanks == [k \in DOMAIN kw |-> " "]
<1>1. Alpha \cup Digit \cup Punct \subseteq DOMAIN Code
  BY CodeAssumption
<1>2. token \in Seq({char(k) : k \in i .. j})
  BY Excerpt
<1>3. i \in Int /\ j \in Int /\ i <= j
  BY Characters
<1>4. ASSUME \A k \in i .. j : char(k) \in Alpha \cup Digit \cup Punct
      PROVE  token \in Keys
  <2>1. {char(k) : k \in i .. j} \subseteq DOMAIN Code
    BY <1>1, <1>4
  <2>. HIDE DEF token
  <2>. QED
    BY <1>2, <2>1 DEF Keys
<1>5. CASE type = "WORD"
  <2>1. Word(i, j)
    BY <1>5 DEF Defined
  <2>2. \A k \in i .. j : char(k) \in Alpha \cup Digit \cup Punct
    <3>1. InWord = Alpha \cup Digit
      BY DEF InWord
    <3>. QED
      BY <1>3, <2>1, <3>1 DEF Word, Each
  <2>3. token \in Keys
    BY <1>4, <2>2
  <2>. HIDE DEF token, blanks
  <2>4. HASH_MAX \in Nat \ {0}
    BY DEF HASH_MAX
  <2>5. kw \in Seq(Keys)
    BY KeywordsAssumption DEF Keys
  <2>6. kDict = Table(HASH_MAX, kw, blanks)
    BY Zenon DEF kDict, blanks
  <2>7. IF \E l \in 1 .. Len(kw) : kw[l] = token
        THEN \E l \in 1 .. Len(kw) : kw[l] = token /\ find(kDict, token) = blanks[l]
        ELSE find(kDict, token) = NotThere
    BY <2>3, <2>4, <2>5, <2>6, TableFinds
  <2>8. DOMAIN kw = 1 .. Len(kw)
    BY <2>5
  <2>9. \A l \in 1 .. Len(kw) : blanks[l] # NotThere
    BY <2>8, Zenon DEF blanks, NotThere
  <2>10. find(kDict, token) = NotThere <=> ~\E k \in DOMAIN kw : kw[k] = token
    BY <2>7, <2>8, <2>9
  <2>. QED
    BY <1>5, <2>10 DEF Name, typeToString, token
<1>6. CASE type = "OPE"
  <2>1. Spelling(i, j)
    BY <1>6 DEF Defined
  <2>2. \A k \in i .. j : char(k) \in Alpha \cup Digit \cup Punct
    <3>1. char(i) \in Punct /\ "=" \in Punct /\ ">" \in Punct
      BY <2>1 DEF Spelling, Punct
    <3>2. \A k \in i .. j : \/ k = i \/ (k = i + 1 /\ j = i + 1)
                             \/ (k = i + 1 /\ j = i + 2) \/ (k = i + 2 /\ j = i + 2)
      BY <1>3, <2>1 DEF Spelling
    <3>3. j = i + 1 => char(i + 1) \in Punct
      BY <1>3, <2>1, <3>1 DEF Spelling
    <3>4. j = i + 2 => char(i + 1) \in Punct /\ char(i + 2) \in Punct
      BY <1>3, <2>1, <3>1 DEF Spelling
    <3>. QED
      BY <3>1, <3>2, <3>3, <3>4
  <2>3. token \in Keys
    BY <1>4, <2>2
  <2>. HIDE DEF token
  <2>4. HASH_MAX \in Nat \ {0}
    BY DEF HASH_MAX
  <2>5. ops \in Seq(Keys) /\ \A k, l \in DOMAIN ops : ops[k] = ops[l] => k = l
    BY OperatorsAssumption DEF Keys
  <2>6. cDict = Table(HASH_MAX, ops, opNames)
    BY Zenon DEF cDict
  <2>7. IF \E l \in 1 .. Len(ops) : ops[l] = token
        THEN \E l \in 1 .. Len(ops) : ops[l] = token /\ find(cDict, token) = opNames[l]
        ELSE find(cDict, token) = NotThere
    BY <2>3, <2>4, <2>5, <2>6, TableFinds
  <2>8. DOMAIN ops = 1 .. Len(ops)
    BY <2>5
  <2>9. \A l \in 1 .. Len(ops) : opNames[l] # NotThere
    BY <2>8, OperatorsAssumption
  <2>10. CASE \E l \in 1 .. Len(ops) : ops[l] = token
    <3>1. PICK l \in 1 .. Len(ops) : ops[l] = token /\ find(cDict, token) = opNames[l]
      BY <2>7, <2>10
    <3>2. (CHOOSE k \in DOMAIN ops : ops[k] = token) = l
      BY <2>5, <2>8, <3>1
    <3>3. Name(type, token) = opNames[l]
      BY <1>6, <2>8, <3>1, <3>2 DEF Name
    <3>4. typeToString(type, token) = opNames[l]
      BY <1>6, <2>9, <3>1 DEF typeToString
    <3>. QED
      BY <3>3, <3>4 DEF token
  <2>11. CASE ~\E l \in 1 .. Len(ops) : ops[l] = token
    BY <1>6, <2>7, <2>8, <2>11 DEF Name, typeToString, token
  <2>. QED
    BY <2>10, <2>11
<1>7. CASE type # "WORD" /\ type # "OPE"
  BY <1>7 DEF Name
<1>. QED
  BY <1>5, <1>6, <1>7

-----------------------------------------------------------------------------
(* One unfolding of Reading, and that it looks ahead only.                 *)
Item(p) == [type |-> Kind(p, TokenEnd(p)), token |-> SubSeq(text, p, TokenEnd(p)),
            name |-> Name(Kind(p, TokenEnd(p)), SubSeq(text, p, TokenEnd(p)))]
Items == {Item(p) : p \in 1 .. Len(text) + 1}
Unfolded(f, p) ==
    IF StopsAt(p) \/ Misread(p) THEN <<>>
    ELSE IF char(p) \in Blank THEN f[p + 1]
    ELSE IF OpensComment(p) THEN f[CommentEnd(p) + 1]
    ELSE <<Item(p)>> \o f[TokenEnd(p) + 1]
Behind(p) == p + 1 .. Len(text) + 1
AllSeqs(f, places) == \A q \in places : f[q] \in Seq(Items)

LEMMA StopsInText ==
    ASSUME Terminated, NEW p \in 1 .. Len(text) + 1, ~StopsAt(p)
    PROVE  p \in 1 .. Len(text)
<1>1. NUL # Control
  BY DEF NUL, Control
<1>2. char(p) # NUL
  BY <1>1, NulIsNoCharacter DEF StopsAt
<1>. QED
  BY <1>2, CharInText, Characters

LEMMA LooksAhead ==
    ASSUME Terminated, NEW p \in 1 .. Len(text) + 1, NEW f, NEW h,
           \A q \in Behind(p) : f[q] = h[q]
    PROVE  /\ Unfolded(f, p) = Unfolded(h, p)
           /\ AllSeqs(f, Behind(p)) => Unfolded(f, p) \in Seq(Items)
<1>0. Len(text) \in Nat
  BY Characters
<1>1. CASE StopsAt(p) \/ Misread(p)
  BY <1>1 DEF Unfolded
<1>2. CASE ~(StopsAt(p) \/ Misread(p)) /\ char(p) \in Blank
  <2>1. p + 1 \in Behind(p)
    BY <1>0, <1>2, StopsInText DEF Behind
  <2>. QED
    BY <1>2, <2>1 DEF Unfolded, AllSeqs
<1>3. CASE ~(StopsAt(p) \/ Misread(p)) /\ char(p) \notin Blank /\ OpensComment(p)
  <2>1. CommentEnd(p) + 1 \in Behind(p)
    BY <1>0, <1>3, StopsInText, CommentEndIs DEF Behind
  <2>. QED
    BY <1>3, <2>1 DEF Unfolded, AllSeqs
<1>4. CASE ~(StopsAt(p) \/ Misread(p)) /\ char(p) \notin Blank /\ ~OpensComment(p)
  <2>1. TokenEnd(p) + 1 \in Behind(p)
    BY <1>0, <1>4, StopsInText, EndInText DEF Behind
  <2>2. Item(p) \in Items
    BY DEF Items
  <2>3. ASSUME AllSeqs(f, Behind(p)) PROVE <<Item(p)>> \o f[TokenEnd(p) + 1] \in Seq(Items)
    BY <2>1, <2>2, <2>3 DEF AllSeqs
  <2>. QED
    BY <1>4, <2>1, <2>3 DEF Unfolded
<1>. QED
  BY <1>1, <1>2, <1>3, <1>4

(* Reading is what its definition says, and everywhere a sequence of       *)
(* tokens: a solution of its equation can be built from the end of the     *)
(* text on.                                                                *)
LEMMA ReadingIs ==
    ASSUME Terminated
    PROVE  \A p \in 1 .. Len(text) + 1 :
             Reading[p] = Unfolded(Reading, p) /\ Reading[p] \in Seq(Items)
<1>. DEFINE N == Len(text) + 1
            Partial(x, m) == /\ x \in [m .. N -> Seq(Items)]
                             /\ \A p \in m .. N : x[p] = Unfolded(x, p)
            S == [k \in 0 .. Len(text) |-> {x \in [N - k .. N -> Seq(Items)] : Partial(x, N - k)}]
            s == [p \in N .. N |-> <<>>]
            Longer(x, m) == [p \in m .. N |-> IF p = m THEN Unfolded(x, m) ELSE x[p]]
            g == [a \in (1 .. Len(text)) \X UNION {S[k] : k \in 0 .. Len(text)} |->
                    Longer(a[2], N - a[1])]
<1>1. Len(text) \in Nat /\ N = Len(text) + 1
  BY Characters
<1>2. \A k \in 0 .. Len(text) : \A x : x \in S[k] <=> Partial(x, N - k)
  OBVIOUS
<1>3. s \in S[0]
  <2>1. StopsAt(N)
    BY <1>1, StopsInText
  <2>2. Unfolded(s, N) = <<>>
    BY <2>1 DEF Unfolded
  <2>3. Partial(s, N - 0)
    BY <1>1, <2>2
  <2>4. 0 \in 0 .. Len(text)
    BY <1>1
  <2>. HIDE DEF S, Partial, s
  <2>. QED
    BY <1>2, <2>3, <2>4
<1>4. ASSUME NEW k \in 1 .. Len(text), NEW x \in S[k - 1]
      PROVE  g[<<k, x>>] \in S[k] /\ g[<<k, x>>] = Longer(x, N - k)
  <2>1. k - 1 \in 0 .. Len(text) /\ k \in 0 .. Len(text)
    BY <1>1
  <2>2. g[<<k, x>>] = Longer(x, N - k)
    BY <2>1
  <2>. DEFINE m == N - k
              y == Longer(x, m)
  <2>3. m \in 1 .. Len(text) /\ N - (k - 1) = m + 1 /\ m + 1 .. N = Behind(m) /\ m \in 1 .. N
    BY <1>1 DEF Behind
  <2>4. Partial(x, m + 1)
    BY <1>2, <2>1, <2>3
  <2>5. /\ x \in [m + 1 .. N -> Seq(Items)]
        /\ \A p \in m + 1 .. N : x[p] \in Seq(Items) /\ x[p] = Unfolded(x, p)
    BY <2>4
  <2>6. Unfolded(x, m) \in Seq(Items)
    <3>1. AllSeqs(x, Behind(m))
      BY <2>3, <2>5 DEF AllSeqs
    <3>. HIDE DEF m
    <3>. QED
      BY <2>3, <3>1, LooksAhead
  <2>7. /\ y \in [m .. N -> Seq(Items)] /\ y[m] = Unfolded(x, m)
        /\ \A p \in m + 1 .. N : y[p] = x[p]
    <3>1. \A p \in m .. N : p = m \/ p \in m + 1 .. N
      BY <2>3
    <3>2. \A p \in m + 1 .. N : p \in m .. N /\ p # m
      BY <2>3
    <3>3. m \in m .. N
      BY <2>3
    <3>. HIDE DEF m
    <3>. QED
      BY <2>5, <2>6, <3>1, <3>2, <3>3
  <2>. HIDE DEF m, y
  <2>8. ASSUME NEW p \in m .. N PROVE y[p] = Unfolded(y, p)
    <3>1. p \in 1 .. Len(text) + 1 /\ (p = m \/ p \in m + 1 .. N)
      BY <1>1, <2>3
    <3>2. \A q \in Behind(p) : q \in m + 1 .. N
      BY <1>1, <2>3 DEF Behind
    <3>3. \A q \in Behind(p) : x[q] = y[q]
      BY <2>7, <3>2
    <3>4. Unfolded(x, p) = Unfolded(y, p)
      BY <3>1, <3>3, LooksAhead
    <3>. QED
      BY <2>5, <2>7, <3>1, <3>4
  <2>9. Partial(y, m)
    BY <2>7, <2>8
  <2>. HIDE DEF S, Partial, g, N, Longer
  <2>. QED
    BY <1>2, <2>1, <2>2, <2>9 DEF m, y
<1>. HIDE DEF S, g, s, N
<1>5. Leads(Len(text), g, S)
  BY <1>4 DEF Leads
<1>6. \E f : Solves(f, Len(text), s, g, S)
  BY <1>1, <1>3, <1>5, Recursion
<1>7. \E x : Partial(x, 1)
  <2>1. PICK f : f[Len(text)] \in S[Len(text)]
    <3>1. Len(text) \in 0 .. Len(text)
      BY <1>1
    <3>. QED
      BY <1>6, <3>1 DEF Solves
  <2>2. N - Len(text) = 1
    BY <1>1
  <2>. HIDE DEF Partial
  <2>. QED
    BY <1>1, <1>2, <2>1, <2>2
<1>8. PICK x : x = [p \in 1 .. N |-> Unfolded(x, p)]
  <2>1. PICK x : Partial(x, 1)
    BY <1>7
  <2>2. x = [p \in 1 .. N |-> x[p]]
    BY <2>1
  <2>. QED
    BY <2>1, <2>2
<1>9. Reading = CHOOSE f : f = [p \in 1 .. N |-> Unfolded(f, p)]
  BY DEF Reading, Unfolded, Item, N
<1>10. Reading = [p \in 1 .. N |-> Unfolded(Reading, p)]
  BY <1>8, <1>9
<1>11. \A p \in 1 .. N : Reading[p] = Unfolded(Reading, p)
  <2>. DEFINE R == Reading
  <2>1. R = [p \in 1 .. N |-> Unfolded(R, p)]
    BY <1>10
  <2>. HIDE DEF R
  <2>2. \A p \in 1 .. N : R[p] = Unfolded(R, p)
    BY <2>1
  <2>. QED
    BY <2>2 DEF R
<1>12. \A p \in 1 .. N : Reading[p] \in Seq(Items)
  <2>. DEFINE T == {k \in 0 .. Len(text) : AllSeqs(Reading, N - k .. N)}
  <2>1. ASSUME NEW p \in 1 .. N, AllSeqs(Reading, Behind(p)) PROVE Reading[p] \in Seq(Items)
    <3>1. p \in 1 .. Len(text) + 1
      BY <1>1
    <3>2. Unfolded(Reading, p) \in Seq(Items)
      BY <2>1, <3>1, LooksAhead
    <3>. QED
      BY <1>11, <3>2
  <2>2. 0 \in T
    <3>1. AllSeqs(Reading, Behind(N))
      BY <1>1 DEF AllSeqs, Behind
    <3>2. Reading[N] \in Seq(Items)
      BY <1>1, <2>1, <3>1
    <3>. QED
      BY <1>1, <3>2 DEF AllSeqs
  <2>3. ASSUME NEW k \in 1 .. Len(text), k - 1 \in T PROVE k \in T
    <3>1. N - (k - 1) .. N = Behind(N - k) /\ N - k \in 1 .. N
      BY <1>1 DEF Behind
    <3>2. AllSeqs(Reading, Behind(N - k))
      BY <2>3, <3>1
    <3>3. Reading[N - k] \in Seq(Items)
      BY <2>1, <3>1, <3>2
    <3>4. \A q \in N - k .. N : q = N - k \/ q \in Behind(N - k)
      BY <1>1 DEF Behind
    <3>5. AllSeqs(Reading, N - k .. N)
      BY <3>2, <3>3, <3>4 DEF AllSeqs
    <3>. QED
      BY <1>1, <3>5
  <2>. HIDE DEF T
  <2>4. \A k \in 0 .. Len(text) : k \in T
    BY <1>1, <2>2, <2>3, Upward
  <2>5. Len(text) \in T /\ N - Len(text) = 1
    BY <1>1, <2>4
  <2>6. AllSeqs(Reading, 1 .. N)
    BY <2>5 DEF T
  <2>. QED
    BY <2>6 DEF AllSeqs
<1>. QED
  BY <1>11, <1>12 DEF N

-----------------------------------------------------------------------------
(* So do the places where reading goes on.                                 *)
LEMMA PlacesLast ==
    ASSUME text' = text, dialect' = dialect
    PROVE  /\ \A p : char(p) = char(p)'
           /\ \A p : StopsAt(p) <=> StopsAt(p)'
           /\ \A p : Misread(p) <=> Misread(p)'
           /\ \A p : OpensComment(p) <=> OpensComment(p)'
           /\ \A p : char(p) \in Blank <=> char(p)' \in Blank'
           /\ \A p, q : Ends(p, q) <=> Ends(p, q)'
           /\ \A p, q : EndsAt(p, q) <=> EndsAt(p, q)'
<1>1. \A p : char(p) = char(p)'
  BY Lasting
<1>2. /\ Digit' = Digit /\ ODigit' = ODigit /\ Alpha' = Alpha /\ Blank' = Blank
      /\ Punct' = Punct /\ Openers' = Openers /\ Control' = Control
  BY DEF Digit, ODigit, Alpha, Blank, Punct, Openers, Repeats, Control
<1>3. \A p : StopsAt(p) <=> StopsAt(p)'
  BY <1>1, <1>2 DEF StopsAt
<1>4. \A a, b, chars : Each(a, b, chars) <=> Each(a, b, chars)'
  BY Lasting
<1>5. \A p : FalseComment(p) <=> FalseComment(p)'
  BY <1>1, <1>2 DEF FalseComment
<1>6. \A p : ZeroCutShort(p) <=> ZeroCutShort(p)'
  BY <1>1, <1>2, <1>4 DEF ZeroCutShort
<1>7. \A p : Misread(p) <=> Misread(p)'
  BY <1>5, <1>6 DEF Misread
<1>8. \A p : OpensComment(p) <=> OpensComment(p)'
  BY <1>1 DEF OpensComment
<1>9. \A p, q : Ends(p, q) <=> Ends(p, q)'
  BY <1>1 DEF Ends
<1>10. \A p, q : EndsAt(p, q) <=> EndsAt(p, q)'
  BY <1>9 DEF EndsAt
<1>. QED
  BY <1>1, <1>2, <1>3, <1>7, <1>8, <1>9, <1>10

LEMMA GoodLasts ==
    ASSUME text' = text, dialect' = dialect, NEW type, NEW i, NEW j
    PROVE  Good(type, i, j) <=> Good(type, i, j)'
<1>1. \A a, b : ExponentMark(a, b) <=> ExponentMark(a, b)'
  BY Lasting DEF ExponentMark
<1>2. \A a, b : Float(a, b) <=> Float(a, b)'
  BY <1>1, Lasting DEF Float
<1>3. \A a, b : Mal(a, b) <=> Mal(a, b)'
  BY <1>1, Lasting DEF Mal
<1>4. \A a, b : Number(a, b) <=> Number(a, b)'
  BY <1>2, <1>3, Lasting DEF Number
<1>5. Defined(type, i, j) <=> Defined(type, i, j)'
  BY <1>2, <1>3, Lasting DEF Defined, Control
<1>6. Longest(i, j) <=> Longest(i, j)'
  BY <1>4, Lasting DEF Longest
<1>7. ZeroCutShort(i) <=> ZeroCutShort(i)'
  BY Lasting DEF ZeroCutShort, ODigit, Digit
<1>. QED
  BY <1>5, <1>6, <1>7 DEF Good

(* The token from i to j, as Return appends it.                            *)
Token(type, i, j) ==
    [type |-> type, token |-> SubSeq(text, i, j),
     name |-> IF dialect = "c" THEN typeToString(type, SubSeq(text, i, j)) ELSE type]

LEMMA TokenLasts ==
    ASSUME text' = text, dialect' = dialect, NEW type, NEW i, NEW j
    PROVE  Token(type, i, j)' = Token(type, i, j)
BY DEF Token

(* What f says of the text from each place on: Reading, without the places *)
(* it is defined by.                                                       *)
Plain(p) == p \in 1 .. Len(text) + 1 /\ ~StopsAt(p) /\ ~Misread(p)
Meaning(f) ==
    /\ \E I : \A p \in 1 .. Len(text) + 1 : f[p] \in Seq(I)
    /\ \A p \in 1 .. Len(text) + 1 : StopsAt(p) \/ Misread(p) => f[p] = <<>>
    /\ \A p : Plain(p) /\ char(p) \in Blank => f[p] = f[p + 1]
    /\ \A p : Plain(p) /\ char(p) \notin Blank /\ OpensComment(p) =>
         \A e : EndsAt(p, e) => f[p] = f[e + 1]
    /\ \A p : Plain(p) /\ char(p) \notin Blank /\ ~OpensComment(p) =>
         \A type : \A e \in p .. Len(text) :
            Good(type, p, e) => f[p] = <<Token(type, p, e)>> \o f[e + 1]

LEMMA MeaningLasts ==
    ASSUME text' = text, dialect' = dialect, NEW f, Meaning(f)'
    PROVE  Meaning(f)
<1>1. \A p : Plain(p) <=> Plain(p)'
  BY PlacesLast DEF Plain
<1>2. \A type, p, e : Good(type, p, e) <=> Good(type, p, e)'
  BY GoodLasts
<1>3. \A type, p, e : Token(type, p, e)' = Token(type, p, e)
  BY TokenLasts
<1>4. \A p : (Plain(p) /\ char(p) \in Blank)' => f[p] = f[p + 1]
  BY DEF Meaning
<1>5. \A p : Plain(p) /\ char(p) \in Blank => f[p] = f[p + 1]
  BY <1>1, <1>4, PlacesLast
<1>6. \A p : Plain(p) /\ char(p) \notin Blank /\ OpensComment(p) =>
         \A e : EndsAt(p, e) => f[p] = f[e + 1]
  <2>1. \A p : (Plain(p) /\ char(p) \notin Blank /\ OpensComment(p))' =>
         \A e : EndsAt(p, e)' => f[p] = f[e + 1]
    BY DEF Meaning
  <2>. QED
    BY <1>1, <2>1, PlacesLast
<1>7. \A p : Plain(p) /\ char(p) \notin Blank /\ ~OpensComment(p) =>
         \A type : \A e \in p .. Len(text) :
            Good(type, p, e) => f[p] = <<Token(type, p, e)>> \o f[e + 1]
  <2>1. \A p : (Plain(p) /\ char(p) \notin Blank /\ ~OpensComment(p))' =>
         \A type : \A e \in p .. Len(text) :
            Good(type, p, e)' => f[p] = <<Token(type, p, e)'>> \o f[e + 1]
    BY DEF Meaning
  <2>. QED
    BY <1>1, <1>2, <1>3, <2>1, PlacesLast
<1>8. \A p \in 1 .. Len(text) + 1 : StopsAt(p) \/ Misread(p) => f[p] = <<>>
  <2>1. \A p \in 1 .. Len(text) + 1 : StopsAt(p)' \/ Misread(p)' => f[p] = <<>>
    BY DEF Meaning
  <2>. QED
    BY <2>1, PlacesLast
<1>9. \E I : \A p \in 1 .. Len(text) + 1 : f[p] \in Seq(I)
  BY DEF Meaning
<1>. QED
  BY <1>5, <1>6, <1>7, <1>8, <1>9 DEF Meaning

LEMMA ReadingMeans == Terminated => Meaning(Reading)
<1>. SUFFICES ASSUME Terminated PROVE Meaning(Reading)
  OBVIOUS
<1>. DEFINE R == Reading
<1>1. \A p \in 1 .. Len(text) + 1 : R[p] = Unfolded(R, p) /\ R[p] \in Seq(Items)
  BY ReadingIs
<1>. HIDE DEF R
<1>2. \A p \in 1 .. Len(text) + 1 : StopsAt(p) \/ Misread(p) => R[p] = <<>>
  BY <1>1 DEF Unfolded
<1>3. \A p : Plain(p) /\ char(p) \in Blank => R[p] = R[p + 1]
  BY <1>1 DEF Unfolded, Plain
<1>4. ASSUME NEW p, Plain(p), char(p) \notin Blank, OpensComment(p), NEW e, EndsAt(p, e)
      PROVE  R[p] = R[e + 1]
  <2>1. p \in 1 .. Len(text)
    BY <1>4, StopsInText DEF Plain
  <2>2. CommentEnd(p) = e
    BY <1>4, <2>1, CommentEndIs
  <2>. QED
    BY <1>1, <1>4, <2>2 DEF Unfolded, Plain
<1>5. ASSUME NEW p, Plain(p), char(p) \notin Blank, ~OpensComment(p),
             NEW type, NEW e \in p .. Len(text), Good(type, p, e)
      PROVE  R[p] = <<Token(type, p, e)>> \o R[e + 1]
  <2>1. p \in 1 .. Len(text)
    BY <1>5, StopsInText DEF Plain
  <2>2. TokenEnd(p) = e /\ Kind(p, e) = type
    BY <1>5, <2>1, EndIs DEF Plain
  <2>3. Name(type, SubSeq(text, p, e))
          = IF dialect = "c" THEN typeToString(type, SubSeq(text, p, e)) ELSE type
    <3>1. CASE dialect = "c"
      BY <1>5, <2>1, <3>1, NameIs DEF Good
    <3>2. CASE dialect # "c"
      BY <3>2 DEF Name
    <3>. QED
      BY <3>1, <3>2
  <2>4. Item(p) = Token(type, p, e)
    BY <2>2, <2>3 DEF Item, Token
  <2>5. R[p] = <<Item(p)>> \o R[TokenEnd(p) + 1]
    BY <1>1, <1>5 DEF Unfolded, Plain
  <2>. QED
    BY <2>2, <2>4, <2>5
<1>6. Meaning(R)
  BY <1>1, <1>2, <1>3, <1>4, <1>5 DEF Meaning
<1>. QED
  BY <1>6 DEF R

-----------------------------------------------------------------------------
(* The invariant.  Between two tokens the meaning goes on at curPos, in a  *)
(* token and in a comment it does at the beginning.                        *)
Place(s, b, c) == IF s \in {"next", "done", "exited"} THEN c ELSE b

(* What each state knows of that place: that a token begins there, or a    *)
(* comment that has not ended yet.                                         *)
At(s, b, c) ==
    /\ s \notin Skipping => /\ ~StopsAt(b) /\ ~Misread(b) /\ char(b) \notin Blank
                            /\ s # "punct" => ~OpensComment(b)
    /\ s \in {"line", "block", "star"} =>
         /\ ~Misread(b) /\ OpensComment(b)
         /\ c >= b + 2 /\ (char(b + 1) = "/" <=> s = "line")
         /\ \A q \in b .. c - 1 : ~Ends(b, q)
    /\ s = "block" => ~Ends(b, c)
    /\ s = "star" => c >= b + 3 /\ char(c - 1) = "*"
    /\ s \in {"done", "exited"} => StopsAt(c)

(* What was returned, and what f says of the text from here on, is what f  *)
(* says of all of it; or a place that is misread lies behind, and what f   *)
(* says of the text before it was returned.                                *)
Following(f) ==
    /\ At(state, begin, curPos)
    /\ tokens \o f[Place(state, begin, curPos)] = f[1]
Strayed(f) ==
    /\ Len(f[1]) <= Len(tokens) /\ \A k \in 1 .. Len(f[1]) : tokens[k] = f[1][k]
    /\ \E p \in 1 .. Len(text) : Misread(p)

Listed == \E I : tokens \in Seq(I)
Sound == \A f : Meaning(f) => Strayed(f) \/ Following(f)

LEMMA AtLasts ==
    ASSUME text' = text, dialect' = dialect, NEW s, NEW b, NEW c, At(s, b, c),
           state' = s, begin' = b, curPos' = c
    PROVE  At(state, begin, curPos)'
<1>1. /\ s \notin Skipping => /\ ~StopsAt(b)' /\ ~Misread(b)' /\ char(b)' \notin Blank'
                              /\ s # "punct" => ~OpensComment(b)'
      /\ s \in {"line", "block", "star"} =>
           /\ ~Misread(b)' /\ OpensComment(b)'
           /\ c >= b + 2 /\ (char(b + 1)' = "/" <=> s = "line")
           /\ \A q \in b .. c - 1 : ~Ends(b, q)'
      /\ s = "block" => ~Ends(b, c)'
      /\ s = "star" => c >= b + 3 /\ char(c - 1)' = "*"
      /\ s \in {"done", "exited"} => StopsAt(c)'
  BY PlacesLast DEF At
<1>2. At(s, b, c)'
  BY <1>1 DEF At, Skipping
<1>. QED
  BY <1>2

(* A misread place is one of the text.                                     *)
LEMMA MisreadInText ==
    ASSUME Terminated, NEW p \in 1 .. Len(text) + 1, Misread(p)
    PROVE  p \in 1 .. Len(text)
<1>1. char(p) \in Openers \/ char(p) = "0"
  BY DEF Misread, FalseComment, ZeroCutShort
<1>2. NUL \notin Openers /\ NUL # "0"
  BY DEF NUL, Openers, Repeats
<1>. QED
  BY <1>1, <1>2, CharInText, Characters

(* A step that returns no token.                                           *)
LEMMA SoundStays ==
    ASSUME Terminated, text' = text, dialect' = dialect, tokens' = tokens, NEW f, Meaning(f),
           Strayed(f) \/ Following(f),
           NEW s, NEW b, NEW c, state' = s, begin' = b, curPos' = c,
           Following(f) =>
             \/ At(s, b, c) /\ f[Place(s, b, c)] = f[Place(state, begin, curPos)]
             \/ /\ Place(state, begin, curPos) \in 1 .. Len(text) + 1
                /\ Misread(Place(state, begin, curPos))
    PROVE  (Strayed(f) \/ Following(f))'
<1>1. CASE Strayed(f)
  <2>1. \E p \in 1 .. Len(text)' : Misread(p)'
    BY <1>1, PlacesLast DEF Strayed
  <2>. QED
    BY <1>1, <2>1 DEF Strayed
<1>2. CASE Following(f) /\ At(s, b, c) /\ f[Place(s, b, c)] = f[Place(state, begin, curPos)]
  <2>1. At(state, begin, curPos)'
    BY <1>2, AtLasts
  <2>2. Place(state, begin, curPos)' = Place(s, b, c)
    BY DEF Place
  <2>. QED
    BY <1>2, <2>1, <2>2 DEF Following
<1>3. ASSUME Following(f), NEW p \in 1 .. Len(text) + 1, p = Place(state, begin, curPos), Misread(p)
      PROVE  Strayed(f)'
  <2>1. f[p] = <<>>
    BY <1>3 DEF Meaning
  <2>2. tokens \o <<>> = f[1]
    BY <1>3, <2>1 DEF Following
  <2>3. p \in 1 .. Len(text)
    BY <1>3, MisreadInText
  <2>4. \E q \in 1 .. Len(text)' : Misread(q)'
    BY <1>3, <2>3, PlacesLast
  <2>5. Len(f[1]) <= Len(tokens) /\ \A k \in 1 .. Len(f[1]) : tokens[k] = f[1][k]
    BY <2>2
  <2>. QED
    BY <2>4, <2>5 DEF Strayed
<1>. QED
  BY <1>1, <1>2, <1>3

(* A step that returns one.                                                *)
LEMMA SoundReturns ==
    ASSUME Terminated, Within, Listed, NEW f, Meaning(f), Strayed(f) \/ Following(f), NEW type,
           state \notin Skipping, state # "punct",
           Return(type), Good(type, begin, curPos - 1), begin <= curPos - 1
    PROVE  (Strayed(f) \/ Following(f))'
<1>. DEFINE t == Token(type, begin, curPos - 1)
<1>1. /\ begin \in Nat /\ curPos \in Nat /\ Len(text) \in Nat /\ begin >= 1
      /\ curPos <= Len(text) + 1 /\ curPos = begin + length /\ length \in Nat
  BY DEF Within
<1>2. begin + length - 1 = curPos - 1
  BY <1>1
<1>3. tokens' = Append(tokens, t)
  BY <1>2 DEF Return, Token
<1>. HIDE DEF t
<1>4. /\ text' = text /\ dialect' = dialect /\ state' = "next"
      /\ begin' = begin /\ curPos' = curPos
  BY DEF Return
<1>5. PICK I : tokens \in Seq(I)
  BY DEF Listed
<1>6. CASE Strayed(f)
  <2>1. \E p \in 1 .. Len(text)' : Misread(p)'
    BY <1>4, <1>6, PlacesLast DEF Strayed
  <2>2. PICK J : f[1] \in Seq(J)
    BY <1>1 DEF Meaning
  <2>3. Len(f[1]) \in Nat /\ Len(tokens) \in Nat
    BY <1>5, <2>2
  <2>4. Len(tokens') = Len(tokens) + 1 /\ \A k \in 1 .. Len(tokens) : tokens'[k] = tokens[k]
    BY <1>3, <1>5
  <2>5. Len(f[1]) <= Len(tokens') /\ \A k \in 1 .. Len(f[1]) : tokens'[k] = f[1][k]
    BY <1>6, <2>3, <2>4 DEF Strayed
  <2>. QED
    BY <2>1, <2>5 DEF Strayed
<1>7. CASE Following(f)
  <2>1. /\ ~StopsAt(begin) /\ ~Misread(begin) /\ char(begin) \notin Blank /\ ~OpensComment(begin)
    BY <1>7 DEF Following, At
  <2>2. Plain(begin) /\ curPos - 1 \in begin .. Len(text) /\ curPos - 1 + 1 = curPos
    BY <1>1, <2>1 DEF Plain
  <2>3. f[begin] = <<t>> \o f[curPos]
    <3>1. \A p : Plain(p) /\ char(p) \notin Blank /\ ~OpensComment(p) =>
            \A y : \A e \in p .. Len(text) :
               Good(y, p, e) => f[p] = <<Token(y, p, e)>> \o f[e + 1]
      BY DEF Meaning
    <3>2. f[begin] = <<Token(type, begin, curPos - 1)>> \o f[curPos - 1 + 1]
      BY <2>1, <2>2, <3>1
    <3>. QED
      BY <2>2, <3>2 DEF t
  <2>4. tokens \o f[begin] = f[1]
    BY <1>7 DEF Following, Place, Skipping
  <2>5. PICK J : f[curPos] \in Seq(J)
    BY <1>1 DEF Meaning
  <2>6. Append(tokens, t) \o f[curPos] = tokens \o (<<t>> \o f[curPos])
    <3>. DEFINE U == I \cup J \cup {t}
    <3>1. tokens \in Seq(U) /\ f[curPos] \in Seq(U) /\ t \in U
      BY <1>5, <2>5
    <3>. HIDE DEF U
    <3>2. Append(tokens, t) = tokens \o <<t>> /\ <<t>> \in Seq(U)
      BY <3>1
    <3>3. \A x, y, z \in Seq(U) : (x \o y) \o z = x \o (y \o z)
      BY ConcatAssociative
    <3>4. (tokens \o <<t>>) \o f[curPos] = tokens \o (<<t>> \o f[curPos])
      BY ONLY <3>1, <3>2, <3>3, Zenon
    <3>. QED
      BY ONLY <3>2, <3>4, Zenon
  <2>7. tokens' \o f[curPos] = f[1]
    BY <1>3, <2>3, <2>4, <2>6
  <2>8. At("next", begin, curPos)
    BY DEF At, Skipping
  <2>9. At(state, begin, curPos)'
    BY <1>4, <2>8, AtLasts
  <2>10. Place(state, begin, curPos)' = curPos
    BY <1>4 DEF Place
  <2>. QED
    BY <2>7, <2>9, <2>10 DEF Following
<1>. QED
  BY <1>6, <1>7

(* The steps inside a token.                                               *)
LEMMA SoundInToken ==
    ASSUME Terminated, Within, NEW f, Meaning(f), Strayed(f) \/ Following(f),
           state \notin Skipping, state = "punct" => ~OpensComment(begin),
           NEW n, NEW s, Take(n, s) \/ Go(s), s \notin Skipping, s # "punct"
    PROVE  (Strayed(f) \/ Following(f))'
<1>1. /\ text' = text /\ dialect' = dialect /\ tokens' = tokens /\ state' = s /\ begin' = begin
  BY DEF Take, Go
<1>2. PICK c : curPos' = c
  OBVIOUS
<1>3. Following(f) => /\ At(s, begin, c)
                      /\ f[Place(s, begin, c)] = f[Place(state, begin, curPos)]
  BY DEF Following, At, Place, Skipping
<1>. QED
  BY <1>1, <1>2, <1>3, SoundStays

-----------------------------------------------------------------------------
(* A step of a function that reads a token goes on with it or returns it.  *)
Growing ==
    /\ state \notin Skipping
    /\ state = "punct" => ~OpensComment(begin)
    /\ \/ \E n \in 1 .. 2 : \E s : Take(n, s) /\ s \notin Skipping /\ s # "punct"
       \/ \E s : Go(s) /\ s \notin Skipping /\ s # "punct"
Giving == state \notin Skipping /\ state # "punct" /\ \E type : Return(type)
Opening ==
    /\ state = "punct" /\ char(curPos) \in Openers
    /\ \/ char(curPos + 1) = "/" /\ Skip(2, "line")
       \/ char(curPos + 1) = "*" /\ Skip(2, "block")

LEMMA NumbersGrow ==
    ASSUME formOctalToken \/ formHexToken \/ formDecimalToken
    PROVE  Growing \/ Giving
<1>1. CASE formOctalToken
  BY <1>1 DEF formOctalToken, In, Not, Growing, Giving, Skipping
<1>2. CASE formHexToken
  BY <1>2 DEF formHexToken, In, Not, Growing, Giving, Skipping
<1>3. CASE formDecimalToken
  BY <1>3 DEF formDecimalToken, In, Not, Growing, Giving, Skipping
<1>. QED
  BY <1>1, <1>2, <1>3

LEMMA OthersGrow ==
    ASSUME \/ formFloatToken \/ formFloatWithExpToken
           \/ formWordToken \/ formNextControlToken
    PROVE  Growing \/ Giving
<1>1. CASE formFloatToken
  BY <1>1 DEF formFloatToken, In, Not, Growing, Giving, Skipping
<1>2. CASE formFloatWithExpToken
  BY <1>2 DEF formFloatWithExpToken, In, Not, Growing, Giving, Skipping
<1>3. CASE formWordToken \/ formNextControlToken
  BY <1>3 DEF formWordToken, formNextControlToken, In, Not, Growing, Giving, Skipping
<1>. QED
  BY <1>1, <1>2, <1>3

LEMMA PunctuationGrows ==
    ASSUME formPuncToken, state = "punct" => curPos = begin
    PROVE  Growing \/ Giving \/ Opening
<1>. DEFINE Plainly == state = "punct" => ~OpensComment(begin)
<1>1. "/" \notin Repeats \cup Angles \cup {".", "-"} /\ "/" \in Assigns /\ "/" \in Openers
  BY DEF Repeats, Angles, Assigns, Openers
<1>2. ASSUME NEW n \in 1 .. 2, NEW s, Take(n, s), s \notin Skipping, s # "punct",
             state \notin Skipping, Plainly
      PROVE  Growing
  BY <1>2 DEF Growing
<1>3. ASSUME NEW s, Go(s), s \notin Skipping, s # "punct", state \notin Skipping, Plainly
      PROVE  Growing
  BY <1>3 DEF Growing
<1>4. /\ In("punct", {"."}) \/ In("punct", {"-"}) => Plainly /\ state \notin Skipping
      /\ In("punct", Repeats) \/ In("punct", Angles) => Plainly /\ state \notin Skipping
      /\ Not("punct", Assigns \cup Angles \cup {"."}) => Plainly /\ state \notin Skipping
  BY <1>1 DEF In, Not, OpensComment, Skipping
<1>5. In("punct", Assigns) /\ ~(Arrow \/ Doubled \/ Comment("/") \/ Comment("*"))
        => Plainly /\ state \notin Skipping
  BY <1>1 DEF In, OpensComment, Comment, Doubled, Skipping
<1>6. ASSUME NEW r \in {"point", "assign", "angle"}, NEW chars, In(r, chars) \/ Not(r, chars)
      PROVE  Plainly /\ state \notin Skipping /\ state # "punct"
  BY <1>6 DEF In, Not, Skipping
<1>7. /\ "point" \notin Skipping /\ "operator" \notin Skipping /\ "fraction" \notin Skipping
      /\ "assign" \notin Skipping /\ "angle" \notin Skipping
  BY DEF Skipping
<1>8. ASSUME NEW type, Return(type),
             state = "operator" \/ \E chars : Not("point", chars)
      PROVE  Giving
  BY <1>7, <1>8 DEF Giving, Not
<1>. HIDE DEF Plainly
<1>9. CASE \/ In("punct", {"."}) /\ Take(1, "point")
           \/ In("punct", {"-"}) /\ Arrow /\ Take(2, "operator")
           \/ In("punct", Repeats) /\ Doubled /\ Take(2, "operator")
           \/ In("punct", Angles) /\ Take(1, "angle")
           \/ Not("punct", Assigns \cup Angles \cup {"."}) /\ Take(1, "operator")
  BY <1>2, <1>4, <1>7, <1>9
<1>10. CASE \/ In("point", Digit) /\ Take(1, "fraction")
            \/ In("assign", {"="}) /\ Take(1, "operator")
            \/ In("angle", {"="}) /\ Take(1, "operator")
            \/ In("angle", Angles) /\ char(curPos) = char(curPos - 1) /\ Take(1, "assign")
  BY <1>2, <1>6, <1>7, <1>10
<1>11. CASE \/ Not("assign", {"="}) /\ Go("operator")
            \/ Not("angle", {"=", char(curPos - 1)}) /\ Go("operator")
  BY <1>3, <1>6, <1>7, <1>11
<1>12. CASE \/ In("punct", Openers) /\ Comment("/") /\ Skip(2, "line")
            \/ In("punct", Openers) /\ Comment("*") /\ Skip(2, "block")
  BY <1>12 DEF In, Comment, Opening
<1>13. CASE /\ In("punct", Assigns)
            /\ ~(Arrow \/ Doubled \/ Comment("/") \/ Comment("*"))
            /\ Take(1, "assign")
  BY <1>2, <1>5, <1>7, <1>13
<1>14. CASE \/ Not("point", Digit) /\ Return("OPE")
            \/ state = "operator" /\ Return("OPE")
  BY <1>8, <1>14
<1>. QED
  BY <1>9, <1>10, <1>11, <1>12, <1>13, <1>14 DEF formPuncToken

-----------------------------------------------------------------------------
(* Each kind of step.                                                      *)
LEMMA GrowingIsSound ==
    ASSUME Terminated, Within, NEW f, Meaning(f), Strayed(f) \/ Following(f), Growing
    PROVE  (Strayed(f) \/ Following(f))'
BY SoundInToken DEF Growing

LEMMA GivingIsSound ==
    ASSUME Terminated, Within, Forming, Listed, NEW f, Meaning(f), Strayed(f) \/ Following(f),
           Giving, tokens' = tokens \/ \E type : Return(type) /\ Good(type, begin, curPos - 1)
    PROVE  (Strayed(f) \/ Following(f))'
<1>1. PICK type : Return(type) /\ Good(type, begin, curPos - 1)
  <2>1. PICK type : Return(type)
    BY DEF Giving
  <2>2. PICK I : tokens \in Seq(I)
    BY DEF Listed
  <2>3. \E x : tokens' = Append(tokens, x)
    BY <2>1 DEF Return
  <2>4. tokens' # tokens
    BY <2>2, <2>3
  <2>. QED
    BY <2>4
<1>2. begin <= curPos - 1
  <2>1. Defined(type, begin, curPos - 1) /\ begin \in Int /\ curPos - 1 \in Int
    BY <1>1 DEF Good, Within
  <2>2. ASSUME Word(begin, curPos - 1), begin > curPos - 1 PROVE FALSE
    <3>1. char(begin) \in Alpha /\ "0" \in Digit
      BY <2>2 DEF Word, Digit
    <3>2. ~ZeroCutShort(begin)
      BY <3>1, Classes DEF ZeroCutShort
    <3>3. Longest(begin, curPos - 1)
      BY <1>1, <3>2 DEF Good
    <3>4. Word(begin, begin) /\ begin \in Nat
      BY <2>1, <3>1 DEF Word, Each, Within
    <3>. QED
      BY <2>2, <3>3, <3>4 DEF Longest
  <2>3. CASE type = "WORD"
    BY <2>1, <2>2, <2>3 DEF Defined
  <2>4. CASE type # "WORD"
    <3>1. Octal(begin, curPos - 1) \/ Hex(begin, curPos - 1) \/ Digits(begin, curPos - 1)
            => begin <= curPos - 1
      BY <2>1 DEF Octal, Hex, Digits
    <3>2. Float(begin, curPos - 1) \/ Mal(begin, curPos - 1) => begin <= curPos - 1
      BY <2>1 DEF Float, Mal, Pointed, HexPrefix
    <3>3. Spelling(begin, curPos - 1) => begin <= curPos - 1
      BY <2>1 DEF Spelling
    <3>. QED
      BY <2>1, <2>4, <3>1, <3>2, <3>3 DEF Defined
  <2>. QED
    BY <2>3, <2>4
<1>. QED
  BY <1>1, <1>2, SoundReturns DEF Giving

(* A comment, from its opener to its end.                                  *)
LEMMA OpeningIsSound ==
    ASSUME Terminated, Within, Forming, NEW f, Meaning(f), Strayed(f) \/ Following(f), Opening
    PROVE  (Strayed(f) \/ Following(f))'
<1>1. /\ begin \in Nat /\ curPos = begin
  BY Places DEF Forming, Formed, Opening
<1>2. PICK s \in {"line", "block"} :
        /\ Skip(2, s) /\ (s = "line" => char(begin + 1) = "/")
        /\ (s = "block" => char(begin + 1) = "*")
  BY <1>1 DEF Opening
<1>3. /\ text' = text /\ dialect' = dialect /\ tokens' = tokens /\ state' = s
      /\ begin' = begin /\ curPos' = begin + 2
  BY <1>1, <1>2 DEF Skip
<1>4. ASSUME Following(f)
      PROVE  /\ At(s, begin, begin + 2)
             /\ f[Place(s, begin, begin + 2)] = f[Place(state, begin, curPos)]
  <2>1. ~Misread(begin)
    BY <1>4 DEF Following, At, Opening, Skipping
  <2>2. char(begin) = "/"
    BY <1>1, <1>2, <2>1 DEF Misread, FalseComment, Opening
  <2>3. OpensComment(begin)
    BY <1>2, <2>2 DEF OpensComment
  <2>4. \A q \in begin .. begin + 2 - 1 : ~Ends(begin, q)
    BY <1>1 DEF Ends
  <2>5. s = "block" => ~Ends(begin, begin + 2)
    BY <1>1, <1>2 DEF Ends
  <2>6. char(begin + 1) = "/" <=> s = "line"
    BY <1>2
  <2>7. At(s, begin, begin + 2)
    BY <1>1, <2>1, <2>3, <2>4, <2>5, <2>6 DEF At, Skipping
  <2>. QED
    BY <2>7 DEF Place, Opening
<1>. QED
  BY <1>3, <1>4, SoundStays

LEMMA CommentIsSound ==
    ASSUME Terminated, Within, NEW f, Meaning(f), Strayed(f) \/ Following(f),
           LineComment \/ BlockComment
    PROVE  (Strayed(f) \/ Following(f))'
<1>1. /\ begin \in Nat /\ begin >= 1 /\ curPos \in Nat /\ Len(text) \in Nat
      /\ curPos <= Len(text) + 1
  BY DEF Within
<1>2. /\ text' = text /\ dialect' = dialect /\ tokens' = tokens /\ begin' = begin
      /\ state \in {"line", "block", "star"}
  BY DEF LineComment, BlockComment, In, Not, Skip, Go
<1>3. PICK s : s = state'
  OBVIOUS
<1>4. PICK c : c = curPos'
  OBVIOUS
<1>5. \/ s = "next" /\ c = curPos /\ char(curPos) = NUL
      \/ s = "next" /\ c = curPos + 1 /\ state = "line" /\ char(curPos) = "\n"
      \/ s = "next" /\ c = curPos + 1 /\ state = "star" /\ char(curPos) = "/"
      \/ s = "line" /\ c = curPos + 1 /\ state = "line" /\ char(curPos) # "\n" /\ char(curPos) # NUL
      \/ s = "star" /\ c = curPos + 1 /\ state = "block" /\ char(curPos) = "*"
      \/ s = "block" /\ c = curPos /\ state = "star" /\ char(curPos) # "/"
      \/ s = "block" /\ c = curPos + 1 /\ state = "block" /\ char(curPos) \notin {NUL, "*"}
  BY <1>3, <1>4 DEF LineComment, BlockComment, In, Not, Skip, Go
<1>6. ASSUME Following(f)
      PROVE  At(s, begin, c) /\ f[Place(s, begin, c)] = f[Place(state, begin, curPos)]
  <2>1. /\ ~Misread(begin) /\ OpensComment(begin)
        /\ curPos >= begin + 2 /\ (char(begin + 1) = "/" <=> state = "line")
        /\ \A q \in begin .. curPos - 1 : ~Ends(begin, q)
        /\ state = "block" => ~Ends(begin, curPos)
        /\ state = "star" => curPos >= begin + 3 /\ char(curPos - 1) = "*"
    BY <1>2, <1>6 DEF Following, At
  <2>2. ASSUME EndsAt(begin, c - 1), s = "next"
        PROVE  At(s, begin, c) /\ f[Place(s, begin, c)] = f[Place(state, begin, curPos)]
    <3>1. char(begin) = "/"
      BY <2>1 DEF OpensComment
    <3>2. char(begin) \in Punct /\ char(begin) \notin Blank
      BY <3>1 DEF Punct, Blank
    <3>3. Control # "/"
      BY DEF Control
    <3>4. Plain(begin)
      BY <1>1, <2>1, <3>1, <3>2, <3>3 DEF Plain, StopsAt
    <3>5. f[begin] = f[c - 1 + 1]
      BY <2>1, <2>2, <3>2, <3>4 DEF Meaning
    <3>6. c - 1 + 1 = c
      BY <1>1, <1>5
    <3>7. Place(s, begin, c) = c /\ Place(state, begin, curPos) = begin
      BY <1>2, <2>2 DEF Place
    <3>8. At(s, begin, c)
      BY <2>2 DEF At, Skipping
    <3>. QED
      BY <3>5, <3>6, <3>7, <3>8
  <2>3. CASE s = "next" /\ c = curPos /\ char(curPos) = NUL
    <3>1. curPos = Len(text) + 1
      <4>1. curPos \notin 1 .. Len(text)
        BY <2>3, Characters
      <4>. QED
        BY <1>1, <2>1, <4>1
    <3>2. EndsAt(begin, c - 1)
      BY <1>1, <2>1, <2>3, <3>1 DEF EndsAt
    <3>. QED
      BY <2>2, <2>3, <3>2
  <2>4. CASE /\ s = "next" /\ c = curPos + 1
             /\ \/ state = "line" /\ char(curPos) = "\n"
                \/ state = "star" /\ char(curPos) = "/"
    <3>1. Ends(begin, curPos)
      BY <2>1, <2>4 DEF Ends
    <3>2. char(curPos) # NUL
      BY <2>4 DEF NUL
    <3>3. curPos \in begin .. Len(text) /\ c - 1 = curPos
      BY <1>1, <2>1, <2>4, <3>2, CharInText
    <3>4. EndsAt(begin, c - 1)
      BY <2>1, <3>1, <3>3 DEF EndsAt
    <3>. QED
      BY <2>2, <2>4, <3>4
  <2>5. ASSUME s \in {"line", "block", "star"}, c >= begin + 2, (s = "line" <=> state = "line"),
               \A q \in begin .. c - 1 : ~Ends(begin, q), s = "block" => ~Ends(begin, c),
               s = "star" => c >= begin + 3 /\ char(c - 1) = "*"
        PROVE  At(s, begin, c) /\ f[Place(s, begin, c)] = f[Place(state, begin, curPos)]
    <3>1. At(s, begin, c)
      BY <2>1, <2>5 DEF At, Skipping
    <3>2. Place(s, begin, c) = begin /\ Place(state, begin, curPos) = begin
      BY <1>2, <2>5 DEF Place
    <3>. QED
      BY <3>1, <3>2
  <2>6. CASE s = "line" /\ c = curPos + 1 /\ state = "line" /\ char(curPos) # "\n"
    <3>1. ~Ends(begin, curPos)
      BY <2>1, <2>6 DEF Ends
    <3>2. \A q \in begin .. c - 1 : ~Ends(begin, q)
      BY <1>1, <2>1, <2>6, <3>1
    <3>. QED
      BY <1>1, <2>1, <2>5, <2>6, <3>2
  <2>7. CASE s = "star" /\ c = curPos + 1 /\ state = "block" /\ char(curPos) = "*"
    <3>1. \A q \in begin .. c - 1 : ~Ends(begin, q)
      BY <1>1, <2>1, <2>7
    <3>2. c >= begin + 3 /\ c - 1 = curPos
      BY <1>1, <2>1, <2>7
    <3>. QED
      BY <1>1, <2>1, <2>5, <2>7, <3>1, <3>2
  <2>8. CASE s = "block" /\ c = curPos /\ state = "star" /\ char(curPos) # "/"
    <3>1. ~Ends(begin, curPos)
      BY <2>1, <2>8 DEF Ends
    <3>. QED
      BY <1>1, <2>1, <2>5, <2>8, <3>1
  <2>9. CASE s = "block" /\ c = curPos + 1 /\ state = "block" /\ char(curPos) \notin {NUL, "*"}
    <3>1. \A q \in begin .. c - 1 : ~Ends(begin, q)
      BY <1>1, <2>1, <2>9
    <3>2. c - 1 = curPos /\ c >= begin + 2
      BY <1>1, <2>1, <2>9
    <3>3. ~Ends(begin, c)
      BY <2>1, <2>9, <3>2 DEF Ends
    <3>. QED
      BY <2>5, <2>9, <3>1, <3>2, <3>3
  <2>. QED
    BY <1>5, <2>3, <2>4, <2>6, <2>7, <2>8, <2>9
<1>. QED
  BY <1>2, <1>3, <1>4, <1>6, SoundStays

(* The beginning of a token, of blanks, or of the end.                     *)
LEMMA NextIsSound ==
    ASSUME Terminated, Within, NEW f, Meaning(f), Strayed(f) \/ Following(f), formNextToken
    PROVE  (Strayed(f) \/ Following(f))'
<1>1. curPos \in Nat /\ curPos >= 1 /\ Len(text) \in Nat /\ curPos \in 1 .. Len(text) + 1
  BY DEF Within
<1>2. state = "next" /\ Place(state, begin, curPos) = curPos
  BY DEF formNextToken, In, Not, Place
<1>3. CASE In("next", Blank) /\ Skip(1, "next")
  <2>1. /\ text' = text /\ dialect' = dialect /\ tokens' = tokens /\ state' = "next"
        /\ begin' = begin /\ curPos' = curPos + 1 /\ char(curPos) \in Blank
    BY <1>3 DEF Skip, In
  <2>2. At("next", begin, curPos + 1) /\ Place("next", begin, curPos + 1) = curPos + 1
    BY DEF At, Skipping, Place
  <2>3. ~StopsAt(curPos)
    BY <2>1 DEF StopsAt, Blank, Control
  <2>4. ~Misread(curPos) => f[curPos] = f[curPos + 1]
    BY <1>1, <2>1, <2>3 DEF Meaning, Plain
  <2>. QED
    BY <1>1, <1>2, <2>1, <2>2, <2>4, SoundStays
<1>4. ASSUME NEW n \in 0 .. 1, NEW s, Begin(n, s), s \notin Skipping, ~StopsAt(curPos),
             char(curPos) \notin Blank, s # "punct" => ~OpensComment(curPos)
      PROVE  (Strayed(f) \/ Following(f))'
  <2>1. /\ text' = text /\ dialect' = dialect /\ tokens' = tokens /\ state' = s
        /\ begin' = curPos /\ curPos' = curPos + n
    BY <1>4 DEF Begin
  <2>2. Place(s, curPos, curPos + n) = curPos
    BY <1>4 DEF Place, Skipping
  <2>3. ~Misread(curPos) => At(s, curPos, curPos + n)
    BY <1>4 DEF At, Skipping
  <2>. QED
    BY <1>1, <1>2, <2>1, <2>2, <2>3, SoundStays
<1>5. ASSUME NEW s \in {"done", "exited"}, Begin(0, s), StopsAt(curPos)
      PROVE  (Strayed(f) \/ Following(f))'
  <2>1. /\ text' = text /\ dialect' = dialect /\ tokens' = tokens /\ state' = s
        /\ begin' = curPos /\ curPos' = curPos
    BY <1>1, <1>5 DEF Begin
  <2>2. At(s, curPos, curPos) /\ Place(s, curPos, curPos) = curPos
    BY <1>5 DEF At, Skipping, Place
  <2>. QED
    BY <1>1, <1>2, <2>1, <2>2, SoundStays
<1>6. /\ "zero" \notin Skipping /\ "decimal" \notin Skipping /\ "word" \notin Skipping
      /\ "punct" \notin Skipping /\ "control" \notin Skipping
  BY DEF Skipping
<1>7. \A x : /\ x \in Digit \cup Alpha => x \notin Blank \cup {Control, "/"}
             /\ x \in Punct => x \notin Blank \cup {Control}
             /\ x = Control => x \notin Blank /\ x # "/"
  <2>1. \A x \in Digit : x \notin Blank
    BY DEF Digit, Blank
  <2>2. \A x \in Alpha : x \notin Blank
    BY DEF Alpha, Blank
  <2>3. \A x \in Punct : x \notin Blank
    BY DEF Punct, Blank
  <2>4. Control \notin Blank /\ Control # "/" /\ "/" \in Punct
    BY DEF Control, Blank, Punct
  <2>. QED
    BY <2>1, <2>2, <2>3, <2>4, Classes
<1>8. ASSUME char(curPos) \in Digit \cup Alpha
      PROVE  ~StopsAt(curPos) /\ char(curPos) \notin Blank /\ ~OpensComment(curPos)
  BY <1>7, <1>8 DEF StopsAt, OpensComment
<1>9. CASE \/ In("next", {"0"}) /\ Begin(1, "zero")
           \/ In("next", Digit \ {"0"}) /\ Begin(0, "decimal")
           \/ In("next", Alpha) /\ Begin(1, "word")
  <2>1. char(curPos) \in Digit \cup Alpha
    BY <1>9 DEF In, Digit
  <2>. QED
    BY <1>4, <1>6, <1>8, <1>9, <2>1
<1>10. CASE In("next", Punct) /\ Begin(0, "punct")
  <2>1. ~StopsAt(curPos) /\ char(curPos) \notin Blank
    BY <1>7, <1>10 DEF In, StopsAt
  <2>. QED
    BY <1>4, <1>6, <1>10, <2>1
<1>11. CASE In("next", {Control}) /\ dialect # "c" /\ Begin(1, "control")
  <2>1. ~StopsAt(curPos) /\ char(curPos) \notin Blank /\ ~OpensComment(curPos)
    BY <1>7, <1>11 DEF In, StopsAt, OpensComment
  <2>. QED
    BY <1>4, <1>6, <1>11, <2>1
<1>12. CASE In("next", {Control}) /\ dialect = "c" /\ Begin(0, "exited")
  BY <1>5, <1>12 DEF In, StopsAt
<1>13. CASE /\ Not("next", Blank \cup Digit \cup Alpha \cup Punct \cup {Control})
            /\ Begin(0, "done")
  BY <1>5, <1>13 DEF Not, StopsAt
<1>. QED
  BY <1>3, <1>9, <1>10, <1>11, <1>12, <1>13 DEF formNextToken

-----------------------------------------------------------------------------
(* What is returned is what the document says, so far.                     *)
Reads == Terminated /\ Within /\ Forming /\ Listed /\ Sound

LEMMA StepSound ==
    ASSUME Reads, [Next]_vars, NEW f, Meaning(f)
    PROVE  (Strayed(f) \/ Following(f))'
<1>. USE DEF Reads
<1>1. Strayed(f) \/ Following(f)
  BY DEF Sound
<1>2. Returned
  BY StepForms
<1>3. state = "punct" => curPos = begin
  BY Places DEF Forming, Formed
<1>4. CASE formNextToken
  BY <1>1, <1>4, NextIsSound
<1>5. CASE Growing
  BY <1>1, <1>5, GrowingIsSound
<1>6. CASE Giving
  BY <1>1, <1>2, <1>6, GivingIsSound DEF Returned
<1>7. CASE Opening
  BY <1>1, <1>7, OpeningIsSound
<1>8. CASE LineComment \/ BlockComment
  BY <1>1, <1>8, CommentIsSound
<1>9. CASE UNCHANGED vars
  <2>1. /\ text' = text /\ dialect' = dialect /\ tokens' = tokens /\ state' = state
        /\ begin' = begin /\ curPos' = curPos
    BY <1>9 DEF vars
  <2>2. Following(f) => At(state, begin, curPos)
    BY DEF Following
  <2>. QED
    BY <1>1, <2>1, <2>2, SoundStays
<1>. QED
  BY <1>3, <1>4, <1>5, <1>6, <1>7, <1>8, <1>9, NumbersGrow, OthersGrow, PunctuationGrows DEF Next

(* The text stays what it is.                                              *)
LEMMA StepText ==
    ASSUME Within, Forming, [Next]_vars
    PROVE  text' = text /\ dialect' = dialect
<1>1. Growing \/ Giving \/ Opening => text' = text /\ dialect' = dialect
  BY DEF Growing, Giving, Opening, Take, Go, Return, Skip
<1>2. formNextToken \/ LineComment \/ BlockComment \/ UNCHANGED vars
        => text' = text /\ dialect' = dialect
  BY DEF formNextToken, LineComment, BlockComment, Begin, Skip, Go, vars
<1>3. state = "punct" => curPos = begin
  BY Places DEF Within, Forming, Formed
<1>. QED
  BY <1>1, <1>2, <1>3, NumbersGrow, OthersGrow, PunctuationGrows DEF Next

LEMMA StepReads == Reads /\ [Next]_vars => Reads'
<1>. SUFFICES ASSUME Reads, [Next]_vars PROVE Reads'
  OBVIOUS
<1>1. text' = text /\ dialect' = dialect
  BY StepText DEF Reads
<1>2. Terminated'
  <2>1. text' \in Seq(STRING \ {NUL})
    BY <1>1 DEF Reads, Terminated
  <2>. QED
    BY <2>1 DEF Terminated, NUL
<1>3. Within' /\ Forming' /\ Returned
  BY StepWithin, StepForms DEF Reads
<1>4. Listed'
  <2>1. PICK I : tokens \in Seq(I)
    BY DEF Reads, Listed
  <2>2. tokens' = tokens \/ \E t : tokens' = Append(tokens, t)
    BY <1>3 DEF Returned, Return
  <2>3. CASE tokens' = tokens
    BY <2>1, <2>3 DEF Listed
  <2>4. ASSUME NEW t, tokens' = Append(tokens, t) PROVE Listed'
    <3>1. tokens' \in Seq(I \cup {t})
      BY <2>1, <2>4
    <3>. QED
      BY <3>1 DEF Listed
  <2>. QED
    BY <2>2, <2>3, <2>4
<1>5. Sound'
  <2>1. ASSUME NEW f, Meaning(f)' PROVE (Strayed(f) \/ Following(f))'
    <3>1. Meaning(f)
      BY <1>1, <2>1, MeaningLasts
    <3>. QED
      BY <3>1, StepSound
  <2>. QED
    BY <2>1 DEF Sound
<1>. QED
  BY <1>2, <1>3, <1>4, <1>5 DEF Reads

LEMMA InitReads == Init => Reads
<1>. SUFFICES ASSUME Init PROVE Reads
  OBVIOUS
<1>1. Terminated
  BY InputsAssumption DEF Init, Terminated, NUL
<1>2. Within /\ Forming
  BY InitWithin, Idle DEF Init, Forming, Skipping
<1>3. Listed
  BY DEF Init, Listed
<1>4. Sound
  <2>. SUFFICES ASSUME NEW f, Meaning(f) PROVE Following(f)
    BY DEF Sound
  <2>1. PICK I : f[1] \in Seq(I)
    <3>1. 1 \in 1 .. Len(text) + 1
      BY <1>1, Characters
    <3>. QED
      BY <3>1 DEF Meaning
  <2>2. <<>> \o f[1] = f[1]
    BY <2>1
  <2>3. At("next", 1, 1) /\ Place("next", 1, 1) = 1
    BY DEF At, Skipping, Place
  <2>. QED
    BY <2>2, <2>3 DEF Following, Init
<1>. QED
  BY <1>1, <1>2, <1>3, <1>4 DEF Reads

(* The tokens of every text, in each of the three copies, are those the    *)
(* document defines (doc/tokenizer.pdf), with the names the C tokenizer    *)
(* prints, up to the first place where the code is known to read something *)
(* else (tokenizer.c:336-355, 383-420).                                    *)
THEOREM ReadsEveryText == Spec => []ReadsAsDocumented
<1>1. Reads => ReadsAsDocumented
  <2>. SUFFICES ASSUME Reads, Ended
                PROVE  /\ IsPrefix(Reading[1], tokens)
                       /\ tokens # Reading[1] => \E p \in 1 .. Len(text) : Misread(p)
    BY DEF ReadsAsDocumented
  <2>. DEFINE R == Reading
  <2>1. Meaning(R) /\ R[1] \in Seq(Items) /\ 1 \in 1 .. Len(text) + 1
    BY ReadingMeans, ReadingIs, Characters DEF Reads
  <2>2. PICK I : tokens \in Seq(I)
    BY DEF Reads, Listed
  <2>. HIDE DEF R
  <2>3. Strayed(R) \/ Following(R)
    BY <2>1 DEF Reads, Sound
  <2>4. CASE Following(R)
    <3>1. StopsAt(curPos) /\ Place(state, begin, curPos) = curPos
      BY <2>4 DEF Following, At, Place, Ended
    <3>2. curPos \in 1 .. Len(text) + 1
      BY DEF Reads, Within
    <3>3. R[curPos] = <<>>
      BY <2>1, <3>1, <3>2 DEF Meaning
    <3>4. tokens \o <<>> = R[1]
      BY <2>4, <3>1, <3>3 DEF Following
    <3>5. tokens = R[1]
      BY <2>2, <3>4
    <3>. QED
      BY <2>2, <3>5 DEF IsPrefix, R
  <2>5. CASE Strayed(R)
    <3>1. Len(R[1]) <= Len(tokens) /\ \A k \in 1 .. Len(R[1]) : tokens[k] = R[1][k]
      BY <2>5 DEF Strayed
    <3>2. SubSeq(R[1], 1, Len(R[1])) = SubSeq(tokens, 1, Len(R[1]))
      BY <2>1, <2>2, <3>1
    <3>3. \E p \in 1 .. Len(text) : Misread(p)
      BY <2>5 DEF Strayed
    <3>. QED
      BY <3>1, <3>2, <3>3 DEF IsPrefix, R
  <2>. QED
    BY <2>3, <2>4, <2>5
<1>. QED
  BY <1>1, InitReads, StepReads, PTL DEF Spec

-----------------------------------------------------------------------------
(* Reading ends.                                                           *)

(* What is left to do: four times the characters to be read, and what the  *)
(* state may still do without reading one.                                 *)
Rank ==
    CASE state \in {"octal", "assign", "angle", "star"} -> 3
      [] state = "next"                                  -> 1
      [] state \in {"done", "exited", "punct"}           -> 0
      [] state = "decimal" /\ length = 0                 -> 0
      [] OTHER                                           -> 2
Left == 4 * (Len(text) + 1 - curPos) + Rank

(* The rank of each state, before and after a step.                        *)
LEMMA Ranks ==
    /\ Rank \in 0 .. 3
    /\ state \in {"octal", "assign", "angle", "star"} => Rank = 3
    /\ state = "next" => Rank = 1
    /\ state \in {"done", "exited", "punct"} => Rank = 0
    /\ state = "decimal" => Rank = IF length = 0 THEN 0 ELSE 2
    /\ state \in {"zero", "hex", "hexdigits", "fraction", "exponent", "signed", "power",
                  "word", "control", "point", "operator", "line", "block"} => Rank = 2
BY DEF Rank

LEMMA RanksNext ==
    /\ Rank' \in 0 .. 3
    /\ state' \in {"octal", "assign", "angle", "star"} => Rank' = 3
    /\ state' = "next" => Rank' = 1
    /\ state' \in {"done", "exited", "punct"} => Rank' = 0
    /\ state' = "decimal" => Rank' = IF length' = 0 THEN 0 ELSE 2
    /\ state' \in {"zero", "hex", "hexdigits", "fraction", "exponent", "signed", "power",
                  "word", "control", "point", "operator", "line", "block"} => Rank' = 2
BY DEF Rank

(* A step leaves less: it goes on in the text, or stays there in a lower   *)
(* rank.                                                                   *)
Less == 0 <= Left' /\ Left' < Left

(* The two ways to leave less.                                             *)
LEMMA Consuming ==
    ASSUME Within, Within', NEW n \in 1 .. 2, text' = text, curPos' = curPos + n
    PROVE  Less
<1>1. /\ Len(text) \in Nat /\ curPos \in Nat /\ curPos' \in Nat /\ curPos' <= Len(text) + 1
  BY DEF Within
<1>2. Rank \in 0 .. 3 /\ Rank' \in 0 .. 3
  BY Ranks, RanksNext
<1>. QED
  BY <1>1, <1>2 DEF Less, Left

LEMMA Lowering ==
    ASSUME Within, text' = text, curPos' = curPos, Rank' < Rank
    PROVE  Less
<1>1. /\ Len(text) \in Nat /\ curPos \in Nat /\ curPos <= Len(text) + 1
  BY DEF Within
<1>2. Rank \in 0 .. 3 /\ Rank' \in 0 .. 3
  BY Ranks, RanksNext
<1>. QED
  BY <1>1, <1>2 DEF Less, Left

(* The steps of the helpers.                                               *)
LEMMA TakingLess == ASSUME Within, Within', NEW n \in 1 .. 2, NEW s, Take(n, s) PROVE Less
BY Consuming DEF Take
LEMMA SkippingLess == ASSUME Within, Within', NEW n \in 1 .. 2, NEW s, Skip(n, s) PROVE Less
BY Consuming DEF Skip

LEMMA GoingLess ==
    ASSUME Within, NEW s, Go(s),
           \/ state = "octal" /\ s = "decimal"
           \/ state \in {"assign", "angle"} /\ s = "operator"
           \/ state = "star" /\ s = "block"
           \/ state \in {"line", "block"} /\ s = "next"
    PROVE  Less
<1>1. state' = s /\ text' = text /\ curPos' = curPos
  BY DEF Go
<1>2. Rank' < Rank
  BY <1>1, Ranks, RanksNext
<1>. QED
  BY <1>1, <1>2, Lowering

LEMMA ReturningLess ==
    ASSUME Within, NEW type, Return(type), state \notin Skipping, state # "punct",
           state = "decimal" => length # 0,
           state \in {"zero", "octal", "hex", "hexdigits", "decimal", "fraction", "exponent",
                      "signed", "power", "word", "control", "point", "operator"}
    PROVE  Less
<1>1. state' = "next" /\ text' = text /\ curPos' = curPos
  BY DEF Return
<1>2. Rank' < Rank
  BY <1>1, Ranks, RanksNext
<1>. QED
  BY <1>1, <1>2, Lowering

LEMMA BeginningLess ==
    ASSUME Within, Within', NEW n \in 0 .. 1, NEW s, Begin(n, s), state = "next",
           n = 0 => s \in {"punct", "decimal", "done", "exited"}
    PROVE  Less
<1>1. state' = s /\ text' = text /\ curPos' = curPos + n /\ length' = n
  BY DEF Begin
<1>2. CASE n = 1
  BY <1>1, <1>2, Consuming
<1>3. CASE n = 0
  <2>1. Rank' = 0 /\ Rank = 1
    BY <1>1, <1>3, Ranks, RanksNext
  <2>2. curPos' = curPos
    BY <1>1, <1>3 DEF Within
  <2>. QED
    BY <1>1, <2>1, <2>2, Lowering
<1>. QED
  BY <1>2, <1>3

LEMMA StepLess ==
    ASSUME Within, Forming, Next
    PROVE  Less
<1>0. Within'
  BY StepWithin
<1>. USE <1>0
<1>1. CASE formOctalToken
  BY <1>1, TakingLess, GoingLess, ReturningLess DEF formOctalToken, In, Not, Skipping
<1>2. CASE formHexToken
  BY <1>2, TakingLess, ReturningLess DEF formHexToken, In, Not, Skipping
<1>3. CASE formDecimalToken
  <2>1. CASE Not("decimal", Digit \cup {".", "e", "E"}) /\ Return("DEC")
    <3>1. length # 0
      BY <2>1, Places DEF Forming, Formed, Not, Within, Skipping
    <3>. QED
      BY <2>1, <3>1, ReturningLess DEF Not, Skipping
  <2>. QED
    BY <1>3, <2>1, TakingLess DEF formDecimalToken
<1>4. CASE formFloatToken \/ formFloatWithExpToken
  BY <1>4, TakingLess, ReturningLess DEF formFloatToken, formFloatWithExpToken, In, Not, Skipping
<1>5. CASE formWordToken \/ formNextControlToken
  BY <1>5, TakingLess, ReturningLess DEF formWordToken, formNextControlToken, In, Not, Skipping
<1>6. CASE formPuncToken
  BY <1>6, TakingLess, SkippingLess, GoingLess, ReturningLess DEF formPuncToken, In, Not, Skipping
<1>7. CASE LineComment \/ BlockComment
  BY <1>7, SkippingLess, GoingLess DEF LineComment, BlockComment, In, Not
<1>8. CASE formNextToken
  BY <1>8, SkippingLess, BeginningLess DEF formNextToken, In, Not
<1>. QED
  BY <1>1, <1>2, <1>3, <1>4, <1>5, <1>6, <1>7, <1>8 DEF Next

(* No text is read for ever: every step leaves less to do, and of a text   *)
(* of n characters there are 4n + 1 steps at most.  With a step possible   *)
(* until the end, which fairness then takes, that is EveryTextEnds.        *)
Decreases == [][0 <= Left' /\ Left' < Left]_vars
THEOREM NoTextIsEndless == Spec => [](Left <= 4 * Len(text) + 1) /\ Decreases
<1>1. Init => Within /\ Forming /\ Left <= 4 * Len(text) + 1
  <2>. SUFFICES ASSUME Init PROVE Within /\ Forming /\ Left <= 4 * Len(text) + 1
    OBVIOUS
  <2>1. Within /\ Forming
    BY InitWithin, Idle DEF Init, Forming, Skipping
  <2>2. Rank = 1 /\ curPos = 1 /\ Len(text) \in Nat
    BY <2>1, Ranks DEF Init, Within
  <2>. QED
    BY <2>1, <2>2 DEF Left
<1>2. Within /\ Forming /\ [Next]_vars => (Less \/ UNCHANGED vars)
  BY StepLess
<1>3. Within /\ Forming /\ Left <= 4 * Len(text) + 1 /\ [Next]_vars /\ (Less \/ UNCHANGED vars)
        => (Left <= 4 * Len(text) + 1)'
  <2>. SUFFICES ASSUME Within, Forming, Left <= 4 * Len(text) + 1, [Next]_vars, Less \/ UNCHANGED vars
                PROVE  (Left <= 4 * Len(text) + 1)'
    OBVIOUS
  <2>1. text' = text
    BY StepText
  <2>2. Len(text) \in Nat /\ Left \in Int
    BY Ranks DEF Within, Left
  <2>3. Left' \in Int
    BY <2>1, <2>2, StepWithin, RanksNext DEF Within, Left
  <2>4. CASE Less
    BY <2>1, <2>2, <2>3, <2>4 DEF Less
  <2>5. CASE UNCHANGED vars
    <3>1. Left' = Left
      BY <2>5 DEF vars, Left, Rank
    <3>. QED
      BY <2>1, <2>2, <3>1
  <2>. QED
    BY <2>4, <2>5
<1>4. Less <=> 0 <= Left' /\ Left' < Left
  BY DEF Less
<1>. QED
  BY <1>1, <1>2, <1>3, <1>4, StepWithin, StepForms, PTL DEF Spec, Decreases
=============================================================================
