------------------------------ MODULE Tokenizer ------------------------------
(* The tokenizer of tokenizer.c as the automaton it is: `state' is the     *)
(* function, and the loop in it, that looks at the current character, and  *)
(* a step reads one character.  The repository has three copies of the     *)
(* program; where they differ, `dialect' says which one runs: the C        *)
(* tokenizer, the indexer's, or that of the banking client.                *)
(*                                                                         *)
(* A text is a sequence of characters: strings of one character, and       *)
(* Control for the control characters that are no blanks.  A byte above    *)
(* 127 is whatever is in none of the sets below.  No character of a text   *)
(* is NUL: that is where a C string ends.                                  *)
EXTENDS Dictionary

CONSTANTS
    Inputs      \* the pairs of a dialect and a text

ASSUME InputsAssumption == \A input \in Inputs : input[2] \in Seq(STRING \ {""})

(* hash adds the codes of characters, 126 at most, in an int of 32 bits,   *)
(* which a longer text could overflow.                                     *)
ASSUME LengthAssumption ==
    \A input \in Inputs : 126 * Len(input[2]) <= 2147483647

VARIABLES
    dialect,    \* the copy of the program: "c", "indexer", "banking"
    text,       \* tk->tokens
    curPos,     \* tk->curPos, as a position of the text
    begin,      \* where the token begins
    length,     \* the characters it has so far
    state,      \* the function and loop that reads on
    tokens      \* what TKGetNextToken has returned

vars == <<dialect, text, curPos, begin, length, state, tokens>>

Digit  == {"0", "1", "2", "3", "4", "5", "6", "7", "8", "9"}
ODigit == Digit \ {"8", "9"}
XDigit == Digit \cup {"a", "b", "c", "d", "e", "f", "A", "B", "C", "D", "E", "F"}
Alpha  == {"a", "b", "c", "d", "e", "f", "g", "h", "i", "j", "k", "l", "m",
           "n", "o", "p", "q", "r", "s", "t", "u", "v", "w", "x", "y", "z",
           "A", "B", "C", "D", "E", "F", "G", "H", "I", "J", "K", "L", "M",
           "N", "O", "P", "Q", "R", "S", "T", "U", "V", "W", "X", "Y", "Z"}
Blank  == {" ", "\t", "\n", "\f", "\r"}
Punct  == {"!", "\"", "#", "$", "%", "&", "'", "(", ")", "*", "+", ",", "-",
           ".", "/", ":", ";", "<", "=", ">", "?", "@", "[", "\\", "]", "^",
           "_", "{", "|", "}", "~"}

(* The character at a position: from the end on, the terminating NUL.      *)
NUL == ""
Control == "^V"
char(p) == IF p <= Len(text) THEN text[p] ELSE NUL

Init ==
    /\ \E input \in Inputs : dialect = input[1] /\ text = input[2]
    /\ curPos = 1 /\ begin = 1 /\ length = 0
    /\ state = "next"
    /\ tokens = <<>>

-----------------------------------------------------------------------------
(* What the C tokenizer prints.                                            *)

Spelled(names) == [k \in DOMAIN names |-> Chars(names[k])]

ops == Spelled(<<"(", ")", "[", "]", "~", "?", ":", ".", ",",
         "*", "&", "-", "!", "+", "/", "%", ">", "<",
         "=", "^", "|", "*=", "&&", "--", "!=", "++", "/=",
         "%=", ">>", "<<", "==", "^=", "||", "&=", "-=", "+=",
         ">=", "<=", "|=", "->", ">>=", "<<=">>)
opNames == <<"left paren", "right paren", "left brace", "right brace", "tilde",
    "question mark", "colon", "period", "comma", "asterisk",
    "ampersand", "minus", "exclamation point", "plus", "solidus",
    "percent", "right bracket", "left bracket", "equals", "caret",
    "vertical bar", "asterisk equals", "double ampersand", "double minus",
    "exclamation equals", "double plus", "solidus equals", "percent equals",
    "double right bracket", "double left bracket", "double equals", "caretequals",
    "double vertical bar", "ampersand equals", "minus equals",
    "plus equals", "greater or equal", "less or equal", "vertical bar equals",
    "pointer", "double right equals", "double left equals">>
kw == Spelled(<<"auto", "break", "case", "char", "const", "continue", "default", "do",
    "double", "else", "enum", "extern", "float", "for", "goto", "if", "int", "long",
    "register", "return", "short", "signed", "sizeof", "static", "struct",
    "switch", "typedef", "union", "unsigned", "void", "volatile", "while">>)

HASH_MAX == 15
cDict == Table(HASH_MAX, ops, opNames)
kDict == Table(HASH_MAX, kw, [i \in DOMAIN kw |-> " "])

typeToString(type, token) ==
    CASE type = "MAL"   -> "mal"
      [] type = "DEC"   -> "decimal"
      [] type = "OCTAL" -> "octal"
      [] type = "FLOAT" -> "float"
      [] type = "HEX"   -> "hex"
      [] type = "WORD"  -> IF find(kDict, token) = NotThere THEN "word" ELSE "C-keyword"
      [] type = "OPE"   -> IF find(cDict, token) = NotThere THEN "operator" ELSE find(cDict, token)

-----------------------------------------------------------------------------
(* What the functions do with characters.                                  *)

In(s, chars) == state = s /\ char(curPos) \in chars
Not(s, chars) == state = s /\ char(curPos) \notin chars

Go(s) == state' = s /\ UNCHANGED <<dialect, text, curPos, begin, length, tokens>>

(* addCurCharToToken, n times.                                             *)
Take(n, s) ==
    /\ curPos' = curPos + n /\ length' = length + n
    /\ state' = s
    /\ UNCHANGED <<dialect, text, begin, tokens>>

Skip(n, s) ==
    /\ curPos' = curPos + n
    /\ state' = s
    /\ UNCHANGED <<dialect, text, begin, length, tokens>>

(* The token is formed: TKGetNextToken copies and returns it, and main     *)
(* prints it and asks for the next one.                                    *)
Return(type) ==
    LET token == SubSeq(text, begin, begin + length - 1)
    IN  /\ tokens' = Append(tokens,
                [type |-> type, token |-> token,
                 name |-> IF dialect = "c" THEN typeToString(type, token) ELSE type])
        /\ state' = "next"
        /\ UNCHANGED <<dialect, text, curPos, begin, length>>

-----------------------------------------------------------------------------
(* Numbers and words.                                                      *)

(* After a leading 0, and after the octal digits that follow it.           *)
formOctalToken ==
    \/ In("zero", {"x", "X"}) /\ Take(1, "hex")
    \/ In("zero", ODigit) /\ Take(1, "octal")
    \/ In("zero", {"."}) /\ Take(1, "fraction")
    \/ Not("zero", ODigit \cup {"x", "X", "."}) /\ Return("DEC")
    \/ In("octal", ODigit) /\ Take(1, "octal")
    \/ In("octal", {"8", "9"}) /\ Go("decimal")
    \/ In("octal", {"."}) /\ Take(1, "fraction")
    \/ Not("octal", Digit \cup {"."}) /\ Return("OCTAL")

formHexToken ==
    \/ In("hex", XDigit) /\ Take(1, "hexdigits")
    \/ Not("hex", XDigit) /\ Return("MAL")
    \/ In("hexdigits", XDigit) /\ Take(1, "hexdigits")
    \/ Not("hexdigits", XDigit) /\ Return("HEX")

formDecimalToken ==
    \/ In("decimal", Digit) /\ Take(1, "decimal")
    \/ In("decimal", {"."}) /\ Take(1, "fraction")
    \/ In("decimal", {"e", "E"}) /\ Take(1, "exponent")
    \/ Not("decimal", Digit \cup {".", "e", "E"}) /\ Return("DEC")

(* The callers have taken the character formFloatToken takes blindly: the  *)
(* point, or the digit behind it.                                          *)
formFloatToken ==
    \/ In("fraction", Digit) /\ Take(1, "fraction")
    \/ In("fraction", {"e", "E"}) /\ Take(1, "exponent")
    \/ Not("fraction", Digit \cup {"e", "E"}) /\ Return("FLOAT")

formFloatWithExpToken ==
    \/ In("exponent", {"+", "-"}) /\ Take(1, "signed")
    \/ In("exponent", Digit) /\ Take(1, "power")
    \/ Not("exponent", Digit \cup {"+", "-"}) /\ Return("MAL")
    \/ In("signed", Digit) /\ Take(1, "power")
    \/ Not("signed", Digit) /\ Return("MAL")
    \/ In("power", Digit) /\ Take(1, "power")
    \/ Not("power", Digit) /\ Return("FLOAT")

(* The banking client's copy has underscores in its words.                 *)
InWord == Alpha \cup Digit \cup (IF dialect = "banking" THEN {"_"} ELSE {})
formWordToken ==
    \/ In("word", InWord) /\ Take(1, "word")
    \/ Not("word", InWord) /\ Return("WORD")

(* The C tokenizer prints the code of a control character and exits.       *)
formNextControlToken == state = "control" /\ Return("CTR")

-----------------------------------------------------------------------------
(* Punctuation.  The cases of the switch fall through: "-" is tried as an  *)
(* arrow, as repeated, as the opener of a comment, and before "=".         *)

Repeats == {"-", "+", "&", "|"}
Openers == Repeats \cup {"^", "%", "!", "/"}

Arrow == char(curPos) = "-" /\ char(curPos + 1) = ">"
(* Mutant: two of them in a row, equal or not. *)
Paired == char(curPos) \in Repeats /\ char(curPos + 1) \in Repeats
Doubled == char(curPos) \in Repeats /\ char(curPos + 1) = char(curPos)
Comment(c) == char(curPos) \in Openers /\ ~Doubled /\ char(curPos + 1) = c

Assigns == Openers \cup {"*", "="}
Angles  == {"<", ">"}

formPuncToken ==
    \/ In("punct", {"."}) /\ Take(1, "point")
    \/ In("point", Digit) /\ Take(1, "fraction")
    \/ Not("point", Digit) /\ Return("OPE")
    \/ In("punct", {"-"}) /\ Arrow /\ Take(2, "operator")
    \/ In("punct", Repeats) /\ Doubled /\ Take(2, "operator")
    \/ In("punct", Openers) /\ Comment("/") /\ Skip(2, "line")
    \/ In("punct", Openers) /\ Comment("*") /\ Skip(2, "block")
    \/ /\ In("punct", Assigns)
       /\ ~(Arrow \/ Doubled \/ Comment("/") \/ Comment("*"))
       /\ Take(1, "assign")
    \/ In("punct", Angles) /\ Take(1, "angle")
    \/ Not("punct", Assigns \cup Angles \cup {"."}) /\ Take(1, "operator")
    \/ In("assign", {"="}) /\ Take(1, "operator")
    \/ Not("assign", {"="}) /\ Go("operator")
    \/ In("angle", {"="}) /\ Take(1, "operator")
    \/ In("angle", Angles) /\ char(curPos) = char(curPos - 1) /\ Take(1, "assign")
    \/ Not("angle", {"=", char(curPos - 1)}) /\ Go("operator")
    \/ state = "operator" /\ Return("OPE")

(* The two loops that discard a comment, and the call of formNextToken     *)
(* behind them.                                                            *)
(* Mutant: the end of the text is not tested. *)
LineUnended ==
    \/ In("line", {"\n"}) /\ Skip(1, "next")
    \/ Not("line", {"\n"}) /\ Skip(1, "line")
LineComment ==
    \/ In("line", {NUL}) /\ Go("next")
    \/ In("line", {"\n"}) /\ Skip(1, "next")
    \/ Not("line", {NUL, "\n"}) /\ Skip(1, "line")

(* Mutant: an asterisk is looked at, not taken, before the slash. *)
BlockPeeks ==
    \/ In("block", {"*"}) /\ (IF char(curPos + 1) = "/" THEN Skip(2, "next") ELSE Go("block"))
    \/ In("block", {NUL}) /\ Go("next")
    \/ Not("block", {NUL, "*"}) /\ Skip(1, "block")
BlockComment ==
    \/ In("block", {"*"}) /\ Skip(1, "star")
    \/ In("star", {"/"}) /\ Skip(1, "next")
    \/ Not("star", {"/"}) /\ Go("block")
    \/ In("block", {NUL}) /\ Go("next")
    \/ Not("block", {NUL, "*"}) /\ Skip(1, "block")

-----------------------------------------------------------------------------
(* formNextToken: past the blanks, by the first character to the function  *)
(* for it; n characters are taken on the way.  With a character for which  *)
(* there is no function, NUL or not, it returns an empty token, and        *)
(* TKGetNextToken NULL: main's loop ends.                                  *)
Begin(n, s) ==
    /\ begin' = curPos /\ curPos' = curPos + n /\ length' = n
    /\ state' = s
    /\ UNCHANGED <<dialect, text, tokens>>

formNextToken ==
    \/ In("next", Blank) /\ Skip(1, "next")
    \/ In("next", {"0"}) /\ Begin(1, "zero")
    \/ In("next", Digit \ {"0"}) /\ Begin(0, "decimal")
    \/ In("next", Alpha) /\ Begin(1, "word")
    \/ In("next", Punct) /\ Begin(0, "punct")
    \/ In("next", {Control}) /\ dialect = "c" /\ Begin(0, "exited")
    \/ In("next", {Control}) /\ dialect # "c" /\ Begin(1, "control")
    \/ Not("next", Blank \cup Digit \cup Alpha \cup Punct \cup {Control}) /\ Begin(0, "done")

Ended == state \in {"done", "exited"}

Next ==
    \/ formNextToken
    \/ formOctalToken \/ formHexToken \/ formDecimalToken
    \/ formFloatToken \/ formFloatWithExpToken
    \/ formWordToken \/ formNextControlToken \/ formPuncToken
    \/ LineComment \/ BlockComment

Spec == Init /\ [][Next]_vars
FairSpec == Spec /\ WF_vars(Next)
=============================================================================
