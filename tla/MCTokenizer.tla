---------------------------- MODULE MCTokenizer ----------------------------
(* Texts for TLC: all over three alphabets, up to a length.                *)
EXTENDS TokenizerProperties

Numbers   == SeqOf({"0", "7", "9", ".", "e", "x", "+"}, 5)
Comments  == SeqOf({"-", "/", "*", "=", ">", "\n"}, 5)
Operators == SeqOf(Punct, 2) \cup {Chars(">>="), Chars("<<="), Chars(">>>"), Chars("<<<=")}
Keywords  == {kw[i] : i \in DOMAIN kw} \cup {Append(kw[i], "7") : i \in DOMAIN kw}
Words     == SeqOf({"d", "o", "_", "7", " ", Control, "0x80"}, 4)

EveryText ==
    {<<"c", t>> : t \in Numbers \cup Comments \cup Operators \cup Keywords \cup Words}
        \cup {<<d, t>> : d \in {"indexer", "banking"}, t \in Words}
=============================================================================
