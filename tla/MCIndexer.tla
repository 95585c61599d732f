----------------------------- MODULE MCIndexer -----------------------------
(* Three words, two of them in the same bucket; one also in upper case;    *)
(* and a token that is no word.                                            *)
EXTENDS IndexerProperties

SmallLower == [t \in {1, 2, 3, 4} |-> IF t = 4 THEN 1 ELSE t]
SmallHash  == [k \in {1, 2, 3} |-> k]

(* Every file of one token at most, and some longer ones.                  *)
SmallContents ==
    BoundedSeq(Tokens, 1)
        \cup {<<1, 3>>, <<3, 1, 3>>, <<2, 4, 1, 3>>, <<1, 2, 3, 5, 3>>, <<4, 2, 1>>}
=============================================================================
