------------------------- MODULE IndexerProperties -------------------------
(* What makes the inverted index of module Indexer correct.                *)
EXTENDS Indexer, HashMapProperties, FiniteSets

(* Occurrences of the word w in a sequence of tokens, in any case.         *)
Count(w, tokens) ==
    Cardinality({n \in DOMAIN tokens : tokens[n] \in Words /\ Lower[tokens[n]] = w})

(* While a file is read, the map counts what was read: a word that is in   *)
(* the rest of the file no more has its final count.                       *)
Counted(w) == IF \E n \in nodes : key[n] = w
              THEN value[CHOOSE n \in nodes : key[n] = w] ELSE 0
CountsAreExact ==
    pc \in {"token", "count"} /\ op = "idle" =>
        \A w \in Keys : Counted(w) + Count(w, rest) = Count(w, content[file])

(* What is written is the inverted index: every word of every file, once,  *)
(* with its count, and nothing else.                                       *)
Entries == UNION {{<<i.token, r.file, r.count>> : r \in Range(i.records)} : i \in Range(written)}
Expected == {<<w, f, Count(w, content[f])>> : w \in Keys, f \in Files}
IndexIsExact == pc = "done" => Entries = {e \in Expected : e[3] > 0}

(* It is written in order: words ascending, the files of a word by         *)
(* descending count, and by name where counts are equal.                   *)
Ordered(seq, Before(_, _)) ==
    \A m, n \in DOMAIN seq : m < n => Before(seq[m], seq[n])
TokensAscend(i, j) == i.token < j.token
CountsDescend(r, s) ==
    \/ r.count > s.count
    \/ r.count = s.count /\ r.file < s.file
IndexIsSorted ==
    /\ Ordered(written, TokensAscend)
    /\ \A i \in Range(written) : Ordered(i.records, CountsDescend)

(* Every file's map is walked to its end, and the index is written.        *)
IsWritten == <>(pc = "done")
=============================================================================
