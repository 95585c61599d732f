----------------------------- MODULE Dictionary -----------------------------
(* hashtable.c: the table of chains in which the C tokenizer looks up the  *)
(* names of operators and the keywords.  A key is a sequence of            *)
(* characters, which are strings of one character; a table is the function *)
(* of its lists, each the sequence of its entries.                         *)
EXTENDS Integers, Sequences, FiniteSetsExt, SequencesExt

Chars(s) == [i \in 1 .. Len(s) |-> SubSeq(s, i, i)]

\* The characters from code 32 on.  A TLA+ string cannot hold the backquote,
\* number 96: its place is taken by a line feed.
Printable == Chars(" !\"#$%&'()*+,-./0123456789:;<=>?@ABCDEFGHIJKLMNOPQRSTUVWXYZ[\\]^_\nabcdefghijklmnopqrstuvwxyz{|}~")
Code == [c \in ToSet(Printable) |-> 31 + (CHOOSE i \in 1 .. 95 : Printable[i] = c)]

hash(key, size) ==
    LET index[i \in 0 .. Len(key)] == IF i = 0 THEN 0 ELSE index[i - 1] + Code[key[i]]
    IN  index[Len(key)] % size

HTCreate(size) == [index \in 0 .. size - 1 |-> <<>>]

addToHashTable(ht, key, value) ==
    [ht EXCEPT ![hash(key, Cardinality(DOMAIN ht))] = Append(@, [key |-> key, value |-> value])]

(* createCDictionary and createKeywordDictionary: a table of size lists    *)
(* with the entries of two arrays, added in their order.                   *)
Table(size, keys, values) ==
    LET ht[i \in 0 .. Len(keys)] ==
            IF i = 0 THEN HTCreate(size) ELSE addToHashTable(ht[i - 1], keys[i], values[i])
    IN  ht[Len(keys)]

(* The first entry with the key, down the list: its value, or NULL.        *)
NotThere == "NULL"
listFind(list, key) ==
    LET with == {i \in DOMAIN list : list[i].key = key}
    IN  IF with = {} THEN NotThere ELSE list[Min(with)].value

find(ht, key) == listFind(ht[hash(key, Cardinality(DOMAIN ht))], key)
=============================================================================
