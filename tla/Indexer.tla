------------------------------ MODULE Indexer ------------------------------
(***************************************************************************)
(* Indexer/src/index.c: for each file, the words are counted in a hash map *)
(* (tokenize_file) and the counts moved to the inverted index, a sorted    *)
(* list of words each with a sorted list of records (index_file); at the   *)
(* end the index is written (write_to_file).                               *)
(*                                                                         *)
(* The hash map is module HashMap, node by node.  A sorted list is the     *)
(* sequence module SortedList keeps, first item first.  A token is an      *)
(* integer, Lower its lower case, both in the order of strcmp; what the    *)
(* tokenizer takes apart is the sequence of a file's tokens.  Files are    *)
(* integers in the order of their names, and come in any order.            *)
(***************************************************************************)
EXTENDS HashMap, Sequences, SequencesExt

CONSTANTS
    Files,
    Tokens,
    Words,      \* the tokens of type WORD
    Lower,      \* the lower case of each of them
    Contents    \* what a file may hold: sequences of tokens

ASSUME IndexAssumption ==
    /\ Files \subseteq Nat /\ Words \subseteq Tokens
    /\ Lower \in [Words -> Keys]
    /\ Contents \subseteq Seq(Tokens)

NoFile == -1

VARIABLES
    content,        \* what each file holds
    todo,           \* files not visited yet
    pc,             \* control of index.c
    file, rest,     \* the file at work, and its tokens not read yet
    indeces,        \* the sorted list of index_t: a token and its records
    written         \* what was written

index == <<content, todo, pc, file, rest, indeces, written>>
vars  == <<index, mapvars>>

Init ==
    /\ InitMap
    /\ content \in [Files -> Contents]
    /\ todo = Files
    /\ pc = "next"
    /\ file = NoFile /\ rest = <<>>
    /\ indeces = <<>>
    /\ written = <<>>

At(here) == pc = here /\ op = "idle"

-----------------------------------------------------------------------------
(* tokenize_file                                                           *)

Visit(f) ==
    /\ At("next")
    /\ f \in todo
    /\ todo' = todo \ {f}
    /\ file' = f /\ rest' = content[f]
    /\ hm_create
    /\ pc' = "token"
    /\ UNCHANGED <<content, indeces, written>>

(* A token that is no word is freed; a word is looked up in lower case.    *)
Skip ==
    /\ At("token") /\ rest # <<>> /\ Head(rest) \notin Words
    /\ rest' = Tail(rest)
    /\ UNCHANGED <<content, todo, pc, file, indeces, written, mapvars>>

LookUp ==
    /\ At("token") /\ rest # <<>> /\ Head(rest) \in Words
    /\ hm_get(Lower[Head(rest)])
    /\ pc' = "count"
    /\ UNCHANGED <<content, todo, file, rest, indeces, written>>

CountFirst ==
    /\ At("count") /\ result = NULL
    /\ hm_store(Lower[Head(rest)], 1)
    /\ rest' = Tail(rest)
    /\ pc' = "token"
    /\ UNCHANGED <<content, todo, file, indeces, written>>

CountAgain ==
    /\ At("count") /\ result # NULL
    /\ value' = [value EXCEPT ![result] = @ + 1]
    /\ rest' = Tail(rest)
    /\ pc' = "token"
    /\ UNCHANGED <<content, todo, file, indeces, written>>
    /\ UNCHANGED <<hm, lists, nodes, key, next, call, iterator>>

-----------------------------------------------------------------------------
(* index_file                                                              *)

Tokenized ==
    /\ At("token") /\ rest = <<>>
    /\ hm_create_iterator
    /\ pc' = "entry"
    /\ UNCHANGED <<content, todo, file, rest, indeces, written>>

NextEntry ==
    /\ At("entry")
    /\ hmi_get_next
    /\ pc' = "record"
    /\ UNCHANGED <<content, todo, file, rest, indeces, written>>

(* compare_record: by count, and by name, the other way, where counts are  *)
(* equal.  compare_index: by token, the other way.  SLInsert passes what   *)
(* is greater than the new item, and drops an equal one.                   *)
RecordAbove(r, s) ==
    \/ r.count > s.count
    \/ r.count = s.count /\ r.file < s.file
(* Mutant: words by strcmp as it is. *)
AboveByName(i, j) == i.token > j.token
IndexAbove(i, j) == i.token < j.token

(* above: where the greater items are.                                     *)
SLInsert(list, x, above) ==
    IF x \in Range(list) THEN list ELSE InsertAt(list, Cardinality(above) + 1, x)

WithRecord(list, r) == SLInsert(list, r, {n \in DOMAIN list : RecordAbove(list[n], r)})
WithIndex(list, i) == SLInsert(list, i, {n \in DOMAIN list : IndexAbove(list[n], i)})

Positions(t) == {n \in DOMAIN indeces : indeces[n].token = t}

(* find_index, then the record is added to its list, or to a new one.      *)
AddRecord ==
    /\ At("record") /\ result # NULL
    /\ LET t == key[result]
           r == [file |-> file, count |-> value[result]]
       IN  indeces' =
             IF Positions(t) = {}
             THEN WithIndex(indeces, [token |-> t, records |-> WithRecord(<<>>, r)])
             ELSE [n \in DOMAIN indeces |->
                     IF n \in Positions(t)
                     THEN [indeces[n] EXCEPT !.records = WithRecord(@, r)]
                     ELSE indeces[n]]
    /\ pc' = "entry"
    /\ UNCHANGED <<content, todo, file, rest, written, mapvars>>

EndFile ==
    /\ At("record") /\ result = NULL
    /\ hm_destroy
    /\ file' = NoFile
    /\ pc' = "next"
    /\ UNCHANGED <<content, todo, rest, indeces, written>>

-----------------------------------------------------------------------------
(* write_to_file, and the list is destroyed.                               *)
Write ==
    /\ At("next") /\ todo = {}
    /\ written' = indeces
    /\ indeces' = <<>>
    /\ pc' = "done"
    /\ UNCHANGED <<content, todo, file, rest, mapvars>>

Done == pc = "done" /\ UNCHANGED vars

IndexStep ==
    \/ \E f \in Files : Visit(f)
    \/ Skip \/ LookUp \/ CountFirst \/ CountAgain
    \/ Tokenized \/ NextEntry \/ AddRecord \/ EndFile \/ Write
    \/ MapStep /\ UNCHANGED index

Next == IndexStep \/ Done

Spec == Init /\ [][Next]_vars

(* The program runs.                                                       *)
FairSpec == Spec /\ WF_vars(IndexStep)
=============================================================================
