---------------------------- MODULE IndexerProofs ----------------------------
(***************************************************************************)
(* What index.c does with its hash map and its inverted index, for any     *)
(* files, tokens, words, hash, buckets and nodes.                          *)
(***************************************************************************)
EXTENDS IndexerProperties, HashMapProofs, FiniteSetTheorems

-----------------------------------------------------------------------------
(* Where a file is at work, and where its map is walked.                   *)
Reading == pc \in {"token", "count"}
Moving  == pc \in {"entry", "record"}

Records == [file : Files, count : Nat]
Entry   == [token : Keys, records : Seq(Records)]

Types ==
    /\ content \in [Files -> Seq(Tokens)] /\ todo \subseteq Files
    /\ rest \in Seq(Tokens)
    /\ pc \in {"next", "token", "count", "entry", "record", "done"}
    /\ IF Reading \/ Moving THEN hm /\ file \in Files \ todo ELSE ~hm /\ file = NoFile
    /\ op # "idle" => <<pc, op>> \in {<<"token", "store">>, <<"count", "get">>, <<"record", "iterate">>}
    /\ pc = "count" => rest # <<>> /\ Head(rest) \in Words
    /\ Moving => rest = <<>>

(* A call that walks a chain has not passed the key it looks for, and a    *)
(* store looks for a key that is not there.                                *)
Walking ==
    op \in {"get", "store"} =>
        /\ arg \in Keys
        /\ curr \in nodes \cup {NULL}
        /\ IF prev = NULL THEN curr = lists[Bucket(arg)]
           ELSE prev \in nodes /\ Home(prev) = Bucket(arg) /\ curr = next[prev]
        /\ \A n \in nodes : key[n] = arg => n \in Chain(curr)
Storing ==
    op = "store" => /\ val = 1 /\ nodes # Nodes
                    /\ \A n \in nodes : key[n] # arg

(* What is looked up is the word that comes next, and what is found is its *)
(* node.                                                                   *)
Looking ==
    pc = "count" =>
        IF op = "get" THEN arg = Lower[Head(rest)]
        ELSE IF result = NULL THEN \A n \in nodes : key[n] # Lower[Head(rest)]
        ELSE result \in nodes /\ key[result] = Lower[Head(rest)]

MapPart == MapInv /\ Types /\ Walking /\ Storing /\ Looking

(* A node's value counts the occurrences read, a store that is under way   *)
(* is the first occurrence of its key.                                     *)
Pending(w) == IF op = "store" /\ arg = w THEN 1 ELSE 0
Counting ==
    Reading \/ Moving =>
        /\ \A n \in nodes :
              /\ value[n] >= 1
              /\ value[n] + Count(key[n], rest) = Count(key[n], content[file])
        /\ \A w \in Keys : (\A n \in nodes : key[n] # w) =>
              Pending(w) + Count(w, rest) = Count(w, content[file])

(* The iterator: what is ahead of it is in a later bucket, or behind its   *)
(* node in its chain.  What is not has been recorded.                      *)
Ahead == {n \in nodes : Home(n) > index_no}
             \cup (Chain(current_node) \ (IF pc = "entry" THEN {current_node} ELSE {}))
Recorded == IF Moving THEN nodes \ Ahead ELSE {}

Iterating ==
    Moving =>
        /\ index_no \in NoBucket .. Size - 1
        /\ current_node \in nodes \cup {NULL}
        /\ current_node # NULL => Home(current_node) = index_no
        /\ pc = "record" /\ op = "idle" =>
              /\ result = current_node
              /\ result = NULL => index_no = Size - 1

(* The index holds the entries of the files that are done, and of the one  *)
(* at work what was recorded; it is in order.                              *)
Holds(list) == UNION {{<<i.token, r.file, r.count>> : r \in Range(i.records)} : i \in Range(list)}
Finished == {e \in Expected : e[3] > 0 /\ e[2] \notin todo /\ e[2] # file}
Moved == {<<key[n], file, value[n]>> : n \in Recorded}
Indexing ==
    /\ indeces \in Seq(Entry) /\ written \in Seq(Entry)
    /\ pc # "done" => /\ written = <<>>
                      /\ Holds(indeces) = Finished \cup Moved
    /\ pc = "done" => Holds(written) = Finished /\ todo = {}
    /\ Ordered(indeces, TokensAscend)
    /\ \A n \in DOMAIN indeces : Ordered(indeces[n].records, CountsDescend)
    /\ IndexIsSorted

IInv == MapPart /\ Counting /\ Iterating /\ Indexing

-----------------------------------------------------------------------------
(* The map, and the calls of index.c                                       *)

LEMMA MapPartStarts == Init => MapPart
<1> SUFFICES ASSUME Init PROVE MapPart
  OBVIOUS
<1>1. MapInv
  BY MapStarts DEF Init
<1>2. Types
  BY IndexAssumption DEF Init, InitMap, Types, Reading, Moving
<1>3. Walking /\ Storing /\ Looking
  BY DEF Init, InitMap, Walking, Storing, Looking
<1> QED
  BY <1>1, <1>2, <1>3 DEF MapPart

(* Between the calls that walk a chain the map stands.                     *)
LEMMA MapStands ==
    ASSUME MapPart, UNCHANGED <<hm, lists, nodes, key, next>>,
           value' \in [Nodes -> Int], op' \notin {"get", "store"}
    PROVE  MapInv' /\ Walking' /\ Storing'
BY ChainsStand DEF MapPart, Walking, Storing

LEMMA LowerIsKey == \A w \in Words : Lower[w] \in Keys
BY IndexAssumption

(* A call begins at the first node of its key's chain.                     *)
LEMMA CallBegins ==
    ASSUME MapPart, NEW what, NEW k \in Keys, NEW v, Call(what, k, v)
    PROVE  MapInv' /\ Walking'
<1>1. /\ UNCHANGED <<memory, iterator>> /\ op' = what /\ arg' = k /\ val' = v
      /\ curr' = lists[Bucket(k)] /\ prev' = NULL
  BY DEF Call
<1>2. MapInv /\ value \in [Nodes -> Int]
  BY DEF MapPart, MapInv, MapTypes
<1>3. MapInv'
  BY <1>1, <1>2, ChainsStand DEF memory
<1>4. Bucket(k) \in Buckets /\ Bucket(k)' = Bucket(k)
  BY BucketInMap DEF Bucket
<1>5. /\ lists[Bucket(k)] \in nodes \cup {NULL}
      /\ \A n \in nodes : key[n] = k => n \in Chain(lists[Bucket(k)])
  BY <1>2, <1>4, Chains DEF Home
<1>6. Chain(curr)' = Chain(lists[Bucket(k)])
  BY <1>1 DEF Chain, memory
<1>7. UNCHANGED <<lists, nodes, key, next>>
  BY <1>1 DEF memory
<1>8. /\ arg' \in Keys /\ curr' \in nodes' \cup {NULL} /\ prev' = NULL
      /\ curr' = lists'[Bucket(arg)']
      /\ \A n \in nodes' : key'[n] = arg' => n \in Chain(curr)'
  BY <1>1, <1>4, <1>5, <1>6, <1>7 DEF Bucket
<1> QED
  BY <1>3, <1>8 DEF Walking

LEMMA VisitKeeps == ASSUME MapPart, NEW f \in Files, Visit(f) PROVE MapPart' /\ nodes' = {}
<1>1. /\ op = "idle" /\ op' = op /\ pc = "next" /\ pc' = "token"
      /\ f \in todo /\ todo' = todo \ {f} /\ file' = f /\ rest' = content[f]
      /\ content' = content /\ hm_create
  BY DEF Visit, At, hm_create, call
<1>2. MapInv' /\ nodes' = {} /\ hm'
  BY <1>1, CreateKeeps DEF MapPart
<1>3. Types'
  BY <1>1, <1>2 DEF MapPart, Types, Reading, Moving
<1> QED
  BY <1>1, <1>2, <1>3 DEF MapPart, Walking, Storing, Looking

LEMMA SkipKeeps == ASSUME MapPart, Skip PROVE MapPart'
<1>1. /\ op = "idle" /\ pc = "token" /\ rest # <<>> /\ rest' = Tail(rest)
      /\ UNCHANGED <<content, todo, pc, file, mapvars>>
  BY DEF Skip, At
<1>2. MapInv' /\ Walking' /\ Storing'
  BY <1>1, MapStands DEF mapvars, memory, call, MapPart, MapInv, MapTypes
<1>3. Types'
  BY <1>1 DEF MapPart, Types, Reading, Moving, mapvars, memory, call
<1> QED
  BY <1>1, <1>2, <1>3 DEF MapPart, Looking

LEMMA LookUpKeeps == ASSUME MapPart, LookUp PROVE MapPart'
<1> DEFINE w == Lower[Head(rest)]
<1>1. /\ op = "idle" /\ pc = "token" /\ rest # <<>> /\ Head(rest) \in Words
      /\ Call("get", w, 0)
      /\ pc' = "count" /\ UNCHANGED <<content, todo, file, rest>>
  BY DEF LookUp, At, hm_get
<1>2. op' = "get" /\ arg' = w /\ hm' = hm
  BY <1>1 DEF Call, memory
<1>3. w \in Keys
  BY <1>1, LowerIsKey
<1>4. MapInv' /\ Walking'
  BY <1>1, <1>3, CallBegins
<1>5. Types'
  BY <1>1, <1>2 DEF MapPart, Types, Reading, Moving
<1>6. Looking' /\ Storing'
  BY <1>1, <1>2 DEF Looking, Storing
<1> QED
  BY <1>4, <1>5, <1>6 DEF MapPart

LEMMA CountFirstKeeps == ASSUME MapPart, CountFirst PROVE MapPart'
<1> DEFINE w == Lower[Head(rest)]
<1>1. /\ op = "idle" /\ pc = "count" /\ rest # <<>> /\ Head(rest) \in Words
      /\ result = NULL /\ nodes # Nodes /\ Call("store", w, 1)
      /\ pc' = "token" /\ rest' = Tail(rest) /\ UNCHANGED <<content, todo, file>>
  BY DEF CountFirst, At, hm_store, MapPart, Types
<1>2. op' = "store" /\ arg' = w /\ val' = 1 /\ UNCHANGED <<hm, nodes, key>>
  BY <1>1 DEF Call, memory
<1>3. w \in Keys
  BY <1>1, LowerIsKey
<1>4. MapInv' /\ Walking'
  BY <1>1, <1>3, CallBegins
<1>5. Types'
  BY <1>1, <1>2 DEF MapPart, Types, Reading, Moving
<1>6. \A n \in nodes : key[n] # w
  BY <1>1 DEF MapPart, Looking
<1>7. Looking' /\ Storing'
  BY <1>1, <1>2, <1>6 DEF Looking, Storing, Nodes
<1> QED
  BY <1>4, <1>5, <1>7 DEF MapPart

LEMMA CountAgainKeeps == ASSUME MapPart, CountAgain PROVE MapPart'
<1>1. /\ op = "idle" /\ pc = "count" /\ rest # <<>> /\ result # NULL
      /\ value' = [value EXCEPT ![result] = @ + 1]
      /\ pc' = "token" /\ rest' = Tail(rest)
      /\ UNCHANGED <<content, todo, file, hm, lists, nodes, key, next, call, iterator>>
  BY DEF CountAgain, At, MapPart, Types
<1>2. result \in nodes /\ value \in [Nodes -> Int] /\ nodes \subseteq Nodes
  BY <1>1 DEF MapPart, Looking, MapInv, MapTypes
<1>3. value' \in [Nodes -> Int]
  <2>1. value[result] + 1 \in Int
    BY <1>2
  <2> QED
    BY <1>1, <1>2, <2>1
<1>4. MapInv' /\ Walking' /\ Storing'
  BY <1>1, <1>3, MapStands DEF call
<1>5. Types'
  BY <1>1 DEF MapPart, Types, Reading, Moving, call
<1> QED
  BY <1>1, <1>4, <1>5 DEF MapPart, Looking

LEMMA TokenizedKeeps == ASSUME MapPart, Tokenized PROVE MapPart'
<1>1. /\ op = "idle" /\ pc = "token" /\ rest = <<>> /\ pc' = "entry"
      /\ UNCHANGED <<content, todo, file, rest, memory, call>>
  BY DEF Tokenized, At, hm_create_iterator
<1>2. MapInv' /\ Walking' /\ Storing'
  BY <1>1, MapStands DEF memory, call, MapPart, MapInv, MapTypes
<1>3. Types'
  BY <1>1 DEF MapPart, Types, Reading, Moving, memory, call
<1> QED
  BY <1>1, <1>2, <1>3 DEF MapPart, Looking

LEMMA NextEntryKeeps == ASSUME MapPart, NextEntry PROVE MapPart'
<1>1. /\ op = "idle" /\ pc = "entry" /\ pc' = "record" /\ op' = "iterate"
      /\ UNCHANGED <<content, todo, file, rest, memory>>
  BY DEF NextEntry, At, hmi_get_next
<1>2. MapInv' /\ Walking' /\ Storing'
  BY <1>1, MapStands DEF memory, MapPart, MapInv, MapTypes
<1>3. Types'
  BY <1>1 DEF MapPart, Types, Reading, Moving, memory
<1> QED
  BY <1>1, <1>2, <1>3 DEF MapPart, Looking

LEMMA AddRecordKeeps == ASSUME MapPart, AddRecord PROVE MapPart'
<1>1. /\ op = "idle" /\ pc = "record" /\ pc' = "entry"
      /\ UNCHANGED <<content, todo, file, rest, mapvars>>
  BY DEF AddRecord, At
<1>2. MapInv' /\ Walking' /\ Storing'
  BY <1>1, MapStands DEF mapvars, memory, call, MapPart, MapInv, MapTypes
<1>3. Types'
  BY <1>1 DEF MapPart, Types, Reading, Moving, mapvars, memory, call
<1> QED
  BY <1>1, <1>2, <1>3 DEF MapPart, Looking

LEMMA EndFileKeeps == ASSUME MapPart, EndFile PROVE MapPart' /\ nodes' = {}
<1>1. /\ op = "idle" /\ op' = op /\ pc = "record" /\ pc' = "next" /\ file' = NoFile
      /\ UNCHANGED <<content, todo, rest>> /\ hm_destroy
  BY DEF EndFile, At, hm_destroy, call
<1>2. MapInv' /\ nodes' = {} /\ ~hm'
  BY <1>1, DestroyKeeps DEF MapPart
<1>3. Types'
  BY <1>1, <1>2 DEF MapPart, Types, Reading, Moving
<1> QED
  BY <1>1, <1>2, <1>3 DEF MapPart, Walking, Storing, Looking

LEMMA WriteKeeps == ASSUME MapPart, Write PROVE MapPart'
<1>1. /\ op = "idle" /\ pc = "next" /\ pc' = "done"
      /\ UNCHANGED <<content, todo, file, rest, mapvars>>
  BY DEF Write, At
<1>2. MapInv' /\ Walking' /\ Storing'
  BY <1>1, MapStands DEF mapvars, memory, call, MapPart, MapInv, MapTypes
<1>3. Types'
  BY <1>1 DEF MapPart, Types, Reading, Moving, mapvars, memory, call
<1> QED
  BY <1>1, <1>2, <1>3 DEF MapPart, Looking

(* A step down the chain leaves a node behind that is not the key's.       *)
LEMMA WalkKeeps == ASSUME MapPart, Walk, UNCHANGED index PROVE MapPart'
<1>1. /\ op \in {"get", "store"} /\ curr # NULL /\ key[curr] # arg
      /\ prev' = curr /\ curr' = next[curr]
      /\ UNCHANGED <<memory, op, arg, val, result, iterator>>
  BY DEF Walk, MapPart, Types
<1>2. UNCHANGED <<hm, lists, nodes, key, value, next>>
  BY <1>1 DEF memory
<1>3. /\ MapInv /\ arg \in Keys /\ curr \in nodes
      /\ IF prev = NULL THEN curr = lists[Bucket(arg)]
         ELSE prev \in nodes /\ Home(prev) = Bucket(arg) /\ curr = next[prev]
      /\ \A n \in nodes : key[n] = arg => n \in Chain(curr)
  BY <1>1 DEF MapPart, Walking
<1>4. curr \in Chain(curr) /\ Chain(curr) = {curr} \cup Chain(next[curr])
      /\ next[curr] \in nodes \cup {NULL}
  BY <1>3, Chains
<1>5. Home(curr) = Bucket(arg)
  <2>1. CASE prev = NULL
    BY <1>3, <1>4, <2>1, BucketInMap, Chains
  <2>2. CASE prev # NULL
    BY <1>3, <1>4, <2>2, Chains
  <2> QED
    BY <2>1, <2>2
<1>6. \A n \in nodes : key[n] = arg => n \in Chain(next[curr])
  BY <1>1, <1>3, <1>4
<1>7. Chain(curr)' = Chain(next[curr])
  BY <1>1, <1>2 DEF Chain
<1>8. MapInv'
  BY <1>2, <1>3, ChainsStand DEF MapInv, MapTypes
<1>9. Home(prev)' = Bucket(arg)'
  BY <1>1, <1>2, <1>5 DEF Home, Bucket
<1>10. /\ arg' \in Keys /\ curr' \in nodes' \cup {NULL}
       /\ prev' # NULL /\ prev' \in nodes' /\ curr' = next'[prev']
       /\ \A n \in nodes' : key'[n] = arg' => n \in Chain(curr)'
  BY <1>1, <1>2, <1>3, <1>4, <1>6, <1>7
<1>11. Walking'
  BY <1>9, <1>10 DEF Walking
<1>12. Storing' /\ Looking' /\ Types'
  BY <1>1, <1>2 DEF MapPart, Storing, Looking, Types, Reading, Moving, index, Nodes
<1> QED
  BY <1>8, <1>11, <1>12 DEF MapPart

(* hm_get finds the node of its key, or there is none.                     *)
LEMMA GotKeeps == ASSUME MapPart, Got, UNCHANGED index PROVE MapPart'
<1>1. /\ op = "get" /\ op' = "idle" /\ result' = curr /\ (Found \/ Missing)
      /\ UNCHANGED <<memory, iterator>>
  BY DEF Got, Return
<1>2. UNCHANGED <<hm, lists, nodes, key, value, next>>
  BY <1>1 DEF memory
<1>3. MapInv' /\ Walking' /\ Storing'
  BY <1>1, <1>2, MapStands DEF MapPart, MapInv, MapTypes
<1>4. Types'
  BY <1>1, <1>2 DEF MapPart, Types, Reading, Moving, index
<1>5. pc = "count" /\ arg = Lower[Head(rest)]
  BY <1>1 DEF MapPart, Types, Looking
<1>6. curr \in nodes \cup {NULL} /\ \A n \in nodes : key[n] = arg => n \in Chain(curr)
  BY <1>1 DEF MapPart, Walking
<1>7. CASE Found
  BY <1>1, <1>2, <1>3, <1>4, <1>5, <1>6, <1>7 DEF MapPart, Looking, Found, index
<1>8. CASE Missing
  <2>1. Chain(curr) = {}
    BY <1>8, Chains DEF Missing, MapPart
  <2> QED
    BY <1>1, <1>2, <1>3, <1>4, <1>5, <1>6, <1>8, <2>1 DEF MapPart, Looking, Missing, index
<1> QED
  BY <1>1, <1>7, <1>8

LEMMA StoreKeeps ==
    ASSUME MapPart, Stored, UNCHANGED index
    PROVE  /\ MapPart'
           /\ \E n \in Nodes \ nodes :
                 /\ nodes' = nodes \cup {n}
                 /\ key' = [key EXCEPT ![n] = arg]
                 /\ value' = [value EXCEPT ![n] = 1]
<1>1. /\ op = "store" /\ curr = NULL /\ op' = "idle" /\ hm' = hm
  BY DEF Stored, Missing, Return
<1>2. /\ MapInv /\ hm /\ nodes # Nodes /\ arg \in Keys /\ val = 1
      /\ \A n \in nodes : key[n] # arg
  BY <1>1 DEF MapPart, Types, Walking, Storing, Reading
<1>3. AtEnd(prev, Bucket(arg))
  BY <1>1 DEF MapPart, Walking, AtEnd
<1>4. /\ MapInv'
      /\ \E n \in Nodes \ nodes :
            /\ nodes' = nodes \cup {n}
            /\ key' = [key EXCEPT ![n] = arg]
            /\ value' = [value EXCEPT ![n] = val]
  BY <1>2, <1>3, StoredKeeps
<1>5. pc = "token"
  BY <1>1 DEF MapPart, Types
<1>6. Types' /\ Walking' /\ Storing' /\ Looking'
  BY <1>1, <1>5 DEF MapPart, Types, Walking, Storing, Looking, Reading, Moving, index
<1> QED
  BY <1>2, <1>4, <1>6 DEF MapPart

LEMMA IterateKeeps == ASSUME MapPart, hmi_get, UNCHANGED index PROVE MapPart'
<1>1. /\ op = "iterate" /\ op' \in {"iterate", "idle"} /\ UNCHANGED memory
  BY DEF hmi_get, Return, call
<1>2. UNCHANGED <<hm, lists, nodes, key, value, next>>
  BY <1>1 DEF memory
<1>3. MapInv' /\ Walking' /\ Storing'
  BY <1>1, <1>2, MapStands DEF MapPart, MapInv, MapTypes
<1>4. pc = "record"
  BY <1>1 DEF MapPart, Types
<1>5. Types' /\ Looking'
  BY <1>1, <1>2, <1>4 DEF MapPart, Types, Looking, Reading, Moving, index
<1> QED
  BY <1>3, <1>5 DEF MapPart

LEMMA MapPartStays == ASSUME MapPart, UNCHANGED vars PROVE MapPart'
<1>1. MapInv'
  BY ChainsStand DEF vars, mapvars, memory, MapPart, MapInv, MapTypes
<1>2. Chain(curr)' = Chain(curr)
  BY DEF Chain, vars, mapvars, memory, call
<1>3. Walking'
  BY <1>2 DEF Walking, MapPart, vars, mapvars, memory, call, Home, Bucket
<1>4. Types' /\ Storing' /\ Looking'
  BY DEF MapPart, Types, Storing, Looking, Reading, Moving,
         vars, index, mapvars, memory, call, Nodes
<1> QED
  BY <1>1, <1>3, <1>4 DEF MapPart

LEMMA MapPartSteps == MapPart /\ [Next]_vars => MapPart'
<1> SUFFICES ASSUME MapPart, [Next]_vars PROVE MapPart'
  OBVIOUS
<1>1. ASSUME NEW f \in Files, Visit(f) PROVE MapPart'
  BY <1>1, VisitKeeps
<1>2. ASSUME MapStep, UNCHANGED index PROVE MapPart'
  BY <1>2, WalkKeeps, GotKeeps, StoreKeeps, IterateKeeps DEF MapStep
<1> QED
  BY <1>1, <1>2, SkipKeeps, LookUpKeeps, CountFirstKeeps, CountAgainKeeps,
     TokenizedKeeps, NextEntryKeeps, AddRecordKeeps, EndFileKeeps, WriteKeeps,
     MapPartStays DEF Next, IndexStep, Done

(* Every node hangs in the chain of its key's bucket, once, and no two     *)
(* hold the same key, whatever collides, at any moment of a run.           *)
THEOREM ChainsStaySound == Spec => []ChainsAreSound
<1>1. Spec => []MapPart
  BY MapPartStarts, MapPartSteps, PTL DEF Spec
<1>2. MapPart => ChainsAreSound
  BY InvIsSound DEF MapPart
<1> QED
  BY <1>1, <1>2, PTL

-----------------------------------------------------------------------------
(* The counts                                                              *)

LEMMA CountNothing == \A w : Count(w, <<>>) = 0
BY FS_EmptySet DEF Count

(* A word occurs in a sequence as often as behind its first token, and     *)
(* once more when that is the word.                                        *)
LEMMA CountOneMore ==
    ASSUME NEW s \in Seq(Tokens), s # <<>>, NEW w
    PROVE  /\ Count(w, Tail(s)) \in Nat
           /\ Count(w, s) = Count(w, Tail(s))
                              + (IF Head(s) \in Words /\ Lower[Head(s)] = w THEN 1 ELSE 0)
<1> DEFINE Is(t) == t \in Words /\ Lower[t] = w
           all == {n \in DOMAIN s : Is(s[n])}
           tail == {n \in DOMAIN Tail(s) : Is(Tail(s)[n])}
           shift == [n \in tail |-> n + 1]
<1>1. /\ Len(s) \in Nat /\ Len(s) >= 1 /\ Head(s) = s[1]
      /\ \A n : n \in DOMAIN s <=> n \in 1 .. Len(s)
      /\ \A n : n \in DOMAIN Tail(s) <=> n \in 1 .. Len(s) - 1
      /\ \A n \in 1 .. Len(s) - 1 : Tail(s)[n] = s[n + 1]
  OBVIOUS
<1>2. /\ \A n : n \in all <=> n \in 1 .. Len(s) /\ Is(s[n])
      /\ \A n : n \in tail <=> n \in 1 .. Len(s) - 1 /\ Is(s[n + 1])
  BY <1>1
<1> HIDE DEF Is, all, tail
<1>3. IsFiniteSet(all) /\ IsFiniteSet(tail)
  <2>1. all \in SUBSET (1 .. Len(s)) /\ tail \in SUBSET (1 .. Len(s))
    BY <1>1, <1>2
  <2>2. IsFiniteSet(1 .. Len(s))
    BY <1>1, FS_Interval
  <2> QED
    BY <2>1, <2>2, FS_Subset
<1>4. shift \in Bijection(tail, all \ {1})
  <2>1. shift \in [tail -> all \ {1}]
    BY <1>1, <1>2
  <2>2. \A m, n \in tail : shift[m] = shift[n] => m = n
    BY <1>1, <1>2
  <2>3. ASSUME NEW n \in all \ {1} PROVE \E m \in tail : shift[m] = n
    <3>1. n - 1 \in 1 .. Len(s) - 1 /\ (n - 1) + 1 = n
      BY <1>1, <1>2
    <3>2. n - 1 \in tail
      BY <1>2, <3>1
    <3> QED
      BY <3>1, <3>2
  <2> HIDE DEF shift
  <2>4. shift \in Injection(tail, all \ {1})
    BY <2>1, <2>2 DEF Injection, IsInjective
  <2>5. shift \in Surjection(tail, all \ {1})
    BY <2>1, <2>3 DEF Surjection
  <2> QED
    BY <2>4, <2>5 DEF Bijection
<1>5. Cardinality(all \ {1}) = Cardinality(tail)
  BY <1>3, <1>4, FS_Bijection DEF ExistsBijection
<1>6. Cardinality(all) \in Nat /\ Cardinality(tail) \in Nat
  BY <1>3, FS_CardinalityType
<1>7. Cardinality(all) = Cardinality(tail) + (IF Is(s[1]) THEN 1 ELSE 0)
  <2>1. 1 \in all <=> Is(s[1])
    BY <1>1, <1>2
  <2>2. Cardinality(all \ {1})
          = IF 1 \in all THEN Cardinality(all) - 1 ELSE Cardinality(all)
    BY <1>3, FS_RemoveElement
  <2> QED
    BY <1>5, <1>6, <2>1, <2>2
<1>8. Count(w, s) = Cardinality(all) /\ Count(w, Tail(s)) = Cardinality(tail)
  BY DEF Count, all, tail, Is
<1> QED
  BY <1>1, <1>6, <1>7, <1>8 DEF Is

LEMMA CountIsNatural == \A s \in Seq(Tokens) : \A w : Count(w, s) \in Nat
<1> SUFFICES ASSUME NEW s \in Seq(Tokens), NEW w PROVE Count(w, s) \in Nat
  OBVIOUS
<1>1. CASE s = <<>>
  BY <1>1, CountNothing
<1>2. CASE s # <<>>
  <2>1. /\ Count(w, Tail(s)) \in Nat
        /\ Count(w, s) = Count(w, Tail(s))
                           + (IF Head(s) \in Words /\ Lower[Head(s)] = w THEN 1 ELSE 0)
    BY <1>2, CountOneMore
  <2> QED
    BY <2>1
<1> QED
  BY <1>1, <1>2

(* A step that moves neither a count nor a token.                          *)
LEMMA CountingStands ==
    ASSUME Counting, UNCHANGED <<nodes, key, value, rest, content, file>>,
           Reading' \/ Moving' => Reading \/ Moving,
           UNCHANGED <<op, arg>> \/ (op # "store" /\ op' # "store")
    PROVE  Counting'
<1>1. \A w : Pending(w)' = Pending(w)
  BY DEF Pending
<1> QED
  BY <1>1 DEF Counting

(* Where the numbers come from.                                            *)
LEMMA CountTypes ==
    ASSUME MapPart
    PROVE  /\ value \in [Nodes -> Int] /\ nodes \subseteq Nodes
           /\ \A w : Count(w, rest) \in Nat /\ Pending(w) \in Nat
           /\ file \in Files => \A w : Count(w, content[file]) \in Nat
<1>1. value \in [Nodes -> Int] /\ nodes \subseteq Nodes
  BY DEF MapPart, MapInv, MapTypes
<1>2. \A w : Count(w, rest) \in Nat
  BY CountIsNatural DEF MapPart, Types
<1>3. \A w : Pending(w) \in Nat
  BY DEF Pending
<1>4. ASSUME file \in Files, NEW w PROVE Count(w, content[file]) \in Nat
  BY <1>4, CountIsNatural DEF MapPart, Types
<1> QED
  BY <1>1, <1>2, <1>3, <1>4

LEMMA VisitCounts == ASSUME MapPart, NEW f \in Files, Visit(f) PROVE Counting'
<1>1. nodes' = {} /\ op' = "idle" /\ rest' = content'[file'] /\ MapPart'
  <2>1. /\ op = "idle" /\ op' = op /\ rest' = content[f] /\ file' = f
        /\ content' = content
    BY DEF Visit, At, hm_create, call
  <2> QED
    BY <2>1, VisitKeeps
<1>2. \A w : Count(w, rest') \in Nat
  BY <1>1, CountIsNatural DEF MapPart, Types
<1>3. \A w : Pending(w)' = 0
  BY <1>1 DEF Pending
<1> QED
  BY <1>1, <1>2, <1>3 DEF Counting

LEMMA SkipCounts == ASSUME MapPart, Counting, Skip PROVE Counting'
<1>1. /\ pc = "token" /\ rest # <<>> /\ Head(rest) \notin Words /\ rest' = Tail(rest)
      /\ UNCHANGED <<content, file, nodes, key, value, op, arg>>
  BY DEF Skip, At, mapvars, memory, call
<1>2. \A w : Count(w, rest) = Count(w, rest')
  <2>1. rest \in Seq(Tokens)
    BY DEF MapPart, Types
  <2>2. ASSUME NEW w PROVE Count(w, rest) = Count(w, rest')
    <3>1. Count(w, Tail(rest)) \in Nat /\ Count(w, rest) = Count(w, Tail(rest)) + 0
      BY <1>1, <2>1, CountOneMore
    <3> QED
      BY <1>1, <3>1
  <2> QED
    BY <2>2
<1>3. \A w : Pending(w)' = Pending(w)
  BY <1>1 DEF Pending
<1>4. /\ \A n \in nodes :
            /\ value[n] >= 1
            /\ value[n] + Count(key[n], rest) = Count(key[n], content[file])
      /\ \A w \in Keys : (\A n \in nodes : key[n] # w) =>
            Pending(w) + Count(w, rest) = Count(w, content[file])
  BY <1>1 DEF Counting, Reading
<1>5. /\ \A n \in nodes' :
            /\ value'[n] >= 1
            /\ value'[n] + Count(key'[n], rest') = Count(key'[n], content'[file'])
      /\ \A w \in Keys : (\A n \in nodes' : key'[n] # w) =>
            Pending(w)' + Count(w, rest') = Count(w, content'[file'])
  BY <1>1, <1>2, <1>3, <1>4
<1> QED
  BY <1>5 DEF Counting

(* The first occurrence is counted by the store that begins, another by    *)
(* the node that was found.                                                *)
LEMMA CountFirstCounts == ASSUME MapPart, Counting, CountFirst PROVE Counting'
<1> DEFINE v == Lower[Head(rest)]
<1>1. /\ pc = "count" /\ op = "idle" /\ result = NULL /\ rest' = Tail(rest)
      /\ rest # <<>> /\ Head(rest) \in Words
      /\ op' = "store" /\ arg' = v
      /\ UNCHANGED <<content, file, nodes, key, value>>
  BY DEF CountFirst, At, hm_store, Call, memory, MapPart, Types
<1>2. \A n \in nodes : key[n] # v
  BY <1>1 DEF MapPart, Looking
<1>3. /\ \A n \in nodes :
            /\ value[n] >= 1
            /\ value[n] + Count(key[n], rest) = Count(key[n], content[file])
      /\ \A w \in Keys : (\A n \in nodes : key[n] # w) =>
            Pending(w) + Count(w, rest) = Count(w, content[file])
  BY <1>1 DEF Counting, Reading
<1>4. \A w : Pending(w) = 0 /\ Pending(w)' = IF v = w THEN 1 ELSE 0
  BY <1>1 DEF Pending
<1> HIDE DEF v
<1>5. \A w : /\ Count(w, rest') \in Nat
             /\ Count(w, rest) = Count(w, rest') + (IF v = w THEN 1 ELSE 0)
  BY <1>1, CountOneMore DEF v, MapPart, Types
<1>6. ASSUME NEW n \in nodes'
      PROVE  /\ value'[n] >= 1
             /\ value'[n] + Count(key'[n], rest') = Count(key'[n], content'[file'])
  <2>1. Count(key[n], rest) = Count(key[n], rest') + 0 /\ Count(key[n], rest') \in Nat
    BY <1>1, <1>2, <1>5
  <2> QED
    BY <1>1, <1>3, <2>1
<1>7. ASSUME NEW w \in Keys, \A n \in nodes' : key'[n] # w
      PROVE  Pending(w)' + Count(w, rest') = Count(w, content'[file'])
  <2>1. Pending(w) + Count(w, rest) = Count(w, content[file])
    BY <1>1, <1>3, <1>7
  <2>2. /\ Count(w, rest) = Count(w, rest') + Pending(w)' /\ Pending(w) = 0
        /\ Count(w, rest') \in Nat /\ Pending(w)' \in Nat
    BY <1>4, <1>5
  <2>3. Pending(w)' + Count(w, rest') = Count(w, content[file])
    BY <2>1, <2>2
  <2> QED
    BY <1>1, <2>3
<1> QED
  BY <1>6, <1>7 DEF Counting

LEMMA CountAgainCounts == ASSUME MapPart, Counting, CountAgain PROVE Counting'
<1> DEFINE v == Lower[Head(rest)]
<1>1. /\ pc = "count" /\ op = "idle" /\ result # NULL /\ rest' = Tail(rest)
      /\ rest # <<>> /\ Head(rest) \in Words
      /\ value' = [value EXCEPT ![result] = @ + 1]
      /\ UNCHANGED <<content, file, nodes, key, op, arg>>
  BY DEF CountAgain, At, call, MapPart, Types
<1>2. /\ result \in nodes /\ key[result] = v
      /\ \A m, n \in nodes : key[m] = key[n] => m = n
  BY <1>1 DEF MapPart, Looking, MapInv
<1>3. /\ \A n \in nodes :
            /\ value[n] >= 1
            /\ value[n] + Count(key[n], rest) = Count(key[n], content[file])
      /\ \A w \in Keys : (\A n \in nodes : key[n] # w) =>
            Pending(w) + Count(w, rest) = Count(w, content[file])
  BY <1>1 DEF Counting, Reading
<1>4. \A w : Pending(w) = 0 /\ Pending(w)' = 0
  BY <1>1 DEF Pending
<1> HIDE DEF v
<1>5. \A w : /\ Count(w, rest') \in Nat
             /\ Count(w, rest) = Count(w, rest') + (IF v = w THEN 1 ELSE 0)
  BY <1>1, CountOneMore DEF v, MapPart, Types
<1>6. ASSUME NEW n \in nodes'
      PROVE  /\ value'[n] >= 1
             /\ value'[n] + Count(key'[n], rest') = Count(key'[n], content'[file'])
  <2>1. n \in nodes /\ value \in [Nodes -> Int] /\ n \in Nodes
    BY <1>1, CountTypes
  <2>2. CASE n = result
    <3>1. value'[n] = value[n] + 1 /\ value[n] \in Int
      BY <1>1, <2>1, <2>2
    <3>2. Count(key[n], rest) = Count(key[n], rest') + 1 /\ Count(key[n], rest') \in Nat
      BY <1>2, <1>5, <2>2
    <3>3. value[n] >= 1 /\ value[n] + Count(key[n], rest) = Count(key[n], content[file])
      BY <1>3, <2>1
    <3>4. value'[n] >= 1 /\ value'[n] + Count(key[n], rest') = Count(key[n], content[file])
      BY <3>1, <3>2, <3>3
    <3> QED
      BY <1>1, <3>4
  <2>3. CASE n # result
    <3>1. value'[n] = value[n] /\ key[n] # v
      BY <1>1, <1>2, <2>1, <2>3
    <3>2. Count(key[n], rest) = Count(key[n], rest') + 0 /\ Count(key[n], rest') \in Nat
      BY <1>5, <3>1
    <3> QED
      BY <1>1, <1>3, <2>1, <3>1, <3>2
  <2> QED
    BY <2>2, <2>3
<1>7. ASSUME NEW w \in Keys, \A n \in nodes' : key'[n] # w
      PROVE  Pending(w)' + Count(w, rest') = Count(w, content'[file'])
  <2>1. Pending(w) + Count(w, rest) = Count(w, content[file]) /\ w # v
    BY <1>1, <1>2, <1>3, <1>7
  <2>2. Count(w, rest) = Count(w, rest') + 0 /\ Count(w, rest') \in Nat
    BY <1>5, <2>1
  <2> QED
    BY <1>1, <1>4, <2>1, <2>2
<1> QED
  BY <1>6, <1>7 DEF Counting

LEMMA StoredCounts == ASSUME MapPart, Counting, Stored, UNCHANGED index PROVE Counting'
<1>1. /\ op = "store" /\ op' = "idle" /\ pc = "token"
      /\ UNCHANGED <<pc, rest, content, file>>
  BY DEF Stored, Return, index, MapPart, Types
<1>2. PICK n \in Nodes \ nodes : /\ nodes' = nodes \cup {n}
                                 /\ key' = [key EXCEPT ![n] = arg]
                                 /\ value' = [value EXCEPT ![n] = 1]
  BY StoreKeeps
<1>3. /\ \A m \in nodes :
            /\ value[m] >= 1
            /\ value[m] + Count(key[m], rest) = Count(key[m], content[file])
      /\ \A w \in Keys : (\A m \in nodes : key[m] # w) =>
            Pending(w) + Count(w, rest) = Count(w, content[file])
  BY <1>1 DEF Counting, Reading
<1>4. /\ arg \in Keys /\ \A m \in nodes : key[m] # arg /\ m \in Nodes
      /\ key \in [Nodes -> Keys \cup {NoKey}] /\ value \in [Nodes -> Int]
  BY <1>1 DEF MapPart, MapInv, MapTypes, Walking, Storing
<1>5. /\ key'[n] = arg /\ value'[n] = 1
      /\ \A m \in nodes : key'[m] = key[m] /\ value'[m] = value[m]
  BY <1>2, <1>4
<1>6. \A w : Pending(w)' = 0 /\ Pending(w) = IF arg = w THEN 1 ELSE 0
  BY <1>1 DEF Pending
<1>7. 1 + Count(arg, rest) = Count(arg, content[file])
  BY <1>3, <1>4, <1>6
<1>8. \A m \in nodes' :
         /\ value'[m] >= 1
         /\ value'[m] + Count(key'[m], rest') = Count(key'[m], content'[file'])
  BY <1>1, <1>2, <1>3, <1>5, <1>7
<1>9. \A w \in Keys : (\A m \in nodes' : key'[m] # w) =>
         Pending(w)' + Count(w, rest') = Count(w, content'[file'])
  BY <1>1, <1>2, <1>3, <1>5, <1>6
<1> QED
  BY <1>8, <1>9 DEF Counting

LEMMA CountingSteps == MapPart /\ Counting /\ [Next]_vars => Counting'
<1> SUFFICES ASSUME MapPart, Counting, [Next]_vars PROVE Counting'
  OBVIOUS
<1> USE DEF memory, call, iterator, At
<1>1. ASSUME NEW f \in Files, Visit(f) PROVE Counting'
  BY <1>1, VisitCounts
<1>2. CASE LookUp
  BY <1>2, CountingStands DEF LookUp, hm_get, Call, Reading
<1>3. CASE Tokenized
  BY <1>3, CountingStands DEF Tokenized, hm_create_iterator, Reading
<1>4. CASE NextEntry
  BY <1>4, CountingStands DEF NextEntry, hmi_get_next, Moving
<1>5. CASE AddRecord
  BY <1>5, CountingStands DEF AddRecord, mapvars, Moving
<1>6. CASE EndFile \/ Write
  <2>1. ~Reading' /\ ~Moving'
    BY <1>6 DEF EndFile, Write, Reading, Moving
  <2> QED
    BY <2>1 DEF Counting
<1>7. CASE Walk /\ UNCHANGED index
  BY <1>7, CountingStands DEF Walk, index, Reading, Moving
<1>8. CASE Got /\ UNCHANGED index
  BY <1>8, CountingStands DEF Got, Return, index, Reading, Moving
<1>9. CASE hmi_get /\ UNCHANGED index
  BY <1>9, CountingStands DEF hmi_get, Return, index, Reading, Moving
<1>10. CASE UNCHANGED vars
  BY <1>10, CountingStands DEF vars, index, mapvars, Reading, Moving
<1> QED
  BY <1>1, <1>2, <1>3, <1>4, <1>5, <1>6, <1>7, <1>8, <1>9, <1>10,
     SkipCounts, CountFirstCounts, CountAgainCounts, StoredCounts
     DEF Next, IndexStep, MapStep, Done

(* While a file is read, what its map counts and what is still to read add *)
(* up to what the file holds, for every word: at every step, and for any   *)
(* collisions of the hash.                                                 *)
THEOREM CountsStayExact == Spec => []CountsAreExact
<1>1. Init => MapPart /\ Counting
  BY MapPartStarts DEF Init, Counting, Reading, Moving
<1>2. Spec => [](MapPart /\ Counting)
  BY <1>1, MapPartSteps, CountingSteps, PTL DEF Spec
<1>3. ASSUME MapPart, Counting PROVE CountsAreExact
  <2> SUFFICES ASSUME Reading, op = "idle", NEW w \in Keys
               PROVE  Counted(w) + Count(w, rest) = Count(w, content[file])
    BY DEF CountsAreExact, Reading
  <2>1. /\ \A n \in nodes : value[n] + Count(key[n], rest) = Count(key[n], content[file])
        /\ (\A n \in nodes : key[n] # w) =>
              Pending(w) + Count(w, rest) = Count(w, content[file])
    BY <1>3 DEF Counting
  <2>2. CASE \E n \in nodes : key[n] = w
    <3>1. PICK n \in nodes : n = CHOOSE m \in nodes : key[m] = w
      BY <2>2
    <3>2. key[n] = w /\ Counted(w) = value[n]
      BY <2>2, <3>1 DEF Counted
    <3> QED
      BY <2>1, <3>2
  <2>3. CASE \A n \in nodes : key[n] # w
    <3>1. Pending(w) = 0 /\ Counted(w) = 0
      BY <2>3 DEF Pending, Counted
    <3> QED
      BY <2>1, <2>3, <3>1
  <2> QED
    BY <2>2, <2>3
<1> QED
  BY <1>2, <1>3, PTL

-----------------------------------------------------------------------------
(* The iterator                                                            *)

(* It begins before the first bucket.                                      *)
LEMMA TokenizedWalks ==
    ASSUME MapPart, Tokenized
    PROVE  Iterating' /\ Recorded' = {} /\ Recorded = {}
<1>1. /\ pc = "token" /\ pc' = "entry" /\ index_no' = NoBucket /\ current_node' = NULL
      /\ UNCHANGED <<lists, nodes, key, next>> /\ MapPart'
  BY TokenizedKeeps DEF Tokenized, At, hm_create_iterator, memory
<1>2. Iterating'
  BY <1>1, MapAssumption DEF Iterating, Moving, NoBucket
<1>3. \A n \in nodes' : Home(n)' > index_no'
  <2>1. \A n \in nodes' : Home(n)' \in Buckets
    BY <1>1, BucketInMap DEF MapPart, MapInv, MapTypes, Home, Bucket
  <2> QED
    BY <1>1, <2>1, MapAssumption DEF Buckets, NoBucket
<1>4. Recorded' = {}
  BY <1>3 DEF Recorded, Ahead
<1> QED
  BY <1>1, <1>2, <1>4 DEF Recorded, Moving

(* hmi_get_next leaves the node that was recorded.                         *)
LEMMA NextEntryWalks ==
    ASSUME MapPart, Iterating, NextEntry
    PROVE  Iterating' /\ Recorded' = Recorded
<1>1. /\ pc = "entry" /\ pc' = "record" /\ op' = "iterate"
      /\ current_node' = NextNode(current_node) /\ index_no' = index_no
      /\ UNCHANGED <<lists, nodes, key, next>> /\ MapInv
  BY DEF NextEntry, At, hmi_get_next, memory, MapPart
<1>2. /\ index_no \in NoBucket .. Size - 1 /\ current_node \in nodes \cup {NULL}
      /\ current_node # NULL => Home(current_node) = index_no
  BY <1>1 DEF Iterating, Moving
<1>3. PICK c, d : c = current_node /\ d = current_node'
  OBVIOUS
<1>4. /\ Chain(d) = Chain(c) \ {c} /\ d \in nodes \cup {NULL}
      /\ d # NULL => Home(d) = index_no
  <2>1. CASE c = NULL
    BY <1>1, <1>2, <1>3, <2>1, Chains DEF NextNode
  <2>2. CASE c # NULL
    <3>1. /\ c \in nodes /\ d = next[c] /\ Home(c) = index_no
      BY <1>1, <1>2, <1>3, <2>2 DEF NextNode
    <3>2. /\ d \in nodes \cup {NULL} /\ c \notin Chain(d) /\ Chain(c) = {c} \cup Chain(d)
          /\ \A m \in Chain(c) : Home(m) = Home(c)
      BY <1>1, <3>1, Chains
    <3>3. d # NULL => d \in Chain(d)
      BY <1>1, <3>2, Chains
    <3> QED
      BY <3>1, <3>2, <3>3
  <2> QED
    BY <2>1, <2>2
<1>5. Chain(d)' = Chain(d) /\ \A n : Home(n)' = Home(n)
  BY <1>1 DEF Chain, Home, Bucket
<1>6. Iterating'
  BY <1>1, <1>2, <1>3, <1>4, <1>5 DEF Iterating, Moving
<1>7. Ahead = {n \in nodes : Home(n) > index_no} \cup (Chain(c) \ {c})
  BY <1>1, <1>3 DEF Ahead
<1>8. Ahead' = {n \in nodes : Home(n) > index_no} \cup Chain(d)
  BY <1>1, <1>3, <1>5 DEF Ahead
<1> QED
  BY <1>1, <1>4, <1>6, <1>7, <1>8 DEF Recorded, Moving

(* hmi_get goes on to the next bucket that is not empty.                   *)
LEMMA IterateWalks ==
    ASSUME MapPart, Iterating, hmi_get, UNCHANGED index
    PROVE  Iterating' /\ Recorded' = Recorded
<1>1. /\ op = "iterate" /\ pc = "record" /\ pc' = "record" /\ MapInv
      /\ UNCHANGED <<hm, lists, nodes, key, next>>
  BY DEF hmi_get, memory, index, MapPart, Types
<1>2. /\ index_no \in NoBucket .. Size - 1 /\ current_node \in nodes \cup {NULL}
      /\ current_node # NULL => Home(current_node) = index_no
  BY <1>1 DEF Iterating, Moving
<1>3. \A n : Home(n)' = Home(n)
  BY <1>1 DEF Home, Bucket
<1>4. CASE current_node = NULL /\ index_no # Size - 1
  <2>1. /\ index_no' = index_no + 1 /\ current_node' = lists[index_no + 1] /\ op' = op
    BY <1>4 DEF hmi_get, call
  <2>2. PICK b : b = index_no + 1
    OBVIOUS
  <2>3. b \in Buckets /\ b \in NoBucket .. Size - 1 /\ index_no \in Int
    BY <1>2, <1>4, <2>2, MapAssumption DEF Buckets, NoBucket
  <2>4. PICK d : d = lists[b]
    OBVIOUS
  <2>5. d \in nodes \cup {NULL} /\ Chain(d) = {n \in nodes : Home(n) = b}
    BY <1>1, <2>3, <2>4, Chains
  <2>6. d # NULL => Home(d) = b
    <3>1. d # NULL => d \in Chain(d)
      BY <1>1, <2>5, Chains
    <3> QED
      BY <2>5, <3>1
  <2>7. Chain(d)' = Chain(d)
    BY <1>1 DEF Chain
  <2>8. Chain(current_node) = {}
    BY <1>1, <1>4, Chains
  <2>9. Iterating'
    BY <1>1, <1>3, <2>1, <2>2, <2>3, <2>4, <2>5, <2>6 DEF Iterating, Moving
  <2>10. \A n \in nodes : Home(n) \in Int
    BY <1>1, BucketInMap DEF MapInv, MapTypes, Home, Buckets
  <2>11. Ahead = {n \in nodes : Home(n) > index_no}
    BY <1>1, <2>8 DEF Ahead
  <2>12. Ahead' = {n \in nodes : Home(n) > b} \cup Chain(d)
    BY <1>1, <1>3, <2>1, <2>2, <2>4, <2>7 DEF Ahead
  <2>13. Ahead' = Ahead
    BY <2>2, <2>3, <2>5, <2>10, <2>11, <2>12
  <2> QED
    BY <1>1, <2>9, <2>13 DEF Recorded, Moving
<1>5. CASE ~(current_node = NULL /\ index_no # Size - 1)
  <2>1. /\ op' = "idle" /\ result' = current_node /\ UNCHANGED <<index_no, current_node>>
    BY <1>5 DEF hmi_get, Return, iterator
  <2>2. Chain(current_node)' = Chain(current_node)
    BY <1>1, <2>1 DEF Chain
  <2>3. Home(current_node)' = Home(current_node)
    BY <1>1, <2>1 DEF Home, Bucket
  <2>4. Iterating'
    BY <1>1, <1>2, <1>5, <2>1, <2>3 DEF Iterating, Moving
  <2>5. Ahead' = Ahead
    BY <1>1, <1>3, <2>1, <2>2 DEF Ahead
  <2> QED
    BY <1>1, <2>4, <2>5 DEF Recorded, Moving
<1> QED
  BY <1>4, <1>5

(* The node that was returned is recorded, and was not before.             *)
LEMMA AddRecordWalks ==
    ASSUME MapPart, Iterating, AddRecord
    PROVE  Iterating' /\ result \in nodes /\ Recorded' = Recorded \cup {result}
<1>1. /\ pc = "record" /\ op = "idle" /\ pc' = "entry" /\ result # NULL /\ MapInv
      /\ UNCHANGED <<mapvars, memory, op, result, index_no, current_node>>
      /\ UNCHANGED <<lists, nodes, key, next>>
  BY DEF AddRecord, At, mapvars, memory, call, iterator, MapPart
<1>2. /\ index_no \in NoBucket .. Size - 1 /\ result = current_node
      /\ result \in nodes /\ Home(result) = index_no
  BY <1>1 DEF Iterating, Moving
<1>3. PICK c : c = result
  OBVIOUS
<1>4. \A n : Home(n)' = Home(n)
  BY <1>1 DEF Home, Bucket
<1>5. Chain(c)' = Chain(c) /\ c \in Chain(c) /\ index_no \in Int
  BY <1>1, <1>2, <1>3, Chains DEF Chain
<1>6. Iterating'
  BY <1>1, <1>2, <1>3, <1>4 DEF Iterating, Moving
<1>7. Ahead = {n \in nodes : Home(n) > index_no} \cup Chain(c)
  BY <1>1, <1>2, <1>3 DEF Ahead
<1>8. Ahead' = {n \in nodes : Home(n) > index_no} \cup (Chain(c) \ {c})
  BY <1>1, <1>2, <1>3, <1>4, <1>5 DEF Ahead
<1>9. ~(Home(c) > index_no)
  BY <1>2, <1>3, <1>5
<1>10. Ahead' = Ahead \ {c}
  BY <1>7, <1>8, <1>9
<1> QED
  BY <1>1, <1>2, <1>3, <1>5, <1>6, <1>7, <1>10 DEF Recorded, Moving

(* When no node is left, all of them are recorded.                         *)
LEMMA EndFileWalks ==
    ASSUME MapPart, Iterating, EndFile
    PROVE  Iterating' /\ Recorded = nodes /\ Recorded' = {}
<1>1. /\ pc = "record" /\ op = "idle" /\ pc' = "next" /\ result = NULL /\ MapInv
  BY DEF EndFile, At, MapPart
<1>2. current_node = NULL /\ index_no = Size - 1
  BY <1>1 DEF Iterating, Moving
<1>3. \A n \in nodes : ~(Home(n) > index_no)
  <2>1. \A n \in nodes : Home(n) \in Buckets
    BY <1>1, BucketInMap DEF MapInv, MapTypes, Home
  <2> QED
    BY <1>2, <2>1, MapAssumption DEF Buckets
<1>4. Ahead = {}
  BY <1>1, <1>2, <1>3, Chains DEF Ahead
<1> QED
  BY <1>1, <1>4 DEF Iterating, Recorded, Moving

(* Elsewhere nothing is being moved.                                       *)
LEMMA ElsewhereWalks == ~Moving /\ ~Moving' => Iterating' /\ Recorded = {} /\ Recorded' = {}
BY DEF Iterating, Recorded

LEMMA StayWalks ==
    ASSUME Iterating, UNCHANGED vars PROVE Iterating' /\ Recorded' = Recorded
<1> USE DEF vars, index, mapvars, memory, call, iterator
<1>1. Chain(current_node)' = Chain(current_node) /\ Home(current_node)' = Home(current_node)
  BY DEF Chain, Home, Bucket
<1>2. \A n : Home(n)' = Home(n)
  BY DEF Home, Bucket
<1>3. Ahead' = Ahead
  BY <1>1, <1>2 DEF Ahead
<1> QED
  BY <1>1, <1>3 DEF Iterating, Recorded, Moving

-----------------------------------------------------------------------------
(* The sorted lists                                                        *)

(* Some items of a list that come first in it; a list with an item put     *)
(* behind k others; and, for a relation as a set of pairs: it is           *)
(* transitive, a list is in strict order, an item is before or after every *)
(* one of a list, and where those are that are before it.                  *)
First(above, s) ==
    /\ above \subseteq DOMAIN s
    /\ \A m \in above : \A n \in DOMAIN s : n <= m => n \in above
With(x, k, s, t) ==
    /\ Len(t) = Len(s) + 1
    /\ \A n \in 1 .. k : t[n] = s[n]
    /\ t[k + 1] = x
    /\ \A n \in k + 1 .. Len(s) : t[n + 1] = s[n]
TransitiveOn(R, S) ==
    \A p, q, r \in S : <<p, q>> \in R /\ <<q, r>> \in R => <<p, r>> \in R
InOrder(s, R) == \A m, n \in DOMAIN s : m < n => <<s[m], s[n]>> \in R
Apart(x, s, R) == \A n \in DOMAIN s : <<s[n], x>> \in R \/ <<x, s[n]>> \in R
Before(x, s, R) == {n \in DOMAIN s : <<s[n], x>> \in R}

(* Where the greater items come first, the new one is put behind them, and *)
(* the others move up.                                                     *)
LEMMA Inserting ==
    ASSUME NEW S, NEW s \in Seq(S), NEW x \in S, NEW above, First(above, s),
           NEW t, t = InsertAt(s, Cardinality(above) + 1, x)
    PROVE  /\ t \in Seq(S)
           /\ \E k \in 0 .. Len(s) : above = 1 .. k /\ With(x, k, s, t)
<1>1. Len(s) \in Nat /\ \A n : n \in DOMAIN s <=> n \in 1 .. Len(s)
  OBVIOUS
<1>2. /\ above \subseteq DOMAIN s
      /\ \A m \in above : \A n \in DOMAIN s : n <= m => n \in above
  BY DEF First
<1> DEFINE T == {i \in Nat : i >= 1 /\ i \notin above}
<1>3. Len(s) + 1 \in T
  BY <1>1, <1>2
<1>4. PICK p \in T : \A i \in T : p <= i
  BY <1>3, LeastNatural
<1>5. PICK k \in 0 .. Len(s) : p = k + 1
  <2>1. p - 1 \in 0 .. Len(s) /\ p = (p - 1) + 1
    BY <1>1, <1>3, <1>4
  <2> QED
    BY <2>1
<1>6. above = 1 .. k
  <2>1. ASSUME NEW i \in 1 .. k PROVE i \in above
    <3>1. i \in Nat /\ i >= 1 /\ ~(p <= i)
      BY <1>1, <1>5
    <3> QED
      BY <1>4, <3>1
  <2>2. ASSUME NEW i \in above PROVE i \in 1 .. k
    <3>1. i \in 1 .. Len(s)
      BY <1>1, <1>2
    <3>2. p <= i => p \in DOMAIN s /\ p \notin above
      BY <1>1, <1>2, <1>4, <3>1
    <3>3. ~(p <= i)
      BY <1>2, <3>2
    <3> QED
      BY <1>1, <1>5, <3>1, <3>3
  <2> QED
    BY <2>1, <2>2
<1>7. Cardinality(above) = k
  <2>1. k \in Nat
    BY <1>1
  <2> QED
    BY <1>6, <2>1, FS_Interval
<1> DEFINE a == SubSeq(s, 1, k)
           b == SubSeq(s, k + 1, Len(s))
           c == a \o <<x>>
           u == c \o b
<1>8. /\ a \in Seq(S) /\ Len(a) = k /\ \A n \in 1 .. k : a[n] = s[n]
      /\ b \in Seq(S) /\ Len(b) = Len(s) - k
      /\ \A n \in 1 .. Len(s) - k : b[n] = s[k + n]
  BY <1>1
<1>9. InsertAt(s, k + 1, x) = u
  <2>1. (k + 1) - 1 = k
    BY <1>1
  <2> QED
    BY <2>1 DEF InsertAt
<1> HIDE DEF a, b
<1>10. /\ c \in Seq(S) /\ Len(c) = k + 1
       /\ \A n \in 1 .. k : c[n] = a[n]
       /\ c[k + 1] = x
  BY <1>8, x \in S, k \in Nat
<1> HIDE DEF c
<1>11. /\ u \in Seq(S) /\ Len(u) = k + 1 + Len(b)
       /\ \A n \in 1 .. k + 1 : u[n] = c[n]
       /\ \A n \in 1 .. Len(b) : u[k + 1 + n] = b[n]
  <2>1. c \in Seq(S) /\ b \in Seq(S) /\ Len(c) = k + 1 /\ k \in Nat
    BY <1>8, <1>10
  <2>2. u \in Seq(S) /\ Len(u) = Len(c) + Len(b) /\ Len(b) \in Nat
    BY ONLY <2>1, SMTT(30)
  <2>3. \A n \in 1 .. Len(c) : u[n] = c[n]
    BY ONLY <2>1
  <2>4. \A n \in 1 .. Len(b) : u[Len(c) + n] = b[n]
    BY ONLY <2>1, SMTT(30)
  <2> QED
    BY ONLY <2>1, <2>2, <2>3, <2>4
<1> HIDE DEF u
<1>12. Len(u) = Len(s) + 1 /\ u[k + 1] = x /\ \A n \in 1 .. k : u[n] = s[n]
  <2>1. Len(u) = Len(s) + 1
    BY ONLY <1>1, <1>8, <1>11, k \in 0 .. Len(s)
  <2>2. \A n \in 1 .. k + 1 : u[n] = c[n]
    BY <1>11
  <2>3. k \in Nat /\ k + 1 \in 1 .. k + 1 /\ \A n \in 1 .. k : n \in 1 .. k + 1
    BY <1>1
  <2>4. u[k + 1] = x /\ \A n \in 1 .. k : u[n] = s[n]
    BY ONLY <1>8, <1>10, <2>2, <2>3
  <2> QED
    BY <2>1, <2>4
<1>13. ASSUME NEW n \in k + 1 .. Len(s) PROVE u[n + 1] = s[n]
  <2>1. n - k \in 1 .. Len(b) /\ k + (n - k) = n /\ n + 1 = k + 1 + (n - k)
    BY <1>1, <1>8
  <2>2. u[k + 1 + (n - k)] = b[n - k] /\ b[n - k] = s[k + (n - k)]
    BY <1>8, <1>11, <2>1
  <2> QED
    BY <2>1, <2>2
<1>14. t = u
  BY <1>7, <1>9
<1> QED
  <2>1. With(x, k, s, t)
    BY ONLY <1>12, <1>13, <1>14 DEF With
  <2> QED
    BY ONLY <1>6, <1>11, <1>14, <2>1, k \in 0 .. Len(s)

(* An item that comes before or after every other one of a list in strict  *)
(* order is put where the order stays strict.                              *)
LEMMA InsertingInOrder ==
    ASSUME NEW S, NEW s \in Seq(S), NEW x \in S, NEW R,
           TransitiveOn(R, S), InOrder(s, R), Apart(x, s, R),
           NEW t, t = InsertAt(s, Cardinality(Before(x, s, R)) + 1, x)
    PROVE  t \in Seq(S) /\ Range(t) = Range(s) \cup {x} /\ InOrder(t, R)
<1> DEFINE above == Before(x, s, R)
<1>1. /\ Len(s) \in Nat /\ \A n : n \in DOMAIN s <=> n \in 1 .. Len(s)
      /\ \A n \in 1 .. Len(s) : s[n] \in S
  OBVIOUS
<1>2. \A n : n \in above <=> n \in DOMAIN s /\ <<s[n], x>> \in R
  BY DEF Before
<1>3. \A m, n \in DOMAIN s : m < n => <<s[m], s[n]>> \in R
  BY DEF InOrder
<1> HIDE DEF above
<1>4. First(above, s)
  <2>1. ASSUME NEW m \in above, NEW n \in DOMAIN s, n <= m PROVE n \in above
    <3>1. m \in DOMAIN s /\ <<s[m], x>> \in R
      BY <1>2
    <3>2. CASE n = m
      BY <3>2
    <3>3. CASE n # m
      <4>1. n < m
        BY <1>1, <2>1, <3>1, <3>3
      <4>2. <<s[n], s[m]>> \in R /\ s[n] \in S /\ s[m] \in S
        BY <1>1, <1>3, <3>1, <4>1
      <4>3. <<s[n], x>> \in R
        BY <3>1, <4>2 DEF TransitiveOn
      <4> QED
        BY <1>2, <4>3
    <3> QED
      BY <3>2, <3>3
  <2>2. above \subseteq DOMAIN s
    BY <1>2
  <2> QED
    BY ONLY <2>1, <2>2 DEF First
<1>5. PICK k \in 0 .. Len(s) :
         /\ t \in Seq(S) /\ above = 1 .. k
         /\ Len(t) = Len(s) + 1
         /\ \A n \in 1 .. k : t[n] = s[n]
         /\ t[k + 1] = x
         /\ \A n \in k + 1 .. Len(s) : t[n + 1] = s[n]
  <2>1. /\ t \in Seq(S)
        /\ \E k \in 0 .. Len(s) : above = 1 .. k /\ With(x, k, s, t)
    BY <1>4, Inserting DEF above
  <2> QED
    BY <2>1 DEF With
<1>6. \A n : n \in DOMAIN t <=> n \in 1 .. Len(s) + 1
  BY <1>5
<1>7. \A n \in 1 .. k : <<s[n], x>> \in R
  BY <1>2, <1>5
<1>8. \A n \in k + 1 .. Len(s) : <<x, s[n]>> \in R
  <2>1. ASSUME NEW n \in k + 1 .. Len(s) PROVE <<x, s[n]>> \in R
    <3>1. n \in DOMAIN s /\ n \notin above
      BY <1>1, <1>5
    <3> QED
      BY <1>2, <3>1 DEF Apart
  <2> QED
    BY <2>1
<1>9. Range(t) = Range(s) \cup {x}
  <2>1. ASSUME NEW n \in DOMAIN s PROVE \E m \in DOMAIN t : t[m] = s[n]
    <3>1. CASE n <= k
      <4>1. n \in 1 .. k /\ n \in DOMAIN t
        BY <1>1, <1>6, <3>1
      <4> QED
        BY <1>5, <4>1
    <3>2. CASE ~(n <= k)
      <4>1. n \in 1 .. Len(s)
        BY <1>1
      <4>2. n \in k + 1 .. Len(s) /\ n + 1 \in 1 .. Len(s) + 1
        BY ONLY <1>1, <3>2, <4>1, k \in 0 .. Len(s)
      <4>3. n + 1 \in DOMAIN t
        BY <1>6, <4>2
      <4> QED
        BY <1>5, <4>2, <4>3
    <3> QED
      BY <3>1, <3>2
  <2>2. k + 1 \in DOMAIN t /\ t[k + 1] = x
    BY <1>1, <1>5, <1>6
  <2>3. ASSUME NEW m \in DOMAIN t PROVE t[m] = x \/ \E n \in DOMAIN s : t[m] = s[n]
    <3>1. CASE m <= k
      <4>1. m \in 1 .. Len(s) + 1
        BY <1>6
      <4>2. m \in 1 .. k /\ m \in 1 .. Len(s)
        BY ONLY <1>1, <3>1, <4>1, k \in 0 .. Len(s)
      <4>3. m \in DOMAIN s
        BY <1>1, <4>2
      <4> QED
        BY <1>5, <4>2, <4>3
    <3>2. CASE m = k + 1
      BY <1>5, <3>2
    <3>3. CASE ~(m <= k) /\ m # k + 1
      <4>1. m \in 1 .. Len(s) + 1
        BY <1>6
      <4>2. m - 1 \in k + 1 .. Len(s) /\ (m - 1) + 1 = m /\ m - 1 \in 1 .. Len(s)
        BY ONLY <1>1, <3>3, <4>1, k \in 0 .. Len(s)
      <4>3. m - 1 \in DOMAIN s
        BY <1>1, <4>2
      <4>4. t[m] = s[m - 1]
        BY <1>5, <4>2
      <4> QED
        BY <4>3, <4>4
    <3> QED
      BY <3>1, <3>2, <3>3
  <2>4. ASSUME NEW y PROVE y \in Range(t) <=> y \in Range(s) \cup {x}
    BY ONLY <2>1, <2>2, <2>3 DEF Range
  <2> QED
    BY ONLY <2>4
<1>10. ASSUME NEW m \in DOMAIN t, NEW n \in DOMAIN t, m < n PROVE <<t[m], t[n]>> \in R
  <2>1. m \in 1 .. Len(s) + 1 /\ n \in 1 .. Len(s) + 1
    BY <1>6
  <2>2. CASE n <= k
    <3>1. m \in 1 .. k /\ n \in 1 .. k /\ m \in DOMAIN s /\ n \in DOMAIN s
      BY <1>1, <1>10, <2>1, <2>2
    <3> QED
      BY <1>3, <1>5, <1>10, <3>1
  <2>3. CASE n = k + 1
    <3>1. m \in 1 .. k
      BY <1>1, <1>10, <2>1, <2>3
    <3> QED
      BY <1>5, <1>7, <2>3, <3>1
  <2>4. CASE m = k + 1
    <3>1. n - 1 \in k + 1 .. Len(s) /\ (n - 1) + 1 = n
      BY <1>1, <1>10, <2>1, <2>4
    <3> QED
      BY <1>5, <1>8, <2>4, <3>1
  <2>5. CASE m <= k /\ ~(n <= k) /\ n # k + 1
    <3>1. /\ m \in 1 .. k /\ n - 1 \in k + 1 .. Len(s) /\ (n - 1) + 1 = n
          /\ m \in DOMAIN s /\ n - 1 \in DOMAIN s /\ m < n - 1
      BY <1>1, <2>1, <2>5
    <3>2. t[m] = s[m] /\ t[n] = s[n - 1]
      BY <1>5, <3>1
    <3> QED
      BY <1>3, <3>1, <3>2
  <2>6. CASE ~(m <= k) /\ m # k + 1
    <3>1. /\ m - 1 \in k + 1 .. Len(s) /\ (m - 1) + 1 = m /\ m - 1 \in DOMAIN s
          /\ n - 1 \in k + 1 .. Len(s) /\ (n - 1) + 1 = n /\ n - 1 \in DOMAIN s
          /\ m - 1 < n - 1
      BY <1>1, <1>10, <2>1, <2>6
    <3>2. t[m] = s[m - 1] /\ t[n] = s[n - 1]
      BY <1>5, <3>1
    <3> QED
      BY <1>3, <3>1, <3>2
  <2> QED
    BY <1>1, <1>10, <2>1, <2>2, <2>3, <2>4, <2>5, <2>6
<1> QED
  BY <1>5, <1>9, <1>10 DEF InOrder

(* The records of a word: by count, the greatest first, then by name.      *)
LEMMA RecordInserted ==
    ASSUME NEW list \in Seq(Records), Ordered(list, CountsDescend), NEW r \in Records
    PROVE  /\ WithRecord(list, r) \in Seq(Records)
           /\ Ordered(WithRecord(list, r), CountsDescend)
           /\ Range(WithRecord(list, r)) = Range(list) \cup {r}
<1>1. \A n \in DOMAIN list : list[n] \in Records
  OBVIOUS
<1>2. /\ \A a \in Records : a.file \in Nat /\ a.count \in Nat
      /\ \A a, b \in Records : a.file = b.file /\ a.count = b.count => a = b
  <2>1. Files \subseteq Nat
    BY IndexAssumption
  <2>2. ASSUME NEW a \in Records PROVE a.file \in Nat /\ a.count \in Nat
    BY <2>1 DEF Records
  <2>3. ASSUME NEW a \in Records, NEW b \in Records, a.file = b.file, a.count = b.count
        PROVE  a = b
    BY <2>3 DEF Records
  <2> QED
    BY <2>2, <2>3
<1>3. CASE r \in Range(list)
  <2>1. WithRecord(list, r) = list
    BY <1>3 DEF WithRecord, SLInsert
  <2> QED
    BY <1>3, <2>1
<1>4. CASE r \notin Range(list)
  <2> DEFINE R == {p \in Records \X Records : CountsDescend(p[1], p[2])}
             above == {n \in DOMAIN list : RecordAbove(list[n], r)}
             t == InsertAt(list, Cardinality(above) + 1, r)
  <2>1. \A a, b \in Records : <<a, b>> \in R <=> CountsDescend(a, b)
    OBVIOUS
  <2>2. above = Before(r, list, R)
    BY <1>1, <2>1 DEF Before, RecordAbove, CountsDescend
  <2>3. WithRecord(list, r) = t
    BY <1>4 DEF WithRecord, SLInsert
  <2> HIDE DEF R, above, t
  <2>4. TransitiveOn(R, Records)
    <3>1. ASSUME NEW p \in Records, NEW q \in Records, NEW s \in Records,
                 CountsDescend(p, q), CountsDescend(q, s)
          PROVE  CountsDescend(p, s)
      <4>1. /\ p.count \in Nat /\ q.count \in Nat /\ s.count \in Nat
            /\ p.file \in Nat /\ q.file \in Nat /\ s.file \in Nat
        BY <1>2
      <4> QED
        BY ONLY <3>1, <4>1 DEF CountsDescend
    <3> QED
      BY <2>1, <3>1 DEF TransitiveOn
  <2>5. InOrder(list, R)
    BY <1>1, <2>1 DEF Ordered, InOrder
  <2>6. Apart(r, list, R)
    <3> SUFFICES ASSUME NEW n \in DOMAIN list
                 PROVE  <<list[n], r>> \in R \/ <<r, list[n]>> \in R
      BY DEF Apart
    <3>1. list[n] # r
      BY <1>4 DEF Range
    <3>2. list[n].file # r.file \/ list[n].count # r.count
      BY <1>1, <1>2, <3>1
    <3>3. /\ list[n].file \in Nat /\ r.file \in Nat
          /\ list[n].count \in Nat /\ r.count \in Nat
      BY <1>1, <1>2
    <3>4. CountsDescend(list[n], r) \/ CountsDescend(r, list[n])
      BY ONLY <3>2, <3>3 DEF CountsDescend
    <3> QED
      BY <1>1, <2>1, <3>4
  <2>7. t \in Seq(Records) /\ Range(t) = Range(list) \cup {r} /\ InOrder(t, R)
    BY <2>2, <2>4, <2>5, <2>6, InsertingInOrder DEF t
  <2>8. \A n \in DOMAIN t : t[n] \in Records
    BY <2>7
  <2>9. Ordered(t, CountsDescend)
    BY <2>1, <2>7, <2>8 DEF Ordered, InOrder
  <2> QED
    BY <2>3, <2>7, <2>9
<1> QED
  BY <1>3, <1>4

(* The words: each once, in order.                                         *)
LEMMA IndexInserted ==
    ASSUME NEW list \in Seq(Entry), Ordered(list, TokensAscend), NEW i \in Entry,
           \A n \in DOMAIN list : list[n].token # i.token
    PROVE  /\ WithIndex(list, i) \in Seq(Entry)
           /\ Ordered(WithIndex(list, i), TokensAscend)
           /\ Range(WithIndex(list, i)) = Range(list) \cup {i}
<1> DEFINE R == {p \in Entry \X Entry : TokensAscend(p[1], p[2])}
           above == {n \in DOMAIN list : IndexAbove(list[n], i)}
           t == InsertAt(list, Cardinality(above) + 1, i)
<1>1. \A n \in DOMAIN list : list[n] \in Entry
  OBVIOUS
<1>2. \A a \in Entry : a.token \in Nat
  BY MapAssumption DEF Entry
<1>3. i \notin Range(list)
  BY DEF Range
<1>4. \A a, b \in Entry : <<a, b>> \in R <=> TokensAscend(a, b)
  OBVIOUS
<1>5. above = Before(i, list, R)
  BY <1>1, <1>4 DEF Before, IndexAbove, TokensAscend
<1>6. WithIndex(list, i) = t
  BY <1>3 DEF WithIndex, SLInsert
<1> HIDE DEF R, above, t
<1>7. TransitiveOn(R, Entry)
  <2>1. ASSUME NEW p \in Entry, NEW q \in Entry, NEW s \in Entry,
               TokensAscend(p, q), TokensAscend(q, s)
        PROVE  TokensAscend(p, s)
    <3>1. p.token \in Nat /\ q.token \in Nat /\ s.token \in Nat
      BY <1>2
    <3> QED
      BY ONLY <2>1, <3>1 DEF TokensAscend
  <2> QED
    BY <1>4, <2>1 DEF TransitiveOn
<1>8. InOrder(list, R)
  BY <1>1, <1>4 DEF Ordered, InOrder
<1>9. Apart(i, list, R)
  <2>1. ASSUME NEW n \in DOMAIN list
        PROVE  TokensAscend(list[n], i) \/ TokensAscend(i, list[n])
    <3>1. list[n].token \in Nat /\ i.token \in Nat /\ list[n].token # i.token
      BY <1>1, <1>2
    <3> QED
      BY ONLY <3>1 DEF TokensAscend
  <2> QED
    BY <1>1, <1>4, <2>1 DEF Apart
<1>10. t \in Seq(Entry) /\ Range(t) = Range(list) \cup {i} /\ InOrder(t, R)
  BY <1>5, <1>7, <1>8, <1>9, InsertingInOrder DEF t
<1>11. \A n \in DOMAIN t : t[n] \in Entry
  BY <1>10
<1>12. Ordered(t, TokensAscend)
  BY <1>4, <1>10, <1>11 DEF Ordered, InOrder
<1> QED
  BY <1>6, <1>10, <1>12

-----------------------------------------------------------------------------
(* The index                                                               *)

LEMMA InHolds ==
    \A list, e : e \in Holds(list) <=>
        \E i \in Range(list) : \E r \in Range(i.records) : e = <<i.token, r.file, r.count>>
BY DEF Holds

(* A record that is added to the words that are t, of which there is one.  *)
Extended(list, t, r) ==
    [n \in DOMAIN list |-> IF list[n].token = t
                           THEN [list[n] EXCEPT !.records = WithRecord(@, r)]
                           ELSE list[n]]
LEMMA RecordAdded ==
    ASSUME NEW list \in Seq(Entry), NEW t, NEW r \in Records,
           Ordered(list, TokensAscend),
           \A n \in DOMAIN list : Ordered(list[n].records, CountsDescend),
           \E n \in DOMAIN list : list[n].token = t,
           NEW new,
           new = Extended(list, t, r)
    PROVE  /\ new \in Seq(Entry)
           /\ Ordered(new, TokensAscend)
           /\ \A n \in DOMAIN new : Ordered(new[n].records, CountsDescend)
           /\ Holds(new) = Holds(list) \cup {<<t, r.file, r.count>>}
<1>1. /\ Len(list) \in Nat /\ \A n : n \in DOMAIN list <=> n \in 1 .. Len(list)
      /\ \A n \in DOMAIN list : list[n] \in Entry
  OBVIOUS
<1>2. ASSUME NEW n \in DOMAIN list
      PROVE  /\ list[n].token \in Keys /\ list[n].records \in Seq(Records)
             /\ WithRecord(list[n].records, r) \in Seq(Records)
             /\ Ordered(WithRecord(list[n].records, r), CountsDescend)
             /\ Range(WithRecord(list[n].records, r)) = Range(list[n].records) \cup {r}
  <2>1. list[n].token \in Keys /\ list[n].records \in Seq(Records)
    BY <1>1 DEF Entry
  <2>2. Ordered(list[n].records, CountsDescend)
    OBVIOUS
  <2> QED
    BY <2>1, <2>2, RecordInserted
<1>3. \A n : n \in DOMAIN new <=> n \in DOMAIN list
  BY DEF Extended
<1>4. ASSUME NEW n \in DOMAIN list
      PROVE  /\ new[n].token = list[n].token
             /\ new[n].records = IF list[n].token = t THEN WithRecord(list[n].records, r)
                                 ELSE list[n].records
             /\ new[n] \in Entry
  <2>1. CASE list[n].token = t
    <3>1. new[n] = [list[n] EXCEPT !.records = WithRecord(@, r)]
      BY <2>1 DEF Extended
    <3>2. list[n] \in Entry /\ WithRecord(list[n].records, r) \in Seq(Records)
      BY <1>1, <1>2
    <3> QED
      BY ONLY <2>1, <3>1, <3>2 DEF Entry
  <2>2. CASE list[n].token # t
    <3>1. new[n] = list[n]
      BY <2>2 DEF Extended
    <3> QED
      BY <1>1, <2>2, <3>1
  <2> QED
    BY <2>1, <2>2
<1>5. new \in Seq(Entry)
  <2>1. new \in [1 .. Len(list) -> Entry]
    <3>1. DOMAIN new = DOMAIN list /\ DOMAIN list = 1 .. Len(list)
      BY DEF Extended
    <3>2. new = [n \in DOMAIN new |-> new[n]]
      BY DEF Extended
    <3> QED
      BY <1>3, <1>4, <3>1, <3>2
  <2> QED
    BY <1>1, <2>1
<1>6. Ordered(new, TokensAscend)
  BY <1>3, <1>4 DEF Ordered, TokensAscend
<1>7. ASSUME NEW n \in DOMAIN new PROVE Ordered(new[n].records, CountsDescend)
  <2>1. n \in DOMAIN list
    BY <1>3
  <2>2. \/ new[n].records = WithRecord(list[n].records, r)
        \/ new[n].records = list[n].records
    BY <1>4, <2>1
  <2>3. CASE new[n].records = WithRecord(list[n].records, r)
    BY <1>2, <2>1, <2>3 DEF Ordered
  <2>4. CASE new[n].records = list[n].records
    BY <2>1, <2>4 DEF Ordered
  <2> QED
    BY <2>2, <2>3, <2>4
<1>8. ASSUME NEW e PROVE e \in Holds(new) <=> e \in Holds(list) \cup {<<t, r.file, r.count>>}
  <2>1. e \in Holds(new) <=> \E n \in DOMAIN list : \E x \in Range(new[n].records) :
                                e = <<list[n].token, x.file, x.count>>
    BY ONLY InHolds, <1>3, <1>4 DEF Range
  <2>2. e \in Holds(list) <=> \E n \in DOMAIN list : \E x \in Range(list[n].records) :
                                e = <<list[n].token, x.file, x.count>>
    BY ONLY InHolds DEF Range
  <2>3. \A n \in DOMAIN list :
           Range(new[n].records) = IF list[n].token = t THEN Range(list[n].records) \cup {r}
                                   ELSE Range(list[n].records)
    BY <1>2, <1>4
  <2>4. PICK at \in DOMAIN list : list[at].token = t
    OBVIOUS
  <2>5. ASSUME e \in Holds(new) PROVE e \in Holds(list) \cup {<<t, r.file, r.count>>}
    <3>1. PICK n \in DOMAIN list : \E x \in Range(new[n].records) :
                                e = <<list[n].token, x.file, x.count>>
      BY <2>1, <2>5
    <3>2. PICK x \in Range(new[n].records) : e = <<list[n].token, x.file, x.count>>
      BY <3>1
    <3>3. x \in Range(list[n].records) \/ (list[n].token = t /\ x = r)
      BY ONLY <2>3, <3>2, n \in DOMAIN list
    <3> QED
      BY ONLY <2>2, <3>2, <3>3, n \in DOMAIN list
  <2>6. ASSUME e \in Holds(list) PROVE e \in Holds(new)
    <3>1. PICK n \in DOMAIN list : \E x \in Range(list[n].records) :
                                e = <<list[n].token, x.file, x.count>>
      BY <2>2, <2>6
    <3>2. \A x \in Range(list[n].records) : x \in Range(new[n].records)
      BY ONLY <2>3, n \in DOMAIN list
    <3> QED
      BY ONLY <2>1, <3>1, <3>2, n \in DOMAIN list
  <2>7. ASSUME e = <<t, r.file, r.count>> PROVE e \in Holds(new)
    <3>1. r \in Range(new[at].records)
      BY ONLY <2>3, <2>4, at \in DOMAIN list
    <3> QED
      BY ONLY <2>1, <2>4, <2>7, <3>1, at \in DOMAIN list
  <2> QED
    BY ONLY <2>5, <2>6, <2>7
<1>9. Holds(new) = Holds(list) \cup {<<t, r.file, r.count>>}
  BY ONLY <1>8
<1> QED
  BY <1>5, <1>6, <1>7, <1>9

(* A word that is new in the list, with its first record.                  *)
LEMMA WordAdded ==
    ASSUME NEW list \in Seq(Entry), NEW t \in Keys, NEW r \in Records,
           Ordered(list, TokensAscend),
           \A n \in DOMAIN list : Ordered(list[n].records, CountsDescend),
           \A n \in DOMAIN list : list[n].token # t,
           NEW new,
           new = WithIndex(list, [token |-> t, records |-> WithRecord(<<>>, r)])
    PROVE  /\ new \in Seq(Entry)
           /\ Ordered(new, TokensAscend)
           /\ \A n \in DOMAIN new : Ordered(new[n].records, CountsDescend)
           /\ Holds(new) = Holds(list) \cup {<<t, r.file, r.count>>}
<1>1. PICK first : first = WithRecord(<<>>, r)
  OBVIOUS
<1>2. /\ first \in Seq(Records) /\ Ordered(first, CountsDescend) /\ Range(first) = {r}
  <2>1. <<>> \in Seq(Records) /\ Ordered(<<>>, CountsDescend) /\ Range(<<>>) = {}
    BY DEF Ordered, Range
  <2> QED
    BY <1>1, <2>1, RecordInserted
<1>3. PICK i : i = [token |-> t, records |-> first]
  OBVIOUS
<1>4. i \in Entry /\ i.token = t /\ i.records = first
  BY <1>2, <1>3 DEF Entry
<1>5. new = WithIndex(list, i)
  BY <1>1, <1>3
<1>6. new \in Seq(Entry) /\ Ordered(new, TokensAscend) /\ Range(new) = Range(list) \cup {i}
  BY <1>4, <1>5, IndexInserted
<1>7. ASSUME NEW n \in DOMAIN new PROVE Ordered(new[n].records, CountsDescend)
  <2>1. new[n] \in Range(list) \cup {i}
    BY <1>6 DEF Range
  <2>2. CASE new[n] = i
    BY <1>2, <1>4, <2>2 DEF Ordered
  <2>3. CASE new[n] \in Range(list)
    <3>1. PICK m \in DOMAIN list : new[n] = list[m]
      BY <2>3 DEF Range
    <3>2. Ordered(list[m].records, CountsDescend)
      OBVIOUS
    <3> QED
      BY <3>1, <3>2 DEF Ordered
  <2> QED
    BY <2>1, <2>2, <2>3
<1>8. ASSUME NEW e PROVE e \in Holds(new) <=> e \in Holds(list) \cup {<<t, r.file, r.count>>}
  <2>1. \E x \in Range(i.records) : e = <<i.token, x.file, x.count>>
           <=> e = <<t, r.file, r.count>>
    BY ONLY <1>2, <1>4
  <2> QED
    BY ONLY InHolds, <1>6, <1>4, <1>2
<1>9. Holds(new) = Holds(list) \cup {<<t, r.file, r.count>>}
  BY ONLY <1>8
<1> QED
  BY <1>6, <1>7, <1>9

(* The entry of the node that was returned is added.                       *)
LEMMA AddRecordIndexes ==
    ASSUME MapPart, Counting, Iterating, Indexing, AddRecord
    PROVE  Indexing'
<1>1. /\ pc = "record" /\ op = "idle" /\ pc' = "entry"
      /\ UNCHANGED <<content, todo, file, rest, written, nodes, key, value>>
  BY DEF AddRecord, At, mapvars, memory
<1>2. result \in nodes /\ Recorded' = Recorded \cup {result}
  BY AddRecordWalks
<1>3. PICK t, r : t = key[result] /\ r = [file |-> file, count |-> value[result]]
  OBVIOUS
<1>4. t \in Keys /\ r \in Records /\ r.file = file /\ r.count = value[result]
  <2>1. file \in Files /\ key[result] \in Keys /\ value \in [Nodes -> Int]
        /\ result \in Nodes
    BY <1>1, <1>2 DEF MapPart, MapInv, MapTypes, Types, Moving
  <2>2. value[result] >= 1
    BY <1>1, <1>2 DEF Counting, Moving
  <2>3. value[result] \in Nat
    BY <2>1, <2>2
  <2> QED
    BY <1>3, <2>1, <2>3 DEF Records
<1>5. PICK list : list = indeces
  OBVIOUS
<1>6. /\ list \in Seq(Entry) /\ written \in Seq(Entry) /\ written = <<>>
      /\ Ordered(list, TokensAscend)
      /\ \A n \in DOMAIN list : Ordered(list[n].records, CountsDescend)
      /\ Holds(list) = Finished \cup Moved
  BY <1>1, <1>5 DEF Indexing
<1>7. PICK new : new = indeces'
  OBVIOUS
<1>8. /\ new \in Seq(Entry) /\ Ordered(new, TokensAscend)
      /\ \A n \in DOMAIN new : Ordered(new[n].records, CountsDescend)
      /\ Holds(new) = Holds(list) \cup {<<t, r.file, r.count>>}
  <2>1. \A n : n \in Positions(t) <=> n \in DOMAIN list /\ list[n].token = t
    BY <1>5 DEF Positions
  <2>2. CASE Positions(t) = {}
    <3>1. \A n \in DOMAIN list : list[n].token # t
      BY <2>1, <2>2
    <3>2. new = WithIndex(list, [token |-> t, records |-> WithRecord(<<>>, r)])
      BY <1>3, <1>5, <1>7, <2>2 DEF AddRecord
    <3> QED
      BY <1>4, <1>6, <3>1, <3>2, WordAdded
  <2>3. CASE Positions(t) # {}
    <3>1. \E n \in DOMAIN list : list[n].token = t
      BY <2>1, <2>3
    <3>2. new = [n \in DOMAIN list |-> IF n \in Positions(t)
                                       THEN [list[n] EXCEPT !.records = WithRecord(@, r)]
                                       ELSE list[n]]
      BY <1>3, <1>5, <1>7, <2>3 DEF AddRecord
    <3>3. new = Extended(list, t, r)
      BY <2>1, <3>2 DEF Extended
    <3> QED
      BY <1>4, <1>6, <3>1, <3>3, RecordAdded
  <2> QED
    BY <2>2, <2>3
<1>9. Moved' = Moved \cup {<<t, r.file, r.count>>}
  BY <1>1, <1>2, <1>3, <1>4 DEF Moved
<1>10. Finished' = Finished
  BY <1>1 DEF Finished, Expected
<1>11. Holds(indeces)' = Finished' \cup Moved'
  BY <1>6, <1>7, <1>8, <1>9, <1>10 DEF Holds
<1>12. IndexIsSorted'
  BY <1>1 DEF Indexing, IndexIsSorted, Ordered
<1> QED
  BY <1>1, <1>6, <1>7, <1>8, <1>11, <1>12 DEF Indexing, Ordered

(* A step that moves nothing into the index.                               *)
LEMMA IndexingStands ==
    ASSUME Indexing, UNCHANGED <<indeces, written>>, pc # "done", pc' # "done",
           Finished' \cup Moved' = Finished \cup Moved
    PROVE  Indexing'
BY DEF Indexing, IndexIsSorted, Ordered, Holds

LEMMA NoFileIsNoFile == NoFile \notin Files
BY IndexAssumption DEF NoFile

(* The file that is visited is not done, and has given nothing yet.        *)
LEMMA VisitIndexes ==
    ASSUME MapPart, Indexing, NEW f \in Files, Visit(f)
    PROVE  Indexing'
<1>1. /\ pc = "next" /\ pc' = "token" /\ f \in todo /\ todo' = todo \ {f} /\ file' = f
      /\ UNCHANGED <<content, indeces, written>>
  BY DEF Visit, At
<1>2. file = NoFile
  BY <1>1 DEF MapPart, Types, Reading, Moving
<1>3. Recorded = {} /\ Recorded' = {}
  BY <1>1 DEF Recorded, Moving
<1>4. Moved = {} /\ Moved' = {}
  BY <1>3 DEF Moved
<1>5. Expected' = Expected /\ \A e \in Expected : e[2] \in Files
  BY <1>1 DEF Expected
<1>6. Finished' = Finished
  BY <1>1, <1>2, <1>5, NoFileIsNoFile DEF Finished
<1> QED
  BY <1>1, <1>4, <1>6, IndexingStands

(* When every node is recorded the file is done: its words are the map's   *)
(* keys, with the map's counts.                                            *)
LEMMA EndFileIndexes ==
    ASSUME MapPart, Counting, Iterating, Indexing, EndFile
    PROVE  Indexing'
<1>1. /\ pc = "record" /\ op = "idle" /\ pc' = "next" /\ file' = NoFile
      /\ UNCHANGED <<content, todo, indeces, written>>
  BY DEF EndFile, At
<1>2. Recorded = nodes /\ Recorded' = {}
  BY EndFileWalks
<1>3. /\ file \in Files /\ file \notin todo /\ rest = <<>>
      /\ value \in [Nodes -> Int] /\ nodes \subseteq Nodes /\ \A n \in nodes : key[n] \in Keys
  BY <1>1 DEF MapPart, MapInv, MapTypes, Types, Moving
<1>4. /\ \A n \in nodes : value[n] >= 1 /\ value[n] = Count(key[n], content[file])
      /\ \A w \in Keys : (\A n \in nodes : key[n] # w) => Count(w, content[file]) = 0
  <2>1. /\ \A n \in nodes :
              /\ value[n] >= 1
              /\ value[n] + Count(key[n], rest) = Count(key[n], content[file])
        /\ \A w \in Keys : (\A n \in nodes : key[n] # w) =>
              Pending(w) + Count(w, rest) = Count(w, content[file])
    BY <1>1 DEF Counting, Moving
  <2>2. \A w : Count(w, rest) = 0 /\ Pending(w) = 0
    BY <1>1, <1>3, CountNothing DEF Pending
  <2>3. \A n \in nodes : value[n] \in Int
    BY <1>3
  <2> QED
    BY <2>1, <2>2, <2>3
<1>5. Expected' = Expected
  BY <1>1 DEF Expected
<1>6. ASSUME NEW e PROVE e \in Moved <=> e \in Expected /\ e[3] > 0 /\ e[2] = file
  <2>1. ASSUME e \in Moved PROVE e \in Expected /\ e[3] > 0 /\ e[2] = file
    <3>1. PICK n \in nodes : e = <<key[n], file, value[n]>>
      BY <1>2, <2>1 DEF Moved
    <3>2. value[n] > 0 /\ key[n] \in Keys /\ value[n] = Count(key[n], content[file])
      BY <1>3, <1>4
    <3> QED
      BY <1>3, <3>1, <3>2 DEF Expected
  <2>2. ASSUME e \in Expected, e[3] > 0, e[2] = file PROVE e \in Moved
    <3>1. PICK w \in Keys, f \in Files : e = <<w, f, Count(w, content[f])>>
      BY <2>2 DEF Expected
    <3>2. f = file /\ Count(w, content[file]) > 0
      BY <2>2, <3>1
    <3>3. PICK n \in nodes : key[n] = w
      BY <1>4, <3>2
    <3>4. e = <<key[n], file, value[n]>>
      BY <1>4, <3>1, <3>2, <3>3
    <3> QED
      BY <1>2, <3>4 DEF Moved
  <2> QED
    BY <2>1, <2>2
<1>7. ASSUME NEW e \in Expected PROVE e[2] \in Files /\ e[2] # NoFile
  BY NoFileIsNoFile DEF Expected
<1>8. ASSUME NEW e PROVE e \in Finished' <=> e \in Finished \cup Moved
  <2>1. e \in Finished' <=> e \in Expected /\ e[3] > 0 /\ e[2] \notin todo
    BY <1>1, <1>5, <1>7 DEF Finished
  <2>2. e \in Finished <=> e \in Expected /\ e[3] > 0 /\ e[2] \notin todo /\ e[2] # file
    BY DEF Finished
  <2> QED
    BY <1>3, <1>6, <2>1, <2>2
<1>9. Finished' = Finished \cup Moved /\ Moved' = {}
  BY <1>2, <1>8 DEF Moved
<1> QED
  BY <1>1, <1>9, IndexingStands

LEMMA WriteIndexes == ASSUME MapPart, Indexing, Write PROVE Indexing'
<1>1. /\ pc = "next" /\ pc' = "done" /\ todo = {} /\ written' = indeces /\ indeces' = <<>>
      /\ UNCHANGED <<content, todo, file>>
  BY DEF Write, At
<1>2. Recorded = {}
  BY <1>1 DEF Recorded, Moving
<1>3. /\ indeces \in Seq(Entry) /\ Holds(indeces) = Finished \cup Moved
      /\ Ordered(indeces, TokensAscend)
      /\ \A n \in DOMAIN indeces : Ordered(indeces[n].records, CountsDescend)
  BY <1>1 DEF Indexing
<1>4. Moved = {} /\ Finished' = Finished
  BY <1>1, <1>2 DEF Moved, Finished, Expected
<1>5. Holds(written)' = Finished'
  BY <1>1, <1>3, <1>4 DEF Holds
<1>6. IndexIsSorted'
  <2>1. Ordered(written, TokensAscend)'
    BY <1>1, <1>3 DEF Ordered
  <2>2. ASSUME NEW i \in Range(written') PROVE Ordered(i.records, CountsDescend)
    <3>1. PICK n \in DOMAIN indeces : i = indeces[n]
      BY <1>1, <2>2 DEF Range
    <3>2. Ordered(indeces[n].records, CountsDescend)
      BY <1>3
    <3> QED
      BY <3>1, <3>2 DEF Ordered
  <2> QED
    BY <2>1, <2>2 DEF IndexIsSorted, Ordered
<1>7. /\ indeces' \in Seq(Entry) /\ written' \in Seq(Entry)
      /\ Ordered(indeces, TokensAscend)'
      /\ \A n \in DOMAIN indeces' : Ordered(indeces'[n].records, CountsDescend)
  BY <1>1, <1>3 DEF Ordered
<1> QED
  BY <1>1, <1>5, <1>6, <1>7 DEF Indexing, Ordered

LEMMA IndexingSteps ==
    MapPart /\ Counting /\ Iterating /\ Indexing /\ [Next]_vars => Iterating' /\ Indexing'
<1> SUFFICES ASSUME MapPart, Counting, Iterating, Indexing, [Next]_vars
             PROVE  Iterating' /\ Indexing'
  OBVIOUS
<1>1. ASSUME NEW f \in Files, Visit(f) PROVE Iterating' /\ Indexing'
  <2>1. ~Moving /\ ~Moving'
    BY <1>1 DEF Visit, At, Moving
  <2> QED
    BY <1>1, <2>1, ElsewhereWalks, VisitIndexes
<1>2. CASE \/ Skip \/ LookUp \/ CountFirst \/ CountAgain
           \/ ((Walk \/ Got \/ Stored) /\ UNCHANGED index)
  <2>1. /\ pc \in {"token", "count"} /\ pc' \in {"token", "count"}
        /\ UNCHANGED <<content, todo, file, indeces, written>>
    <3>1. CASE Skip \/ LookUp \/ CountFirst \/ CountAgain
      BY <3>1 DEF Skip, LookUp, CountFirst, CountAgain, At
    <3>2. CASE (Walk \/ Got \/ Stored) /\ UNCHANGED index
      <4>1. op \in {"get", "store", "remove"}
        BY <3>2 DEF Walk, Got, Stored
      <4> QED
        BY <3>2, <4>1 DEF MapPart, Types, index
    <3> QED
      BY <1>2, <3>1, <3>2
  <2>2. ~Moving /\ ~Moving'
    BY <2>1 DEF Moving
  <2>3. Iterating' /\ Recorded = {} /\ Recorded' = {}
    BY <2>2, ElsewhereWalks
  <2>4. Moved = {} /\ Moved' = {} /\ Finished' = Finished
    BY <2>1, <2>3 DEF Moved, Finished, Expected
  <2> QED
    BY <2>1, <2>3, <2>4, IndexingStands
<1>3. CASE Tokenized
  <2>1. /\ pc = "token" /\ pc' = "entry"
        /\ UNCHANGED <<content, todo, file, indeces, written>>
    BY <1>3 DEF Tokenized, At
  <2>2. Iterating' /\ Recorded = {} /\ Recorded' = {}
    BY <1>3, TokenizedWalks
  <2>3. Moved = {} /\ Moved' = {} /\ Finished' = Finished
    BY <2>1, <2>2 DEF Moved, Finished, Expected
  <2> QED
    BY <2>1, <2>2, <2>3, IndexingStands
<1>4. CASE NextEntry \/ (hmi_get /\ UNCHANGED index)
  <2>1. /\ pc \in {"entry", "record"} /\ pc' = "record"
        /\ UNCHANGED <<content, todo, file, indeces, written, nodes, key, value>>
    <3>1. CASE NextEntry
      BY <3>1 DEF NextEntry, At, hmi_get_next, memory
    <3>2. CASE hmi_get /\ UNCHANGED index
      BY <3>2 DEF hmi_get, MapPart, Types, index, memory
    <3> QED
      BY <1>4, <3>1, <3>2
  <2>2. Iterating' /\ Recorded' = Recorded
    BY <1>4, NextEntryWalks, IterateWalks
  <2>3. Moved' = Moved /\ Finished' = Finished
    BY <2>1, <2>2 DEF Moved, Finished, Expected
  <2> QED
    BY <2>1, <2>2, <2>3, IndexingStands
<1>5. CASE AddRecord
  BY <1>5, AddRecordWalks, AddRecordIndexes
<1>6. CASE EndFile
  BY <1>6, EndFileWalks, EndFileIndexes
<1>7. CASE Write
  <2>1. ~Moving /\ ~Moving'
    BY <1>7 DEF Write, At, Moving
  <2> QED
    BY <1>7, <2>1, ElsewhereWalks, WriteIndexes
<1>8. CASE UNCHANGED vars
  <2>1. Iterating' /\ Recorded' = Recorded
    BY <1>8, StayWalks
  <2>2. Moved' = Moved /\ Finished' = Finished
    BY <1>8, <2>1 DEF Moved, Finished, Expected, vars, index, mapvars, memory
  <2>3. UNCHANGED <<pc, todo, indeces, written>>
    BY <1>8 DEF vars, index
  <2>4. CASE pc = "done"
    BY <2>1, <2>2, <2>3, <2>4 DEF Indexing, IndexIsSorted, Ordered, Holds
  <2>5. CASE pc # "done"
    BY <2>1, <2>2, <2>3, <2>5, IndexingStands
  <2> QED
    BY <2>4, <2>5
<1> QED
  BY <1>1, <1>2, <1>3, <1>4, <1>5, <1>6, <1>7, <1>8 DEF Next, IndexStep, MapStep, Done

-----------------------------------------------------------------------------
LEMMA IndexingStarts == Init => Iterating /\ Indexing
<1> SUFFICES ASSUME Init PROVE Iterating /\ Indexing
  OBVIOUS
<1>1. /\ pc = "next" /\ todo = Files /\ indeces = <<>> /\ written = <<>>
  BY DEF Init
<1>2. Iterating /\ Recorded = {}
  BY <1>1 DEF Iterating, Recorded, Moving
<1>3. Moved = {} /\ Finished = {} /\ Holds(<<>>) = {}
  BY <1>1, <1>2 DEF Moved, Finished, Expected, Holds, Range
<1>4. IndexIsSorted
  BY <1>1 DEF IndexIsSorted, Ordered, Range
<1> QED
  BY <1>1, <1>2, <1>3, <1>4 DEF Indexing, Ordered

THEOREM Invariance == Spec => []IInv
<1>1. Init => IInv
  BY MapPartStarts, IndexingStarts DEF IInv, Init, Counting, Reading, Moving
<1>2. IInv /\ [Next]_vars => IInv'
  BY MapPartSteps, CountingSteps, IndexingSteps DEF IInv
<1> QED
  BY <1>1, <1>2, PTL DEF Spec

(* What is written holds every word of every file with its count, and      *)
(* nothing else: for any files and any hash, when the program is done.     *)
THEOREM IndexStaysExact == Spec => []IndexIsExact
<1>1. ASSUME IInv PROVE IndexIsExact
  <2> SUFFICES ASSUME pc = "done" PROVE Entries = {e \in Expected : e[3] > 0}
    BY DEF IndexIsExact
  <2>1. Holds(written) = Finished /\ todo = {} /\ file = NoFile
    BY <1>1 DEF IInv, Indexing, MapPart, Types, Reading, Moving
  <2>2. \A e \in Expected : e[2] # NoFile
    BY NoFileIsNoFile DEF Expected
  <2>3. Finished = {e \in Expected : e[3] > 0}
    BY <2>1, <2>2 DEF Finished
  <2> QED
    BY <2>1, <2>3 DEF Entries, Holds
<1> QED
  BY <1>1, Invariance, PTL

(* What is written is in order: each word once, and the files of a word by *)
(* count and name, with no two records that compare equal.                 *)
THEOREM IndexStaysSorted == Spec => []IndexIsSorted
<1>1. IInv => IndexIsSorted
  BY DEF IInv, Indexing
<1> QED
  BY <1>1, Invariance, PTL

-----------------------------------------------------------------------------
(* The program comes to its end: with every step less is left to do.  What *)
(* is left is, first, the files that are not visited and how far the one   *)
(* at work has come; then, while it is read, its tokens, and while its map *)
(* is moved, the buckets and the nodes ahead of the iterator.              *)
Phase == CASE Reading -> 3 [] Moving -> 2 [] pc = "next" -> 1 [] pc = "done" -> 0

(* What is left to do with one token, or with one entry of the map.        *)
Turn ==
    CASE pc = "token"  -> IF op = "store" THEN 3 ELSE 2
      [] pc = "count"  -> IF op = "get" THEN 1 ELSE 0
      [] pc = "entry"  -> IF current_node = NULL THEN 3 ELSE 0
      [] pc = "record" -> IF op = "iterate" THEN 2 ELSE 1
      [] OTHER         -> 0

(* A cursor leaves the first node of a chain.                              *)
Passes(n) == n \in Chain(n) /\ Chain(next[n]) = Chain(n) \ {n}

ReadsOn ==
    /\ Reading
    /\ \/ Len(rest') < Len(rest)
       \/ UNCHANGED rest /\ Turn' < Turn
       \/ UNCHANGED <<rest, pc, op, next>> /\ Passes(curr) /\ curr' = next[curr]

MovesOn ==
    /\ Moving
    /\ \/ index_no' = index_no + 1 /\ index_no' < Size
       \/ UNCHANGED <<index_no, next>> /\ Passes(current_node) /\ current_node' = next[current_node]
       \/ UNCHANGED <<index_no, current_node, next>> /\ Turn' < Turn

Advances ==
    \/ todo' \subseteq todo /\ todo' # todo
    \/ todo' = todo /\ Phase' < Phase
    \/ todo' = todo /\ Phase' = Phase /\ (ReadsOn \/ MovesOn)
Advancing == [][Advances]_vars

LEMMA Passing == ASSUME MapInv, NEW n \in nodes PROVE Passes(n)
BY Chains DEF Passes

LEMMA CallsGoOn ==
    ASSUME MapPart, Iterating, MapStep, UNCHANGED index
    PROVE  Advances
<1>1. /\ MapInv /\ Types /\ NULL = 0 /\ Walking
      /\ todo' = todo /\ pc' = pc /\ rest' = rest
  BY DEF MapPart, index, NULL
<1>2. Phase' = Phase
  BY <1>1 DEF Phase, Reading, Moving
<1>3. CASE Walk
  <2>1. /\ op \in {"get", "store"} /\ curr # NULL /\ curr' = next[curr]
        /\ UNCHANGED <<op, next>>
    BY <1>1, <1>3 DEF Walk, Types, memory
  <2>2. Reading /\ curr \in nodes
    BY <1>1, <2>1 DEF Walking, Types, Reading
  <2>3. Passes(curr)
    BY <1>1, <2>2, Passing
  <2> QED
    BY <1>1, <1>2, <2>1, <2>2, <2>3 DEF Advances, ReadsOn
<1>4. CASE Got \/ Stored
  <2>1. op \in {"get", "store"} /\ op' = "idle"
    BY <1>4 DEF Got, Stored, Return
  <2>2. <<pc, op>> \in {<<"token", "store">>, <<"count", "get">>, <<"record", "iterate">>}
    BY <1>1, <2>1 DEF Types
  <2>3. (pc = "token" /\ op = "store") \/ (pc = "count" /\ op = "get")
    BY <2>1, <2>2
  <2>4. Reading /\ Turn' < Turn
    BY <1>1, <2>1, <2>3 DEF Reading, Turn
  <2> QED
    BY <1>1, <1>2, <2>4 DEF Advances, ReadsOn
<1>5. CASE hmi_get
  <2>1. /\ pc = "record" /\ op = "iterate" /\ Moving /\ next' = next
    BY <1>1, <1>5 DEF hmi_get, Types, Moving, memory
  <2>2. CASE current_node = NULL /\ index_no # Size - 1
    <3>1. index_no' = index_no + 1
      BY <1>5, <2>2 DEF hmi_get
    <3>2. index_no \in Int /\ index_no < Size - 1
      BY <2>1, <2>2, MapAssumption DEF Iterating, NoBucket
    <3> QED
      BY <1>1, <1>2, <2>1, <3>1, <3>2, MapAssumption DEF Advances, MovesOn
  <2>3. CASE ~(current_node = NULL /\ index_no # Size - 1)
    <3>1. op' = "idle" /\ UNCHANGED <<index_no, current_node>>
      BY <1>5, <2>3 DEF hmi_get, Return, iterator
    <3>2. Turn' < Turn
      BY <1>1, <2>1, <3>1 DEF Turn
    <3> QED
      BY <1>1, <1>2, <2>1, <3>1, <3>2 DEF Advances, MovesOn
  <2> QED
    BY <2>2, <2>3
<1> QED
  BY <1>3, <1>4, <1>5 DEF MapStep

LEMMA ReadingGoesOn ==
    ASSUME MapPart, Skip \/ LookUp \/ CountFirst \/ CountAgain
    PROVE  Advances
<1>1. /\ rest \in Seq(Tokens) /\ rest # <<>> /\ op = "idle"
      /\ Reading /\ Reading' /\ todo' = todo
  BY DEF MapPart, Types, Skip, LookUp, CountFirst, CountAgain, At, Reading
<1>2. Phase' = Phase
  BY <1>1 DEF Phase, Reading, Moving
<1>3. CASE LookUp
  <2>1. pc = "token" /\ pc' = "count" /\ op' = "get" /\ rest' = rest
    BY <1>3 DEF LookUp, At, hm_get, Call
  <2>2. Turn' < Turn
    BY <1>1, <2>1 DEF Turn
  <2> QED
    BY <1>1, <1>2, <2>1, <2>2 DEF Advances, ReadsOn
<1>4. CASE Skip \/ CountFirst \/ CountAgain
  <2>1. rest' = Tail(rest)
    BY <1>4 DEF Skip, CountFirst, CountAgain
  <2>2. Len(rest') < Len(rest)
    BY <1>1, <2>1
  <2> QED
    BY <1>1, <1>2, <2>2 DEF Advances, ReadsOn
<1> QED
  BY <1>3, <1>4

LEMMA MovingGoesOn ==
    ASSUME MapPart, Iterating, NextEntry \/ AddRecord
    PROVE  Advances
<1>1. /\ op = "idle" /\ Moving /\ Moving' /\ ~Reading /\ ~Reading' /\ todo' = todo
      /\ UNCHANGED <<next, index_no>> /\ MapInv
  BY DEF NextEntry, AddRecord, At, Moving, Reading, hmi_get_next, memory, mapvars, iterator, MapPart
<1>2. Phase' = Phase
  BY <1>1 DEF Phase, Reading, Moving
<1>3. CASE NextEntry
  <2>1. pc = "entry" /\ pc' = "record" /\ op' = "iterate" /\ current_node' = NextNode(current_node)
    BY <1>3 DEF NextEntry, At, hmi_get_next
  <2>2. CASE current_node = NULL
    <3>1. current_node' = current_node /\ Turn' < Turn
      BY <2>1, <2>2 DEF NextNode, Turn
    <3> QED
      BY <1>1, <1>2, <3>1 DEF Advances, MovesOn
  <2>3. CASE current_node # NULL
    <3>1. current_node \in nodes /\ current_node' = next[current_node]
      BY <1>1, <2>1, <2>3 DEF NextNode, Iterating
    <3>2. Passes(current_node)
      BY <1>1, <3>1, Passing
    <3> QED
      BY <1>1, <1>2, <3>1, <3>2 DEF Advances, MovesOn
  <2> QED
    BY <2>2, <2>3
<1>4. CASE AddRecord
  <2>1. /\ pc = "record" /\ pc' = "entry" /\ op' = op /\ result # NULL
        /\ current_node' = current_node
    BY <1>4 DEF AddRecord, At, mapvars, call, iterator
  <2>2. current_node # NULL
    BY <1>1, <2>1 DEF Iterating
  <2>3. Turn' < Turn
    BY <1>1, <2>1, <2>2 DEF Turn
  <2> QED
    BY <1>1, <1>2, <2>1, <2>3 DEF Advances, MovesOn
<1> QED
  BY <1>3, <1>4

LEMMA FilesGoOn ==
    ASSUME Types, (\E f \in Files : Visit(f)) \/ Tokenized \/ EndFile \/ Write
    PROVE  Advances
<1>1. CASE \E f \in Files : Visit(f)
  BY <1>1 DEF Visit, Advances
<1>2. CASE Tokenized
  <2>1. pc = "token" /\ pc' = "entry" /\ todo' = todo
    BY <1>2 DEF Tokenized, At
  <2> QED
    BY <2>1 DEF Advances, Phase, Reading, Moving
<1>3. CASE EndFile
  <2>1. pc = "record" /\ pc' = "next" /\ todo' = todo
    BY <1>3 DEF EndFile, At
  <2> QED
    BY <2>1 DEF Advances, Phase, Reading, Moving
<1>4. CASE Write
  <2>1. pc = "next" /\ pc' = "done" /\ todo' = todo
    BY <1>4 DEF Write, At
  <2> QED
    BY <2>1 DEF Advances, Phase, Reading, Moving
<1> QED
  BY <1>1, <1>2, <1>3, <1>4

(* Of finitely many files the index is written: with every step a file is  *)
(* taken up for good, its work comes to the next phase, a token is read, a *)
(* cursor leaves one more node or bucket behind, or what is done with one  *)
(* token or entry comes nearer to its end.  With a step possible until the *)
(* end, which fairness then takes, that is IsWritten.                      *)
THEOREM NothingIsDoneForEver == Spec => Advancing
<1>1. IInv /\ [Next]_vars => Advances \/ UNCHANGED vars
  <2> SUFFICES ASSUME IInv, IndexStep PROVE Advances
    BY DEF Next, Done
  <2> QED
    BY CallsGoOn, ReadingGoesOn, MovingGoesOn, FilesGoOn DEF IndexStep, IInv, MapPart
<1> QED
  BY <1>1, Invariance, PTL DEF Spec, Advancing
=============================================================================
