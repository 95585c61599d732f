# A verification of the cs214 programs

The repository holds five C programs. This project models the parts of them
whose correctness depends on order, sharing or bookkeeping, checks the models
with TLC and proves what matters most with TLAPS.

## The system

**The bank** (`MultithreadedBanking/src`). `server.c` maps a file into shared
memory (the table of accounts, its counter, a mutex per account and one for
the counter), forks a *session process* and then prints the table every 20
seconds until SIGINT. The session process (`server-session.c`) accepts
connections, forks a *handler* for each and starts a thread that waits for the
handler to end. A handler (`server-client.c`) reads requests from its socket,
works on the shared table and writes an answer for each (`reqres.c`,
`account.c`). A customer uses an account by holding its mutex (the *customer
session*); a handler that wants an account in use tries again every two
seconds. The client program (`client.c`) connects, again every three seconds
until it can, and starts two threads: one reads commands and sends requests
(`client-command.c`), one prints answers (`client-response.c`); when the second
ends, the program does.
State: the shared table; in each handler its account, request and answer.
Hard: every handler and the printer run at the same time on shared memory;
credits and debits take no lock of their own; clients vanish; the network
resets connections; the client's two threads and the server may each be the
first to end the connection.

**Enhanced malloc** (`EnhancedMalloc/src/heap.c`). `malloc` and `free` over a
static array; the headers of the chunks lie in the array, linked in address
order. Hard: splitting and joining must keep three headers consistent after
any sequence of calls, and `free` must recognise every pointer that is not a
block.

**Sorted list** (`SortedList/src`, copied into `Indexer/src`). A descending
list whose nodes count the pointers to them, so that an iterator survives the
removal of the item it stands on. Hard: the counts, through insertions,
removals and several iterators.

**Indexer** (`Indexer/src`). Counts the words of files with a hash map and
keeps, per word, a sorted list of records in a sorted list of words.

**Tokenizer** (`Tokenizer/src`; the indexer and the banking client have copies).
An automaton that reads a text character by character and returns its tokens
with their kinds; the C tokenizer looks up names of operators and keywords in
hash tables. State: a pointer into the text. Hard: numbers that change their
kind while they are read, a switch whose cases fall through five times, loops
over comments that may not end, pointers advanced by two.

What makes each correct is the list of properties below; every hazard they are
aimed at is in `PROJECT.json`.

## Modules

| module | what it is |
|---|---|
| `Bank` | the bank server: handlers, printer, clients, sockets |
| `BankProperties` | its properties |
| `Accounts` | what the bank promises: accounts, sessions, money |
| `BankInv`, `BankProofs` | the inductive invariant, in layers; the theorems about `Bank` |
| `MCBank` | the requests TLC's clients send |
| `Server`, `ServerProperties` | the bank's processes: start, forks, SIGINT, restart |
| `ServerProofs` | the theorems about `Server` |
| `Heap`, `HeapProperties` | malloc and free, and their properties |
| `Allocator` | what an allocator promises |
| `HeapProofs` | the theorems about `Heap` |
| `MCHeap` | the pointers TLC frees |
| `SortedList`, `SortedListProperties` | the list with counted nodes and iterators |
| `OrderedSet` | what it promises: a set with cursors |
| `SortedListProofs` | the theorems about `SortedList` |
| `HashMap`, `HashMapProperties`, `MCHashMap` | the indexer's hash map |
| `HashMapProofs` | what the map's operations keep of its chains: lemmas |
| `Indexer`, `IndexerProperties`, `MCIndexer` | the inverted index, on top of `HashMap` |
| `IndexerProofs` | the theorems about `Indexer`, and about the map it uses |
| `Dictionary` | the C tokenizer's hash tables |
| `Tokenizer` | the three copies of the tokenizer |
| `TokenizerProperties`, `MCTokenizer` | what a text means, without the automaton; the texts TLC reads |
| `TokenizerProofs` | the theorems about `Tokenizer` |
| `Client`, `ClientProperties` | the client program: `main`, its two threads, its connection |
| `ClientProofs` | the theorems about `Client` |

### Bank

A handler is a program counter, its locals (`client_account`, `request`,
`response`, and `tmp`, the value it carries from one step to the next) and a
socket. A step is what one access to shared memory or one system call does:
`client_open` is `TakeAccountLock`, `OpenRefused` or `OpenChosen`, `OpenInit`,
`OpenCount`; `account_credit` is a `Load` and a `Store`. `search_account` is
one step: the slots below the counter a reader has read never change their
name, which `AccountsEndure` says and `NothingIsForgotten` proves.

The mutex of an account is its owner; the mutex of the counter has an owner
and a set of sleepers. It is initialised without `PTHREAD_PROCESS_SHARED`, so
whether an unlock wakes a sleeper of another process is left open: `Wake` may
happen and is never assumed to.

A socket is the queue of requests not read yet and what the handler's kernel
knows of the peer: open, closed, closed and written to, reset. `Write` and
`BrokenPipe` follow what TCP does to a write on each. A client may be killed at
any step; a time-out may happen whenever nothing is there to read.

Not in the module: the text of messages; float arithmetic (money is whole);
messages that arrive in pieces; the two-second pauses (a step may take any
time); the order in which waiting customers came.

### Server

Module `Bank` has a fixed set of handlers and a server that runs for ever;
`Server` has what surrounds them. A process is its control state and what it
has open: the listening socket, the mapped table, the sockets of connections.
`fork` copies all three (`ForkSession`, `ForkHandler`), an end closes them
(`Closes`). A handler of `Server` only runs, enters and leaves the critical
section of the counter's mutex, and ends; what else it does is in `Bank`.
SIGINT is sent to the server (`InterruptServer`, `kill`) or to all its
processes (`Interrupt`, ^C), and taken by each at any later step: by the
server before its handler is installed (it dies), or after (it notes it); by
the session process and the handlers, which exit where they are. `fork` may
fail, and its -1 is used as the code uses it.

A handler may be stopped (^Z, `kill -STOP`) and continued. `waitpid` is called
with `WUNTRACED` and its status is not looked at, so it returns for a stop as it
does for an end: `untold` are the stopped handlers no `waitpid` has returned
yet, and the collector of one that was is `told`, not `done`. It closes the
session process's socket and ends in either case. The server and the session
process may be stopped as well; nobody in the program waits for that, so it is
no more than taking no step for a while. The hang-up of a terminal is not in the
module.

### Heap

An address is the offset of a byte. `nodes` are the addresses that hold a
header now. The two loops go one header per step with the cursor `temp`; the
split and the join are one step each. `live` is a history variable: the blocks
the program holds. Alignment, and the file and line kept for messages, are not
in the module.

### SortedList

`SLInsert`, `SLRemove` and `nodeDestroy` go one node per step with the cursors
`curr` and `prev`; `SLDestroy` removes one node per step. A node has `data`,
`next` and `ptrCount`. Three history variables say what should be: `listed`,
the nodes of the list; `at`, the item each iterator returned last; `due`, the
items in the list ever since the iterator was made that it has not passed.
The refinement of `OrderedSet` maps the list to its items, and an iterator to
a cursor that goes strictly down and passes over nothing that is due. As the
code makes it, an iterator begins *on* the first item: `SLGetItem` gives it, and
the first `SLNextItem` returns the second. `OrderedSet` says so too
(`Start`); the header does not (see "What the code does not keep"). The code
keeps no more: from a node that was removed, an iterator follows the pointer
the node had then, may return an item that has left the list since, and
may pass by one that came.

### HashMap and Indexer

`HashMap` goes one node per step through a chain, the iterator one bucket.
`Indexer` extends it and is the program that calls it: one step per token and
per entry, with the calls' own steps in between. `Walk`, `Got`, `Stored` and
`hmi_get` are the steps of the map inside `index.c`'s calls. A sorted list is
a sequence there, and `SLInsert` what module `SortedList` shows of it. Tokens
are integers with a lower case; the walk over directories is any order of the
files.

### Tokenizer

`state` is the function, and the loop in it, that looks at the current
character; a step reads one character (`Take`, `Skip`), goes on in another
function (`Go`), or forms the token (`Return`, with the name the C tokenizer
prints). `formPuncToken` is the switch: `Arrow`, `Doubled` and `Comment` are the
tests its cases fall through, in their order. The three copies differ in two
places, which the variable `dialect` decides: a control character ends the C
tokenizer's program and is a token elsewhere; a word of the banking client may
hold underscores. The characters are real ones, for the dictionaries add their codes; a control
character and a byte above 127 have a name each.

`TokenizerProperties` defines the meaning of a text a second time, from the
document (`doc/tokenizer.pdf`): `Kind(i, j)` says of two places of the text what
token lies between them, if any, by quantifiers over the places; `Reading` is
the longest token at a place, then the longest behind it, past blanks and
comments. `ReadsAsDocumented` compares the two on every text, up to the first
place where the program is known to read otherwise (`Misread`: see below).

### Client

A thread is where it is in its loop, and its buffer. A typed line is complete,
has a token too many, or writes nothing into the request (empty, unknown,
argument missing or of the wrong kind, `help`): the texts of the commands are
abstracted to that and to the request's code. The one request is not initialised
and starts with any code. The connection is what the client's calls observe of
it: open, ended by the server, written to after that, reset, broken. The server
takes requests in order, may answer `START` with a line for each wait, fails or
succeeds, and may close or die at any step, with a reset if requests are unread.
`SelectTimeout` may happen whenever nothing is there to read: `select` counts
the 5000 seconds over the whole connection.

## Runs

| run | shows | bounds |
|---|---|---|
| `bank_serves` | `TableIsSound`, `AnswersAreTrue`, `SessionExclusion`, `FlagMatchesSession`, `NoLostUpdate`, `NoOverdraft`, `AccountsEndure`, `KeepsPromises` and the inductive invariant `IInv`, which has the types | 2 handlers, 3 names for 2 slots, 6 requests |
| `bank_vanish` | `MutexMatchesSession`, `AccountLockInUse`, `VanishedAreReaped` | 2 handlers, one may be killed, 3 requests, 1 print |
| `bank_killed` | violation of `NoSessionOutlivesItsHandler` | 2 handlers, one may be killed, 4 requests |
| `server_runs` | `OnlyStoppedAreForgotten`, `TruncatedUnused`, `StopEnds` | 3 connections, one of whose handlers may be stopped, 2 starts |
| `server_stuck` | violation of `ServerStops` | 2 connections, one of whose handlers may be stopped, 2 starts |
| `heap_safe` | the invariants of `HeapProperties`, `FreesWhatIsHeld`, `FirstFit`, `EveryCallReturns`, `KeepsPromises` | 13 bytes, headers of 2, requests of 0, 1, 2 and 7 |
| `list_safe` | `CountsAreExact`, `ListIsSorted`, `NothingLeaks`, `ItemStays`, `KeepsPromises`, `EveryCallReturns` | 3 items, 4 nodes, 2 iterators |
| `index_builds` | `ChainsAreSound`, `CountsAreExact`, `IndexIsExact`, `IndexIsSorted`, `IsWritten` | 3 files, 11 contents, 3 words in 2 buckets |
| `hash_removed` | violation of `ChainsLeadToEntries` | 3 keys in 2 buckets |
| `tokenizer_reads` | `ReadsAsDocumented`, `StaysInText`, `EveryTextEnds` | texts up to 5 characters of 7, or of 6; all pairs of punctuation; all keywords |
| `client_talks` | `SentIsTyped`, `UserSeesAnswers`, `EndsWithServer`, `Connects` | 3 typed lines, 3 codes, 1 wait |
| `client_deaf` | violation of `StopsAtExit` | 2 typed lines |

Two handlers are enough for the bank: every property relates at most two of
them (two in a session, one that loads and one that stores), and the proofs
cover any number. Six requests are what the race of two debits takes, with the test of
one before the other's subtraction: an account opened, started by both
customers, credited, and debited by both. `NoOverdraft` is violated in this run
by a session that is not exclusive, which is the mutant it has. A table of two
slots and three names is full, and refuses a new name, within three. Three requests are an
account opened, started and wanted by a second client, or a session that is
ended in each of its ways; the client that may be killed is killed at every
step of them. Clients send the requests of a run's menu in any order,
sensible or not; `MaxInbox = 1` means a client waits for its request to be
taken, as the client program does. Handlers and names are symmetric in the runs
without liveness properties. Deadlock is not checked in the bank's runs: with
all requests sent and all clients gone, or with every process asleep at the
mutex, the system stops.

Three connections let a failed fork's collector, which waits for any child,
meet two handlers that end in either order, or one that ends and one that is
stopped; a second start meets whatever the first server left. One handler that
may be stopped is told to its own collector or to one that waits for any; the
proofs cover any number of them. Deadlock is not checked: after the last start the server
may be down for good.

The heap of 13 bytes has room for four blocks and their headers, so that
chunks are split and joined on both sides; a request of 7 is larger than what
any one hole leaves after the first split, and 0 makes empty chunks.

Three items give the list a first, a middle and a last node, and an iterator a
chain of two removed nodes to release; with two iterators a removed node is
held by either or both. A fourth node is one more than can be listed, for a
removed node that lives on while its item comes back.

Two of three words collide, so that chains have two nodes and a bucket one;
the contents have repeated words, words in two cases, equal counts in several
files, tokens that are no words, and an empty file.

Texts of five characters hold every path through the automaton: a number with
its point, exponent, sign and digits, a comment with both its ends, an operator
of three characters between two others. Numbers, punctuation with comments, and
words with blanks, control characters and bytes above 127 have alphabets of
their own, with one character of each class the functions tell apart; all
operators and keywords, and keywords with a digit behind, go through the
dictionaries. Deadlock is not checked: a text that is read is at its end.

Three lines let a request be answered, a second be under way and a third be
typed when the connection ends; the client ends for good, so deadlock is not
checked.

Fairness. `FairSpec` of the bank: every process runs (the operating system
schedules it) and resets arrive; nobody has to send, to time out, to vanish
or to be woken. `VanishedAreReaped` therefore excepts a handler that sleeps at
the counter's mutex again and again: with that mutex no code can do better.
`FairSpec` of the heap and of the list: a call that was made runs; nobody has
to make one. `FairSpec` of the indexer: the program runs. `ServerSpec` of
`server_runs`: the server and the session process, which are not stopped for
ever, take their steps and the signals they were sent; `StopEnds` needs nothing
of the handlers. `FairSpec` adds, for `server_stuck`, that handlers and
collectors go on and that signals are taken everywhere; nobody has to connect,
to end or to send a signal. It also grants the printer the counter's mutex when
it is free again and again, and a stopped handler that it is continued, which is
more than a mutex that is not shared between processes and a user promise, so
that `server_stuck` does not rest on that. `FairSpec` of the tokenizer:
the program runs. `FairSpec` of the client: `main` and the response thread run.
Nobody has to type (so the command thread needs no fairness), the server need not
answer, and the 5000 seconds need not pass.

## Proofs

`BankProofs` proves, for every number of handlers, clients that vanish, names,
amounts, slots and bounds, the invariant `IInv` and from it the theorems listed
in `PROJECT.json`. The assumptions are those of module `Bank`: markers are not
processes or names, amounts are positive, bounds are natural numbers.

`IInv` has layers, each inductive given the ones before it: the kinds of
values; who owns the counter's mutex (by control); that a handler serves the
request its place in the code is for; the table below the counter and the slot
being added; what a handler keeps of the table without the lock; who is in
session (mutex, `client_account`, flag and control agree); money. The safety
properties are not inductive: `NoLostUpdate` needs that a loaded balance is
still the balance, which needs that nobody else is in session, which needs
that `client_open` never makes the mutex of a used slot anew, which needs that
the slot it fills is the one at the counter, which needs the lock.

`BankImplementsAccounts` is the refinement of `Accounts`. The slots below the
counter, read as functions of names, are the abstract state: which names are
opened, the money of each and who is in its session. Counting a slot opens its
name, taking a slot's mutex starts the session, giving it back ends it, and
the store of a balance pays; every other step leaves the three functions alone
(`OthersStutter`). It needs the layers of the table (a name is in one slot) and
of the sessions (who stores a balance is in session).

`ServerProofs` proves `TruncatedUnused`, the fact that a new server never
truncates the file under processes of an earlier one. Nothing in the code
checks it. The invariant is `TableNeedsSocket`: whoever has the table mapped
has the listening socket, and between `bind` and the set-up of the table nobody
has it mapped; `bind` succeeds only when nobody has the socket.
`OnlyStoppedAreForgotten` needs more: `Survivors` (a running handler has the
listening socket too, so a session process is alone with its handlers),
`Collectors` (the thread of a handler waits for as long as there is something to
wait for, unless the session process died first or the thread was told of a
stop) and `Holders` (an open connection has a process
that will close it). Both hold for any number of connections and starts.

`HeapProofs` proves every safety property of `heap_safe` for any size of the
heap, of the header and of the requests, and for any integer given to `free`.
The list of headers is never followed in the proofs. `InOrder` (no chunk reaches
into another) strengthens `Tiled` to what the split and the join need, and
`Passed` says what a call's cursor has left behind: no chunk that `malloc`
could have used, not the block that `free` looks for. From `Passed` follow
`FirstFit` and, at the end of the heap, that a refused pointer is no block.
`HeapImplementsAllocator` maps the one step that cuts to the abstract `malloc`
and the one that joins to `free`.

`SortedListProofs` proves every safety property of `list_safe` for any items and
any finite sets of nodes and iterators (finite, because a node counts the
pointers to it). `Loop` and `Calls` say where `prev` and `curr` are in each call,
`Linked` that a listed node is the first or has one before it. The refinement of
`OrderedSet` and `NothingLeaks` speak of what can be reached. Instead of
reachability, which is inductive over data, the proofs use sets of nodes: the
*way* of an iterator is a set that holds the listed nodes and the iterator's
place, is closed under `next`, and never leads past an item that is due;
`NothingLeaks` says that no smaller set than the existing nodes holds all that
the list and the iterators lead to. That such a set has everything follows
because items fall along `next` (`AboveShrinks`).

`HashMapProofs` and `IndexerProofs` prove the safety properties of
`index_builds` for any files, contents, words, hash, buckets and nodes. A chain
is sound when its nodes have places: the head at 0, each next node one further,
no two nodes of a bucket at one place (`Placed`). `Chain` is a recursive
function, and `ChainIs` pins its values down by a least counterexample. The
operations keep this as lemmas about steps, `hm_remove` does not (run
`hash_removed`): that chains are sound is a theorem about the program `Indexer`,
which never removes. `Walking`, `Storing` and `Looking` say that a call has not
passed the key it looks for and that a stored key is new. `Counting` relates a
node's value, the words read, those still to read and the store under way;
`Iterating` what the iterator has ahead of it. `Indexing` says that the index
holds exactly the entries of the files that are done and of the nodes already
recorded, in order; `InsertingInOrder` is the fact about `SLInsert` it rests on.

`TokenizerProofs` proves `StaysInText` for texts of any length. The invariant
`Within` says that a state that is not at the start of a token has its
characters behind it and inside the text; every step that takes a character
has tested that it is not the NUL, and the two that take two have tested both.
The texts need only be C strings, sequences of characters without a NUL, of at
most 17 million characters: `hash` adds their codes in an int, which the model
does not let overflow. These are the assumptions of module `Tokenizer`.

`TokensAreDefined` says of every step that returns a token what the token is:
the text from `begin` on, of the kind the document defines (`Word`, `Octal`,
`Hex`, `Digits`, `Float`, `Mal`, or an operator), and the longest one that
begins there, unless `ZeroCutShort` (see below) applies. The invariant `Forming`
says of each state of the automaton what it has read. That it is longest rests
on the shape of numbers: two mantissas that an exponent follows end at one place
(`OneMantissa`), and what follows a mantissa, an exponent or a hexadecimal
number decides whether a number goes on (`AfterMantissa`, `AfterPower`,
`AfterHex`). The operators are described by their characters (`Spelling`), and
`OperatorIs` shows that the array `ops` spells the same ones.

`ReadsEveryText` proves `ReadsAsDocumented` for every text: the tokens together,
with their names, are what `Reading` says of the text. `Reading` is a recursive
function of the places of the text, so three things come first: that it exists
(`Recursion`: what is defined by recursion up to n exists, by induction on a set
of numbers), that at a place it is its definition there (`ReadingIs`), and that
it is the same before and after a step. For the last, `Meaning(f)` says what
`Reading` satisfies, of any function f; the invariant `Sound` then speaks of
every such f, which does not change. `Following(f)` is the heart of it: what was
returned, and behind it what f says of the text from here on, is what f says of
all of it. "Here" is where the token or the comment under way begins; that a
comment ends where `CommentEnd` says is the part of the invariant about comments
(`At`). When a place was misread, `Strayed(f)` remembers that what f says of the
text before it was returned. At the end `Following` leaves nothing of f, and the
two are equal.

The names rest on `TableFinds`, a theorem about the dictionaries of any size and
contents: what two arrays put into a table is found under its key, whatever
collides, and nothing else is. What the provers cannot know is how
TLA+ strings are spelled. Three assumptions without constants say it
(`CodeAssumption`: every character has a code, `KeywordsAssumption` and
`OperatorsAssumption`: the arrays' entries are made of such characters, and the
operators are those with the first and the following characters of the
document); they are facts about literals, which TLC evaluates in
`tokenizer_reads`.

`ClientProofs` proves `SentIsTyped` and `UserSeesAnswers` for any codes and any
number of lines and waits. The invariant `Pending` says that the place of the
command thread decides what was typed and not sent: while the connection is
open, nothing but the command about to be written, which the request still
holds, although rejected lines write the request too. `Showing` cuts what was
answered into the answers read, which are the first lines printed, and those
under way; what is printed behind them are notices. `Ending` says why the
response thread has ended, which is what `UserSeesAnswers` asks about.

Every safety property and every refinement of a passing run is stated by a
theorem. Only model-checked are the liveness properties (`VanishedAreReaped`,
`StopEnds`, the two `EveryCallReturns`, `IsWritten`, `EveryTextEnds`,
`EndsWithServer`, `Connects`), for the prover has no fairness and no ENABLED. Of
the sequential programs the part that needs neither is proved, as an action
property: every step goes down in an order that has no end below.

- `NoTextIsEndless`: four times the characters to be read, and a rank of the
  state for the steps that read none; a text of n characters takes 4n + 1 steps
  at most.
- `NoCallIsEndless` of the heap: the bytes ahead of the cursor, by a header's at
  least with every step.
- `NoCallIsEndless` of the list: the item at the cursor, for the list falls; the
  nodes that exist, for `nodeDestroy`.
- `NothingIsDoneForEver` of the indexer: the files not visited, the phase of the
  one at work, and then its tokens and the chain a call walks, or the buckets and
  the chain ahead of the iterator. That the cursor has a chain that gets shorter is
  what `ChainsAreSound` gives; that the files are finitely many is an assumption
  of the run.

What TLC adds is that a step is possible until the end and is taken.

## What the code does not keep

The violations are listed with their traces' meaning in `PROJECT.json`
("findings"). In short: a handler that dies of SIGPIPE keeps the session of its
account; ^C may leave the counter's mutex locked by a dead handler and the
server waiting for it; `hm_remove`, which no program of the repository calls,
leaves a chain leading to freed memory; a line the client rejects may end its
command thread.

Met while modelling and kept in the models, without a run of their own:

- The tokenizer takes `-/`, `+/`, `&/`, `|/`, `^/`, `%/` and `!/` for `//`, and
  the same characters before `*` for `/*`: the cases above `/` fall through to
  it (tokenizer.c:383-420). `FalseComment` names these places.
- A `0` before `8` or `9` is a token of its own (`08` is `0` and `8`, though
  `018` is one decimal), and an `e` behind `0` or octal digits begins no exponent
  (`0e5`, `07e5`): tokenizer.c:336-355. `ZeroCutShort` names these places.
- A byte above 127 ends the reading of a text without a word
  (tokenizer.c:481).
- A pointer that is freed a second time is reported as pointing into the middle
  of a block, or as never allocated, when its chunk was joined with the one
  before it (heap.c:116); hwextra-testcases.txt:32 expects "already free-d".
- A client that writes to a reset connection dies of SIGPIPE, and may do so
  before its response thread prints what bank-testcases.txt:57 expects.
- `waitpid` returns for a handler that was merely stopped, too
  (server-session.c:55, `WUNTRACED`). Its collector closes its socket, reports
  "Collect and destroy child process" and ends, while the handler can be
  continued and serve its client, and is a zombie when it ends: nobody waits for
  it any more. readme.pdf says that the thread waits "for the client process to
  be done". `OnlyStoppedAreForgotten` says that this is the only way a handler
  is forgotten; `Deserted` names them.
- An iterator walked by `SLNextItem` alone, as sorted-list.h:73-77 describes it
  ("from the beginning to the end"), never returns the first item:
  `SLCreateIterator` puts it there (sorted-list.c:203) and `SLNextItem` moves on
  before it returns (sorted-list.c:229). testplan.txt:34 and 43-44 of the list,
  and `index.c`, begin with `SLGetItem`, as the code wants it.
- The printed row of an account shows its balance and its flag of two moments
  (server.c:45); `atof` and float money lose small credits (server-client.c:89).

## What is left

All components with behaviour of their own are modelled, all safety properties
are proved. What could follow:

1. The progress of the bank and of its processes, as the sequential programs
   have it: a variant for a handler between two accesses to the counter's mutex.
2. The hash map as a finite map from keys to values, which `Indexer`'s calls
   implement: `Counting` and `Looking` in the terms of an abstract module.

Not modelled: `dirutil.c` (plain input), the example echo programs and the
test drivers, which no other program uses. Left out of the modules, beside what
is said above: failing allocations everywhere; in the indexer, an output
(index.c:265), a directory (index.c:308) or a file (dirutil.c:24) that cannot be
opened; in malloc, the text of the reports, where heap.c:124 prints the line and
file of an earlier `free`, which a header made by a split does not have set; in
the client, the time-out answer a server sends unasked
(server-client.c:201-202), and answers that were received but are discarded by
a reset: the model lets the client read them.
