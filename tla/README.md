# NSON in TLA+

A verification project for [NSON](../src/README.md), a small C library for
tree-shaped data (JSON, property lists, INI) with a threaded map. The modules
are translated from `src/src/*.c`; every definition that stands for code is
listed with its lines in `PROJECT.json` under `map`.

## 1. The system

| Component | Source | State it keeps | Operations | Talks to |
|---|---|---|---|---|
| Values and arrays | `array.c`, `data.c`, `nson.c`, `scalar.c` | `Nson`: a type and a block of elements, a buffer or a scalar; blocks belong to one value | init, push, pop, concat, move, clone, clean, sort | everything else |
| Reference counts | `buf.c`, `pointer.c` | `count` in `NsonBuf` and `NsonPointerRef`, plain `unsigned` | new, wrap, retain, release, shrink | clean and clone of values; the user's destructor is called back |
| Objects | `object.c` | array of entries and a mark, `messy` | put, get (sorts first), get by index, from_arr, clone | libc `qsort`, `bsearch`; hands out pointers into its array |
| Map, filter, reduce | `map_reduce.c` | on the caller's stack: `reserved`, a mutex, an array of `ThreadInfo` | `nson_map`, `nson_map_thread(_ext)`, `nson_filter`, `nson_reduce` | pthreads; the user's mapper is called back by several threads |
| JSON parser | `json.c` | a stack of open arrays, `old_top`, the position | `nson_parse_json` | arrays, `nson_obj_from_arr`, buffers |
| Serializers | `json.c`, `plist.c`, `array.c`, `object.c` | none | `nson_json_write`, `nson_plist_write`, over `__nson_arr_serialize`, `__nson_obj_serialize` | stdio |
| Property list parser | `plist.c` | as the JSON parser, and a `static string_tag` that outlives a call | `nson_parse_plist` | arrays, `nson_obj_from_arr`, numbers, base64 |
| INI parser | `ini.c` | position in the memory the file is mapped to | `nson_parse_ini` | `nson_obj_put`; relies on a zero behind the text |
| File loading | `data.c` | the mapping of a file | `nson_load` | `open`, `fstat`, `mmap`, `munmap`; calls a parser |
| Codecs | `util.c`, `map_reduce.c` | none | decimal numbers, reals, hex, base64, UTF-8 | parsers, serializers, user mappers |
| Tree walk | `stack.c` | stack of (element, index) | `stack_walk` | called by the tests only |

### What is hard in it

* **Concurrency** is found in one place, `nson_map_thread_ext`: workers with an
  initial chunk of their own draw further chunks from a shared counter,
  `pthread_create` may fail, and everything they share lives in the caller's
  stack frame. The mappers they run may clean, clone and encode values, which
  changes reference counts that are not atomic.
* **Ownership** is spread over a dozen operations that move elements between
  blocks by `memcpy`/`memset`: a mistake shows only many calls later.
* **Stale marks**: objects are sorted on demand, depending on a mark that
  `nson_obj_put` has to keep right, below pointers that callers hold.
* **Partial failure**: allocations fail inside clone, push and init; a document
  turns out to be malformed with levels open.
* **Stack discipline** of the parsers: closing brackets, one by one, must find
  what they close, for every text. Property lists add results that errors leave
  as an earlier step set them, and a static variable that one call leaves to the
  next.
* **Writer against reader**: escapes, digits and base64 are written in one place
  and read in another, with bounds, signs and digit orders that each gets right
  or wrong for itself.
* **The end of the text**: the INI parser is given a length and does not look at
  it; whether there is a zero behind a file is page arithmetic in `nson_load`.

`PROJECT.json` lists each hazard at its line under `hazards`, with the
properties that would catch it going wrong.

## 2. Modules

| Module | Models | Kind |
|---|---|---|
| `ParallelMap` | what a caller of `nson_map`/`nson_map_thread` is entitled to | abstract specification |
| `MapThread` | `nson_map_thread`, `_ext`, `map_thread_wrapper`, `nson_map` | detailed specification, refines `ParallelMap` |
| `MapThreadProofs` | | inductive invariant and safety theorems of `MapThread`; `MapThread` implements `ParallelMap`, proved |
| `RefCount`, `MCRefCount` | retain and release under concurrent mappers | loads and stores of `count` are steps |
| `ValueMemory`, `MCValueMemory` | ownership under any sequence of value operations | sequential, allocations fail |
| `ObjectIndex` | put, sort on demand, binary search, borrowed pointers | sequential |
| `JsonParser` | `nson_parse_json` over tokens | sequential |
| `JsonNesting` | a value and a text as brackets and scalars in a row | reference for `JsonParser` |
| `JsonGrammar`, `MCJsonParser` | the texts of JSON values, written from the grammar | reference for `JsonParser` |
| `JsonString`, `MCJsonString` | writing, measuring and translating the characters of a JSON string | sequential |
| `JsonPieces` | what JSON says of the characters and escapes of a string | reference for `JsonString` |
| `Serializer`, `JsonWriter` | `nson_json_write` over the array and object loops that property lists share | functions from values to tokens |
| `Characters`, `Codecs` | bytes, UTF-8, decimal numbers, reals, base64 | functions of bytes |
| `PlistText` | `plist_escape` and `parse_string` | functions of bytes |
| `PlistParser` | `nson_parse_plist`, several calls one behind the other | sequential; tokens whose texts are bytes |
| `PlistWriter`, `MCPlist` | `nson_plist_write`; documents, and what a list can carry | reference for `PlistParser` |
| `IniFile`, `MCIniFile` | `nson_load` under `nson_parse_ini` and `parse_line` | memory in pages |
| `IniLines` | what the lines of a file mean | reference for `IniFile` |
| `ObjectIndexProofs`, `JsonStringProofs` | | inductive invariants and safety theorems of `ObjectIndex` and `JsonString` |
| `RefCountProofs`, `ValueMemoryProofs`, `JsonParserProofs`, `IniFileProofs`, `PlistParserProofs` | | the same for the modules of these names; the last one also for `Codecs` (base64) and `PlistText` |

### MapThread

The state is the frame of `nson_map_thread_ext` (`reserved`, the mutex `lock`,
the loop variable `k`), the frames of the wrappers (`pc`, `i`, `end` by thread
id) and what was done to the array (`mapped`). `Init` covers both ways in: the
settings `nson_map_thread` computes for a machine with p processors, and those a
caller passes to `nson_map_thread_ext`. Reading `reserved` and writing it back
are two steps, as they are in the code, so the mutex is what makes them one. A
mapper call is a step that begins and a step that ends. The result of a mapper
is dropped by the wrapper (`rv` of the thread is never written) and returned by
`nson_map`. A `pthread_create` that fails leaves the thread `"lost"`;
`pthread_join` on its uninitialized handle may do nothing or end the process
(`"crashed"`).

`ParallelMap` has four pieces of state (elements to do, in a mapper, done;
returned or not) and three actions. The refinement mapping computes them from
`pc`, `i` and `mapped`.

### RefCount

Slots are the elements of the array being mapped; `WorkerOf` says which worker
maps which slot. Cells are `NsonBuf`s or `NsonPointerRef`s. `count++`, `count--`
and the test for 0 are steps of their own; the test may load the count again or use
what was just stored, as a compiler pleases. Slots of one worker or of several may
share cells from the beginning, and `unsigned` wraps (`Modulus`).

NSON takes no locks; for threading beyond its map, "you must lock the data by your
own" (its `README.md:38-40`). Nothing says whether this holds for clones in one array
too, and nothing in `nson_map_thread` looks for them. So the model lets workers meet
at a count, and `raced` remembers the cells where two of them were between the load and
the last look at once. Of these nothing can be promised, and the properties say nothing;
of every other cell, shared or not, they say all. What follows an access to freed memory
is undefined: the worker stops (`Accessible`).

### ValueMemory

A value is a tree; only buffers have identities, as blocks are never shared.
Each operation is one action (there is one thread) with its error returns; where
the code would write through a null pointer or abort, the model stops, with
`last.rv` saying so. An object carries its mark `messy`: in a marked one
`nson_obj_put` compares the last key with the new one, and if one of them is a
string whose buffer could not be allocated, this reads through a null pointer
(`Compared`). The caller obeys the rules of the README of NSON: it initializes,
clones, moves and pops into empty values and passes no value twice.

### ObjectIndex

An entry is its key, keys are integers; `Strings` are those that are strings. The
parsers accept other keys (`{1:2}`), `search_key` asserts that there are none
(`ProbeStops`). `qsort` is any ordered permutation, `bsearch` is run step by step.
`borrowed` is a ghost: the pointers callers hold. Strings with a zero byte in them,
which `nson_cmp` compares to their end and `strcmp` does not, are not among the keys.

### JsonParser

A document is a sequence of tokens, each what one round of the loop consumes;
`"bad"` stands for what makes the parser give up (an unknown character, an
unterminated string, a number out of range), `"cut"` for a literal within the
last bytes of the text, which the parser accepts without comparing it: it moves on by
the length the literal should have (`MissingBytes`), up to 4 bytes behind the text.
`OverrunsOnlyAtLoneLiteral` says when a caller gets to see that. `null`
becomes an empty string, as in the code. `JsonWriter` gives the tokens that
`nson_json_write` makes of a value: whatever the parser accepted is written as
a text of the grammar again (`WritesJson`).

`JsonNesting` looks at both sides without a recursive operator: a value is unfolded
one level at a time, every container into its brackets and its elements, as often
as the text is long, and `NestingOf` reads the same row off the text. What was
accepted must be the same row (`ValueMatchesText`).

### JsonString

A string is a sequence of bytes. A behaviour runs `json_escape_string` and then
reads the text that came out, or reads any text from its opening quote on; each
round of a loop is a step. `dest` is what `parse_json_string` has written, `read`
the last position `__nson_parse_hex` looked at: neither is checked by the code at
the places marked "TODO: correctly supply upper bounds" (`json.c:78`, `82`).
Buffers are given by malloc; that this may fail is `ValueMemory`'s.

Three things the module shows that no document of NSON speaks of, so they are
preconditions of the properties and not findings. A backslash is written as it
is, so it is read as the start of an escape. An escape with nothing before it (at
the start, or right after another one) makes `fwrite` return 0, which ends the
string without a closing quote, and `nson_json_write` does not look at the
result. `json_str_len` takes an escaped quote for the end if it comes right
behind an escaped backslash.

`JsonPieces` says what a string means without looking at the code: it is a sequence
of pieces, a plain byte, an escape of one character or a code point in four
digits, each with the bytes it stands for. `Composed` is a set of such sequences;
`ReadsPieces` is about their texts. It leaves out `\b` and `\f` and the halves of
surrogate pairs, which the code does not translate as JSON says.

### Codecs, PlistText, PlistWriter

Each routine is a function of the bytes it is given; the loops are recursive
functions over the bytes they have passed. `MaxInt` is the largest `int64_t`, a
real counts units of `1 / Scale`, `SignedChar` says whether `char` has a sign.
The model keeps what the code does with signs: a shift of a negative `char`
shifts ones in, which overwrite the bits of the byte before it (`Joined`). `Encode`
is stated by the position in the output (`Sextet`: the six bits of symbol k), as
that is what the loop of the code comes to and what can be proved about.

### PlistParser

A document is a sequence of tokens: white space, a tag, or a value with the bytes
of its text and whether its closing tag is there. `doc` and `i` are the text and
the position in it; `inside` says that the position is behind the beginning of
token `i`, which is where most errors leave it: they do not leave the loop, the
next round does, because it finds no `<`. `stack`, `old_top`, `rv` and `nson`
are the variables of the code, `string_tag` the static one. Calls follow one
another; `refused` remembers that one of those before failed, `written`
(`MCPlist`) the value whose text is being read. `Fail` is a jump to `err`,
`Stays` a round whose `skip_tag` failed.

What a list can carry, `Readable` in `MCPlist`, is less than what may be written.
It is a precondition of `ReadsPlist`, each part of it is needed, and each is
something the code does:

* an escape at the start of a text or right behind another one ends it
  (`IsCut`: `fwrite` of no bytes returns 0, `plist.c:400`);
* control characters are written with two hexadecimal digits and read as decimal
  ones: only 1 to 9 come back;
* the smallest `int64_t` is refused (`util.c:53`);
* the digits of a fraction are read back to front and the sign of a negative
  real is lost (`util.c:188`, `195`), so reals are not negative and their
  fractions are palindromes;
* base64 writes bytes above 127 wrong unless they are the first of three;
* nothing is written for nil, and the document is left without its end.

On the other hand the parser accepts `<array> ... </dict>` with a key in it, and
numbers without their closing tag: `ValueMatchesDocument` goes by the closing tag
and by what was read.

### IniFile

`At` is the memory: the bytes of the file, zeros up to the end of the last page
that holds one, and nothing that can be read behind it. The guard page of
`nson_load` is asked for when `st_size + 2` is a multiple of the page size; it is
mapped from the file as well, where there is no file, so reading it fails as
outside of the mapping, and it is not part of the length that is unmapped.
`Line` is one round of `nson_parse_ini` with the whole of `parse_line`. Reading
what cannot be read ends in `"crashed"`. Three things the code does that no
document speaks of: a key is ended by a blank only, so it may run over the end
of its line, and then its value has a length below 0 and no buffer (`ok` is
FALSE); so has the value behind blank lines; and `rv` is that of the last line,
so errors of the lines before it are not reported.

`IniLines` cuts the same file into lines without looking at the memory or the loop
(`LineEnds`, `LineOf`) and says of a line on its own whether it is a comment, whether
it has a value, and which entry it stands for (`EntryOf`). The entry of a line is at
the place that the number of entry lines up to it gives (`EntriesUpTo`).

## 3. Runs

| Run | Question | Bounds, and why they are enough |
|---|---|---|
| `map_threads` | Is every element mapped exactly once, by one thread at a time, and does the call end, as `ParallelMap` promises? | up to 7 elements, 3 threads, chunks of up to 3: every thread takes more than one chunk from `reserved`, chunks end before, at and behind the end of the array. `ChunkCap` is 2 in place of 32, so that the cap is met |
| `map_spawn_failure` | What is lost when threads are not created, and does the call end? | up to 6 elements, chunks of up to 2, any subset of the two created threads failing |
| `refcount` | Are counts exact and cells freed once, if workers share them in any way but do not change one count at the same time? | 2 workers, 2 slots each, 3 cells, any sharing at the beginning: clone, clean, move and encode of a cell that the other worker holds or is releasing; a cell that is left and one that is new. `Modulus` is 7, one more than there are places |
| `values` | Is each buffer freed exactly once, whatever the calls and whichever allocation fails? | 2 variables, 3 buffers, trees of 2 levels and arrays of up to 4: every operation meets empty, partial and full arrays, shared buffers and nested ones. Trees with more than three elements in all (`MaxEntries`) are checked but not changed further (`Small`) |
| `values_clone_object` | violation: a tree with an object in it is cloned | |
| `object_parsed` | Are lookups in parsed objects exact, do the pointers they return stay valid, and what stops a lookup? | up to 4 entries, 3 keys that are strings and 2 that are not, so duplicates, absent keys on either side and both parities of the range occur, and lookups that meet an odd key and that pass it by |
| `object_put` | violation: an object that was put together is searched unsorted | |
| `json` | Is well-formed JSON read to its value; is anything else read to what it says or refused, without leaks? Is what was accepted written as well-formed JSON? | all token sequences up to 4, the texts of all values of two levels with two elements on each, the same with white space and with any one token missing |
| `json_strings` | Does translating a string stay in its buffer and in the text? Are legal escapes read for what they mean? Is a string that was written read back? | strings of up to 5 bytes of six kinds; texts of up to 5 bytes behind the quote or behind `\u`; up to 3 pieces out of seven, with code points of one, two and three bytes: escapes stand first, last, next to each other and cut off by the end |
| `plist` | Is a value that is written read back? Does what is accepted match its text? Are results and the static variable left so that the caller and the next call can rely on them? | bodies of up to 2 tokens of 26 kinds and of up to 4 of 8 kinds, so that levels are opened, closed wrongly, closed once too often and left open; texts of up to 3 bytes with every escape, references of up to 4 digits with up to 3 bytes behind them; blobs of up to 4 bytes (a full group and one over); values of two levels; a second call behind each. `MaxInt` is 999 and reals have 2 decimals: numbers at, below and above the bound occur |
| `ini` | Which files make the parser read what it must not? Are lines read to the entries they show? | every file of up to 6 characters of four kinds on pages of 4 bytes: empty, one short of a page, a page, more than a page; keys longer than the 2 characters kept |
| `ini_terminated` | violation: there is no zero behind the file | the same |

The last states of a parser, of a program that was aborted, and of workers whose
cells are all freed have no successor, so the `.cfg` files of `json`, `json_strings`,
`plist`, `ini*`, `values*`, `object_parsed` and `refcount` switch the deadlock check
off. It is on for the map, whose waiting for a mutex and joining it is about (`Over`
is the only step of a call that returned), and for `object_put`.

### Fairness

* `MapThread`: weak fairness for the calling thread and for each worker: threads
  are scheduled and mappers return. A worker waiting for the mutex gets only
  weak fairness, which lets others overtake it as often as they like; the call
  still ends, because every chunk taken moves `reserved` forward and the array
  is finite.
* `JsonParser`: the parser runs.
* `PlistParser`: a call that was begun runs (`WF` of `Step`); nobody is obliged to
  call again, so the fairness does not cover `Call`.
* `IniFile`: the call runs (`WF` of `Next`, every action is a step of it).
* `ObjectIndex`, `RefCount`, `ValueMemory` and `JsonString` have no liveness properties.

## 4. Findings

1. `values_clone_object` (`object.c:89`): a clone of a tree with an object in it
   fails an assertion.
2. `object_put` (`object.c:132`): the test that should mark an object messy
   reads the mark it is about to set, so an object built with `nson_obj_put` is
   never sorted and lookups miss keys.
3. `ini_terminated` (`data.c:176`): the guard page that should hold the zero
   behind a file of full pages is asked for at the wrong size. `ini` shows exactly
   which files the parser leaves its memory for (`CrashesAtPageEnds`): besides
   those it is the files one byte short of a page whose last line has no end, as
   the loop steps over the zero that ended that line (`ini.c:80`).

What the models show besides, in the form of a precondition or of the part of a
property that allows it:

* the result of `pthread_create` is ignored (`map_reduce.c:263`): the chunk of a
  thread that was not created is not mapped and the call returns 0.
  `LossConfined` says that this is all that is lost; `AllMapped` needs
  `SpawnMayFail = FALSE`;
* counts are not atomic (`buf.c:86`): values that share a buffer are safe to map in
  parallel only as long as no two mappers change its count at once. `CountsExact` and
  the other properties of `RefCount` leave out the cells in `raced`; without that
  exception the instance has a counterexample to each;
* a key that is no string stops lookups that come across it (`object.c:52`), while
  the parsers accept it: `StopsOnlyAtOddKeys` says that nothing else does;
* a text that is only a literal cut short is read, and answered with a position
  behind its end (`json.c:292-317`): `OverrunsOnlyAtLoneLiteral`;
* a clone that runs out of memory inside a tree returns 0 with children missing
  (`data.c:72`); counts stay exact all the same;
* a property list that failed in a key leaves `string_tag` at `"key"`, and the next
  list that starts with a string is refused: `ReadsPlist` holds for calls before
  which none failed. `ValueMeansSuccess` shows that as long as no call failed,
  calls that succeed leave the variable right. Behind a failed one this is not so:
  a list without a string in it is read, and leaves `string_tag` at `"key"` for
  the call after it (the document `<true/>` in `LaterDocs` is that case);
* a failed `nson_parse_plist` may return 0 or more: only the value tells;
* behind a reference wider than a byte the parser of a text leaves it
  (`plist.c:68`): `OverrunsOnlyAtWideReferences` says that nothing else does.

## 5. Proofs

`MapThreadProofs` proves, for every length, number of threads, chunk size and
cap, with and without failing `pthread_create`:

* `Invariance`: `Spec => []IndInv`, and from it
* `TypeCorrect`, `ExclusiveMapping` (`NoElementTwice`), `WorkersJoined`
  (`NoneLeftRunning`), `OnlyUnbornChunksLost` (`LossConfined`);
* `EverythingMapped`: `AllMapped` under the assumption that threads can always
  be created.

`ImplementsParallelMapSafety` says that under the same assumption every behaviour of `MapThread` is one of `ParallelMap` (initial states
to initial states, each step to a step or a stutter).

`ObjectIndexProofs` proves, for any set of integer keys and any size,
`IndexInvariance` and from it `IndexTypes`, `SearchKeepsKey` (`SearchOnTrack`),
`PointersKeepKeys` (`BorrowedKeepKey`), `StringKeysStopNothing`
(`StopsOnlyAtOddKeys`) and, for objects made by a parser,
`LookupsAreExact` (`GetFindsKey`). `JsonStringProofs` proves, for strings and
texts of any length over all bytes, `BoundsKept` and from it `StringTypes` and
`StaysInBounds` (`InBounds`); `PiecesAreRead` (`ReadsPieces`), for any sequences of
any pieces; and `WrittenIsRead` (`WritesBack`), for any strings.

`RefCountProofs` proves, for any number of workers, slots and cells and any sharing
between them, `CountsInvariance` and from it `TypeCorrect`, `NothingUsedAfterFree`
(`NoUseAfterFree`), `CountsAreExact` (`CountsExact`) and the action property
`LastHolderFrees` (`FreedByLastHolder`), each for the cells that are not in `raced`; and
`UnsharedNeverRaces`: in an array without clones across workers there are no others,
whatever the mappers do.

`ValueMemoryProofs` proves, for any number of variables and buffers, trees of any
width and depth and with failing allocations, `ValuesInvariance` and from it
`TypeCorrect` (`TypeOK`) and `CountsAreExact` (`CountsExact`): whatever is called in whichever order, a
count is the number of strings that refer to the buffer.

`JsonParserProofs` proves, for every token sequence, `ParserInvariance` and from
it `TypeCorrect` (the position is at most 4 bytes behind the text),
`OverrunIsLoneLiteral` (`OverrunsOnlyAtLoneLiteral`), `NoLeak` (`NothingLeaks`) and
`ValueOrError` (`NilIffError`); and `TextInvariance` and from it `ValueIsText` (`ValueMatchesText`): whatever is
accepted, to any depth, is what the text says.

`IniFileProofs` proves, for files of any length and content, any page size and any
length of keys, `ReaderInvariance` and from it `TypeCorrect`,
`CrashesOnlyAtPageEnds` (`CrashesAtPageEnds`), `ValuesInLine` (`ValuesStayInLine`)
and `FailuresAreReported` (`FailuresReported`); and `LinesInvariance` and from it
`LinesAreRead` (`LinesRead`): what a file of well-formed lines is read to.

`PlistParserProofs` proves, for any documents in any number of calls,
`ParserInvariance` and from it `TypeCorrect`, `NoLeak` (`NothingLeaks`) and
`ValueOnlyOnSuccess` (`ValueMeansSuccess`); `OverrunsOnlyBehindWide`
(`OverrunsOnlyAtWideReferences`), for texts of any length; and about the codec
`Base64RoundTrip`: `MapperDecode(Encode(s))` is `s` for every sequence of bytes in
which negative chars come only first of three, with `MapperInverse`
(`MapperUndoesEncoding`), which says so of the bytes the parser meets.

The only assumptions on the constants are the named ones of the modules:
`BoundsAssumption` (the bounds of the map are natural numbers, those on threads
and chunks positive), `IndexBounds` (keys are integers, some of them strings), `TextAssumption`
(strings are sequences of bytes, a text starts with its quote),
`PieceAssumption` (pieces are those JSON allows, `IsPiece`),
`SlotsAssumption` (slots and workers are finite sets, each slot has a worker) and
`CountsAreWide` (an `unsigned` can count more than there are values: those need
memory), `ValueBounds` (finitely
many variables; the bounds on trees are natural numbers, an array may be one level
deep; a missing buffer is not a buffer),
`DocsAreDocuments` and `PlistInstance` (documents are sequences of
tokens), `IniInstance` (files are sequences of characters, pages are not empty)
and `CodecBounds` (`MaxInt` and `Decimals` are natural numbers).

**The argument for the map.** `NoElementTwice` is not inductive: it says nothing of chunks
that were handed out and not yet worked on. `IndInv` says that everything below
`reserved` is either mapped once or *held* by exactly one worker, and that
everything from `reserved` on is untouched (`PartitionInv`). What a worker holds
is its initial chunk before it runs, `[i, end)` afterwards, and nothing between
reading `reserved` and writing it back. For that last gap the invariant needs
the mutex (`LockInv`: only its holder is between the lock and the unlock, and
what it read is still the value of `reserved`). The initial chunks are disjoint
and fill `[0, threads * chunk_size)`, the only non-linear arithmetic; it is in
lemmas of its own. `MainInv` ties the calling thread to the workers that exist
by then, and `SequentialInv` treats `nson_map`.

**The argument for lookups.** A lookup sorts the entries again although callers
hold pointers to them. `BorrowedKeepKey` survives because the pointers were taken
when the array was in order (`IndInv` says so for as long as there are any), and
an ordered permutation of an ordered array is that array: if the two differed at
some place, one of them would have more entries on one side of it than places
there (`OrderedStays`, from the pigeonhole lemma `TooMany`). `SearchOnTrack` needs
that the middle lies in the part that is left and that order decides on which
side of it the key can be; at the end that part is empty or the key was met. Nothing
else than an odd key can stop a call: `nson_obj_put` compares only with a last key
that is there, and the search looks only at entries of the array, which no sort takes
an entry from or adds one to.

**The argument for strings.** Between rounds the buffer holds at most as many
bytes as were passed of the text, an escape takes at least as many as it gives (a
code point takes six and gives up to three), and the text ends at a quote, which
is not a hexadecimal digit: so `__nson_parse_hex` reads up to it and never behind
it (`HexStopsAtQuote`).

That a string is read as what it means is an invariant about every way to cut the
text into pieces (`ReaderInv`): while `json_str_len` looks for the end it is at or
before the last quote, and at the beginning of a round `parse_json_string` is at the
beginning of a piece and has the bytes of all pieces before it (`AtPiece`). A quote
that is not the last is the second byte of an escape (`InPiece`, `NoEarlyEnd`); the
first backslash from the beginning of a piece begins another one, and all between
are plain (`FirstBackslash`), so a round ends at the beginning of a piece again
(`RunAndPiece`). `FlattenSeq` of the community modules is a recursive function; that
it gives the last of the partial concatenations is `Flattened`. For what is written,
`WriterInv` says that the text and the pending bytes are the pieces of the string up
to here, and `PiecesForString` that these pieces stand for the string: so
`ReadsPieces` is about that text, too.

**The argument for reference counts.** Between the load and the store of `count`
the cell does not say how many holders there are, and several workers may be on their
way to it. `IndInv` says that a count is the number of the holders that are `Counted`:
those that are not being cloned and not yet counted, nor uncounted and not yet wiped,
by any worker. For a cell that is not in `raced` only one worker is between load and
last look (`OneCounts`), so what it loaded is still the count when it stores, and the
store changes the count by the one holder that becomes counted or uncounted. A cell
is live while a holder is counted or a release of it is at its test (`Tested`). That a
worker that is on its way to a retain or release finds the cell live needs `WorkOf`: it
clones from, or cleans, a value of its own that still counts. `UnsharedNeverRaces`
needs that no step hands a cell to another worker.

**The argument for ownership.** `CountsExact` with `TypeOK` is inductive; the work
is in what an operation does to the number of references in a tree of unknown
depth. Trees are therefore looked at through their *places* (the elements to enter
on each level): the references to a buffer are the places where `At` finds it, and
their number needs no recursion. Elements of an array are trees one level less deep
(`Elements`, `Container`), and one more element adds its own references
(`AppendAdds`: the places below the new element correspond to the places in it).
Push, pop, put and concat follow from that, and so does `SelectSplits`: what
`nson_filter` keeps and what it drops add up to what it was given, which is why
cleaning the rest of the old array releases just that. A clone is built from the
deepest level upwards; `ClonesAreTrees` says that it is a tree whatever the
allocations that failed, and the counts are raised by what it holds and not by what
the original held. At last `TotalSplits` divides all references into those of one
variable and those elsewhere, so that a call is accounted for by the one or two
variables it writes (`OneTree`, `TwoTrees`).

**The argument for the JSON parser.** `NothingLeaks` needs that `old_top`, which
nobody cleans, is empty when the parser leaves through the closing bracket of the
last level. That level is empty because the loop goes on only while another one
is open: a bottom that holds a value ends it (`BottomLast`). The rest of `IndInv`
says that the stack is one of arrays of values and that nothing is handed out
before the end. Behind the text the parser can be only after a cut literal, the last
token; with an array open this fails, and with none open nothing but white space can
have come before it.

That a value is what the text says (`TextInv`) needs the stack and the text side by
side: `T[n]` is what level n holds, completely unfolded, and `J[n]` the text up to
there, which is `J[n - 1]`, an opening bracket and `T[n]`; the last one is the whole
text read (`Pieces`). A scalar is put behind the last of both (`PiecesAdd`), an
opening bracket begins a level (`PiecesPush`), and a closing one turns the piece of
the top level, between its brackets, into the last piece of the level below
(`CloseText`), where nothing but associativity is left to show. Trees have no
induction here; what replaces it is the sequence of all unfoldings of some items
(`IsUnfolding`), which for a concatenation is that of its parts place by place
(`UnfoldsConcat`) and for a container that of its elements one step later
(`UnfoldsContainer`).

**The argument for property lists.** The same, with two complications. Most
errors leave the position inside a token (`inside`) and the stack with a popped
level or a converted object on top; what `IndInv` says of levels therefore holds
outside of tokens, and the next round finds no `<` and leaves. And `string_tag` is
`"string"` in the loop unless an earlier call failed (`TagRestored`), which a key
breaks and the string behind it restores, both within a round or with an error.
For the text of a string it is shown that the recursion of `parse_string` has a
solution (each round looks only at later positions), and that without a wide
reference each round ends at most one position behind the text: a decimal number
ends within the text (`DevParsed`), and what is found by `strncmp` lies in it.

**The argument for base64.** Byte n of a group of three is made of the bits of two
symbols (`GroupOfByte`, `GroupOfSymbol`), and each is what `Sextet` put there: the
low bits of one byte and the high bits of the next do not overlap unless the
latter is a negative char (`JoinedBits`). The decoder stops at the padding, which
is no symbol, so it sees as many symbols as were written.

**The argument for INI files.** A line begins behind a line end or, once, behind
the zero that ended the last one (`LineStart`). A search stops at the latest where
the mapping ends, and reaches that only if there is no zero before it, that is if
the file fills its pages; behind the last zero there is another one unless
the file leaves room for just one (`FillsPage`). The value of a line ends with the
line (`LineParsed`), and a last line that is one word is answered with -1 by the
last round there is (`LastLineParsed`, `LastReported`).

That the lines are read as what they mean (`LinesInv`) is shown round by round. The
position is always a line end of the reference or 0, and what the loop finds from it
is the next one (`NextLine`), so the memory holds that line (`Holds`). In it every
search of `parse_line` stops where the reference cuts: `EndOfBlanks` at the
indentation (`BlanksSkipped`), `EndOfKey` at the length of the key (`KeyEnds`), and
neither leaves a well-formed line, whose result is its entry or none (`LineRead`).
`EntryEnds`, the lines with entries up to the position, grows by that line or not at
all, and so do the entries (`NextEntry`). Where the loop stops, no line is left: the
zero it stops at is behind the file, and an unended last line was read before
(`LinesEnd`).

The type invariants and strengthened invariants of `MapThread`, `ObjectIndex` and
`JsonString` are proved and no longer run: TLC checks the properties that follow
from them. Each `IndInv` and `LinesInv` was checked by TLC on the instance of the component's
run before it was proved; `ReaderInv`, `WriterInv` and `TextInv`, which speak of all
sequences of some kind, cannot be evaluated, and stand on `ReadsPieces`, `WritesBack` and
`ValueMatchesText`, which were.

**Only model-checked:**

* liveness (`Termination`, `ParserReturns`, `CallReturns`,
  `LoadReturns`, the fairness part of `ImplementsParallelMap`), which is out of the
  prover's reach;
* what JSON and property lists mean by the grammar and by the writers (`ReadsJson`,
  `WritesJson`, `ReadsPlist`) and `ValueMatchesDocument`: their values are trees, and
  the operators over them are recursive, which a module with theorems may not reach.

## 6. Not modelled, and why

* `stack_walk`: only the tests call it. `nson_cmp` and `nson_arr_sort`: an order
  with a pointer comparison in it, `qsort` is external. `nson_reduce` and
  `scalar.c`: a fold and accessors; nothing to go wrong that a test would not show.
* `nson_obj_to_arr`: called by nothing and declared in no header.
* Two threads that look up in one object at once, or that parse property lists at
  once and share `string_tag`.
* Rounding of doubles; `free` of the pointer that `nson_mapper_b64_dec` has moved
  (`map_reduce.c:87`), which is undefined in the allocator; threads beyond the
  width of a short.
* Which result the threaded map has: the wrapper drops that of the mapper
  (`map_reduce.c:217`), no document says what it should be, and `ParallelMap` speaks of
  the elements only. Nor what `pthread_join` does with the handle of a thread that was
  never created: it may end the process, and `Termination` counts that as an end.
* What does not come back from a text: strings and texts that are cut at an escape
  (`json.c:149`, `plist.c:400`), reals (`util.c:188`) and bytes above 127 in base64
  (`map_reduce.c:122`). The modules model what the code makes of them, the round trips
  (`WritesBack`, `ReadsPlist`, `MapperUndoesEncoding`) leave them out, so no property
  would notice if it made something else of them. The same holds for a key in an INI
  file that runs over the end of its line: its value has no buffer (`ValuesStayInLine`),
  but which key it is, `LinesRead` leaves open.
* Failing allocations in the property list and INI parsers: what they do to
  ownership is the same as in `ValueMemory`.
* `bin/`, `bench/`, `fuzzer/`: input and output around the library.

## 7. Plan

1. *Done:* the threaded map (checked, proved, refinement), reference counts,
   ownership, object lookup (checked, proved), JSON parser and serializer, JSON
   strings (checked, proved), property lists both ways with their codecs,
   INI files and their loading.
2. *Done:* proofs of `RefCount`, `JsonParser`, `PlistParser`, `IniFile`, of the
   base64 codec, of ownership in trees of any depth, and of JSON texts, JSON strings
   and INI files being read as what they mean.
3. *Proofs:* that a text written by `plist_escape` is read back (`Escape` and
   `ParseText`, whose recursion is solved in `TextSolved`), along the lines of
   `PiecesAreRead`.
4. *Modules:* `StackWalk` with the recursive traversal as its reference;
   `nson_cmp` as an order; two threads looking up in one object.
