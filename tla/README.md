# A TLA+ model of libcad

libcad is a small C library: a growing array, a hash table, byte streams, an
event loop over `pselect(2)` or `ppoll(2)`, an event queue with a worker thread,
a template engine ('stache) and a CGI toolkit.  Its users include the headers of
`src/include/`; the code is under `src/src/`.  This directory holds TLA+ modules
that model every part of it that has logic of its own, the TLC configurations
that check them on small instances, and TLAPS proofs about the event queue, the
event loops, the array, the hash table, the template engine, the streams, the CGI, its
cookies and its conversions of text for every instance.

Run from this directory:

    tlc -config EventQueue.cfg MCEventQueue       # any cfg with its module
    tlapm EventQueueProofs.tla                    # any module named ...Proofs

## 1. The system

### Parts, state and operations

| Part | Source | State | Operations |
|---|---|---|---|
| event queue | `cad_event_queue_pthread.c` | state (INIT, RUN, STOP), payload, worker thread, two mutexes, a pipe | new, start, stop, free, is_running, get_fd, pull, synchronized; the worker's loop |
| event loop, selector | `cad_events.c` | three `fd_set`s and their upper bound, time-out, four actions | set_read, set_write, set_exception, set_timeout, on_..., wait, free |
| event loop, poller | `cad_events.c` | a `cad_array` of `pollfd`s, time-out, four actions | the same |
| hash table | `cad_hash.c` | entries, capacity, count, salt | count, get, set, del, iterate, clean, free |
| array | `cad_array.c` | one block, capacity, count | count, get, insert, update, del, sort, clear, free |
| 'stache | `cad_stache.c` | read buffer with look-ahead, stack of open sections, stack of partials | render, free |
| streams | `cad_stream_*.c` | a position in a string, a file or a descriptor's buffer | input: next, item, free; output: put, vput, flush, free |
| CGI | `cad_cgi.c`, `cad_cgi_internal.h` | lazily parsed meta-variables, a response with its headers, body and redirect | the accessors, run, the response's setters, flush |
| CGI cookies | `cad_cgi_cookies.c` | a jar (a hash table) of cookies | get, set, the cookie's accessors, parse, flush |
| memory manager | `cad_shared.c` | none | malloc, realloc, free |

### How the parts interact

The poller keeps its descriptors in an array and walks the array's block with a
pointer of its own.  Hash table, array, queue and engine call user functions
(hash, compare, iterator, cleaner, provider, synchronized function, actions,
resolver) in the middle of an operation, and those may call back.  The engine
reads the template and its partials through input streams and writes to an
output stream.  The CGI keeps the meta-variables, the headers and the cookies in
hash tables, reads its request, the query string and the cookies through input
streams and puts its bodies together in string streams.  Only the event queue has
threads of its own.

### What is hard

* **Threads** (queue): start and stop test the state before they take the lock;
  two mutexes are taken in an order that the user's functions can reverse; stop
  joins a thread that must notice a flag; a full pipe would block a worker that
  holds the lock.
* **Callbacks in the middle of an operation** (loops, iterate, render): the data
  the caller walks may move or change under it.
* **Long sequences of legal calls** (hash, array): growth in the middle of an
  insertion, deletion in the middle of a collision chain, slots that remember.
* **Reading ahead and going back** (engine): one character is read before a tag
  is handled, list sections are read again from the buffer, partials are spliced
  in, and the end of the input was seen long before.
* **Failures** of system calls, streams and user functions half way through:
  reads and writes that are short, empty or refused, a malloc that fails between
  two fields, a handler that fails after it has filled a response.
* **Ownership** (CGI): cookies, values, response and request stream are made by
  one party and freed by another, on success and on failure.
* **Text that ends at the wrong place** (parsers): escapes cut by the end of the
  input, separators where a value should be, a read that fails in between.

### What makes each part correct

* Queue: the provider never runs beside a synchronized function; it gets the
  payload of start; items come out in order, once; after stop nothing runs, and
  the worker was joined once; stop and pull return.
* Event loops: each event that the system reports has its action called, once,
  and no other action is called.
* Hash table: it is a map, through growth and deletion, for every hash function;
  every search ends; iterate meets every key once.
* Array: it is a sequence, through growth.
* Engine: what it writes is what the template means; it accepts what is well
  formed; it releases what the resolver gave; it ends.
* Streams: the bytes that one end takes come out of the other, each once and in
  order, whatever the sizes; what vput returns is what was written; the end is
  the end.
* CGI: forms, content types and versions are read as they are meant, also up to
  the place where a read failed; an accessor keeps its answer; a redirect is
  whole; a failed handler leaves nothing behind.
* Cookies: a browser brings back exactly what flushed responses set; a cookie is
  freed once.

## 2. Modules

| Module | Models | Notes |
|---|---|---|
| `DataQueue` | what a queue promises: a FIFO that a stop closes | abstract |
| `EventQueue` | `cad_event_queue_pthread.c` | one action per stretch of code between two shared accesses |
| `MCEventQueue` | instances of it | symmetry |
| `EventQueueProofs` | theorems for any number of controlling threads, and for one; refinement | TLAPS |
| `EventLoop` | what wait promises | abstract |
| `EventsImpl` | what both event loops share | |
| `EventsSelector`, `EventsPoller` | the two event loops | refine `EventLoop` |
| `Vector` | a sequence with gaps | abstract |
| `Array` | `cad_array.c` | refines `Vector` |
| `ArrayProofs` | theorems about the array, refinement | TLAPS |
| `KeyValueMap` | a finite map | abstract |
| `Hash`, `MCHash` | `cad_hash.c` and its instances | refines `KeyValueMap` |
| `HashProofs` | theorems about the hash table, which it shows to implement `KeyValueMap` | TLAPS |
| `Stache` | one call of render in `cad_stache.c` | |
| `StacheReference` | what a template means | recursive, used by TLC only |
| `MCStache` | instances of `Stache`, compared with the reference | |
| `StacheProofs` | theorems about what the engine holds | TLAPS |
| `EventsSelectorProofs`, `EventsPollerProofs` | theorems about each event loop, refinement | TLAPS |
| `ByteChannel` | what a pair of streams promises | abstract |
| `OutputStream` | the output side of the three `cad_stream_*.c` | |
| `InputStream` | their input side, at the other end | extends `OutputStream`, refines `ByteChannel` |
| `MCStreams` | texts to put | |
| `StreamsProofs` | theorems about both ends of a stream, refinement | TLAPS |
| `CgiText` | the conversions of `cad_cgi.c` and `cad_cgi_cookies.c`, as loops over texts | |
| `QueryParser` | `parse_query_or_form` of `cad_cgi.c`, and what a form means | state machine `ParserSpec`, extends `CgiText` |
| `MCCgiText` | every short text, and what should be made of it | |
| `CgiMeta` | the accessors of the meta-variables in `cad_cgi.c` | state and operations |
| `CgiCookies` | cookies and the jar, `cad_cgi_cookies.c` | state and operations, extends `CgiMeta` |
| `Cgi` | run, the response, flush and free of `cad_cgi.c`, several processes of a browser | composes the two |
| `MCCgi` | requests, names and values | |
| `CgiProofs` | theorems about the response, the cookies, what a browser keeps of them, the accessors, the form parser and the other conversions | TLAPS, extends `Cgi` and `MCCgiText` |

**Event queue.**  Threads are the user's and those `pthread_create` makes.  `pc`
says which statement a thread is about to run: `b_...` in start, `s_...` in
stop, `y_lock` in synchronized, `r_read` in pull, `w_...` in the worker.  Each
action reads or writes one shared thing (the state, a mutex, the pipe, a thread)
and the local code up to the next.  `saw` and `joins` are the locals of stop, so
that what was read before the lock is used after it, as in the code.  Items are
numbered as the provider makes them, which is how order is observed.  The calls
that may fail are in `Faults`.  Client contract: free is called when nobody else
is in a call.

**Event loops.**  wait is cut at the user's actions, which may register descriptors.
What `pselect` or `ppoll` reports is any set it may report.  The poller's block has a
capacity and grows as `Array` says; `dangling` says that wait's pointer is into a block
that was reallocated, and what is read outside the block is any value.  `EventLoop`
leaves open what stays registered when wait returns: `cad_events.h` says that all of it
does, both implementations forget it (`EventsSelector_stay_set` in section 6).  Actions
the constructor left uninitialised are `WILD`; calling one crashes.

**Array.**  The block is a sequence of slots that hold an element, zero, or
junk, as malloc, realloc, memset and memmove leave them.  Its capacity is one of
those that doubling gives, up to `MaxCapacity`.  qsort is any permutation that
leaves the elements in order, a comparator's ties included.  `Vector` says that
elements keep their places and lets gaps hold anything.

**Hash table.**  The hash function is any function from keys to the chosen hash
values, fixed at the start.  The probe is computed with the code's unsigned
arithmetic, wrapped at `Width` bits.  set, get and del are one action each;
iterate is cut at the calls of the iterator.  clean calls its iterator in one step,
for one that leaves the table alone: in between, a key that was freed is still in its
slot.  What `keys.free` does is left out.  rehash is its passes, one
move each, until nothing moves; that they are no more than `rehash` counts is proved
(`Rehashes`).

**'stache.**  A template is a sequence of tokens: a character of text or a whole tag.
The buffer keeps the code's data, index and end-of-file flag and the stack of partials
with the saved look-ahead.  A token stands for the characters of its tag; only where the
code loses one of them (`Behead`, `Debris`) does it matter that there are several.  The
strings of the resolver are tokens too, since the tags in them are put as they are when
the string is a value, and rendered when it is a partial.  The output stream may refuse
characters (`REFUSED`), which are then missing: the engine does not look at what vput
returns.  The resolver answers from an environment; the name `item` is the current item
of the innermost list.

**Streams.**  The two ends of one thing are one state: a pipe, a file that is read while
it grows, or a string that is read once it is complete.  A text is what printf makes of
a format, a sequence of signed bytes.  Output: the string's block doubles until the text
and its NUL fit, `MaxCapacity` being the largest one; a FILE keeps bytes that a flush
hands over; the descriptor's vput has its locals in `call`, formats again after it has
doubled its buffer, and calls `write(2)` from an offset that is anything (`Offsets`: the
code never sets it) until the end of the text is reached or a write fails.  Input:
`buffer`, `index` and `max` are the code's, filled by reads that return between one and
`BufferSize` bytes, none, or a failure.  The reader takes items until EOF, with next in
between, and may call next again after it failed; the library's own loops
(`cad_cgi.c:382`, `cad_stache.c:130`) stop there.  The kind of the stream is chosen at
the start and never changes.

**Conversions.**  A loop over the characters of a text is a function on its positions,
whose value at each is a record with the loop's variables (`content_type_step`,
`cookies_step`, `value_step`, `body_step`), or a fold with such a record
(`version_step`).  Characters are their codes.  The form parser is a state machine of
its own, because its stream may fail between two characters: one action per case of the
switch, and `Advance` is the call of next at the end of the loop's body, which negates
the state when it fails.  `Meaning` says what a text means as a form without going
through it: where its pairs start, where each is cut, and what stands in either part
once its escapes are decoded.  The names of the parser's specification (`ParserInit`,
`ParserNext`, `ParserSpec`) differ from those of `Cgi` because `CgiProofs` is about
both.

**CGI.**  A process makes a context, runs a handler, flushes and frees the response,
runs another, frees the context.  A handler is any sequence of calls of the part of the
interface that the request chooses (`uses`).  The heap is a function from addresses to
cookies, of which the handlers make `MaxCookies` at most; the jar maps names to
addresses.  `alive`, `kept` and `wild` are not fields of a cookie but say whether it was
freed, was ever in the jar, and has a value that was never initialised.  The code leaves
two fields so: the value of every new cookie, which set_value frees, also for the
cookies that the browser sent, and the form of the meta-variables, which is freed with
them.  Each may be NULL or garbage.  `mishap` keeps what goes wrong in memory: a free of
garbage, or a double free above all.  `browser` merges the lines that were written and
sends them back in the header of the next process, which is parsed by
`CgiText!parse_cookies`; `remembered` is what it should be.  Client contract: a cookie
that was put in the jar is not put there again (`Resets` lifts this), and the handler
does not free what is in the jar.

## 3. Runs

All runs check for deadlock unless said otherwise.

| Run | Checks | Bounds |
|---|---|---|
| `queue` | `TypeOK`, `WriteNeverBlocks`, `QuietAfterStop`, `JoinsOnce`, `ImplementsDataQueue`, and under fairness `StopReturns`, `WorkerServes` | two users, one controls and the other pulls, one worker, a pipe of two items, three items; malloc, fcntl, pthread_create and read may fail |
| `queue_controllers` | `ProviderExclusion`, `PayloadGiven` | two users that both control, two workers, a pipe of one item, two items; everything may fail, synchronized functions start and stop |
| `selector` | `TypeOK`, `MaxCovers`, `ImplementsEventLoop`, and under fairness `WaitReturns` | descriptors 0 and 2, three kinds of events |
| `poller` | `OneElementPerFd`, `ImplementsEventLoop` | three descriptors, two kinds, a first block of one slot |
| `poller_overread` | `ActionsReported` (violated) | four descriptors, one kind, a first block of four slots as in the code, actions that register nothing |
| `array` | `ImplementsVector` | two elements, indexes up to 4, blocks of 4 and 8 slots |
| `hash` | `SearchEnds`, `CountExact`, `IteratesOverAll`, `ImplementsMap` | four keys, every hash function into {0, 3, 32}, 8-bit arithmetic, one growth |
| `stache` | `HeldExact`, `RendersReference`, `AcceptsTextEnded`, and under fairness `RenderEnds` | every template of up to three tokens over 18 with reads that fail, of four over 7 with reads and releases that fail, of three over 5 with an output that refuses; with no failures, of four tokens over 10, of five over 7 and of six over 4 |
| `streams` | `PutReports`, `StringHolds`, `ImplementsByteChannel`, and under fairness `ReaderEnds` | three puts of texts of one and two bytes, a first block of two, a buffer of two, two failures, an offset from -1 to 3 |
| `cgi_text` | `QueryMeaning`, `CookieRoundTrip`, `ContentTypeRead`, `BodyLines`, and under fairness `ParseEnds` | every text of up to five characters over seven for forms, and as many or more over those each parser tells apart; a read that fails anywhere |
| `cgi` | `SessionRemembers`, `FreedOnce`, `MetaStable`, `RedirectWhole` | two processes of two runs each, four calls of the handler, three cookies, two names, two values, one failing malloc, both constructors |
| `cgi_redirect` | `RedirectFlushes` (violated) | the same, the response only |

What they show, and why the bounds are enough to mean something:

* `queue`: one controlling thread against another user and the worker reaches
  every interleaving of start, stop, free, pull and synchronized; a pipe of two
  items is empty, half full and full.  More threads and a larger pipe are the
  subject of the proofs.  One thread pulls, and only when the descriptor is
  readable.  Nothing is claimed of the return of pull: it waits when the pipe is
  empty, in a thread that does not look (`EventQueue_blind_pull`) or that comes second
  of two.
* `queue_controllers`: two threads that start and stop at the same time, and two
  workers, since two racing starts make two.  `QuietAfterStop`, `JoinsOnce` and
  the refinement are not claimed there: with two controllers they are false,
  because start and stop test the state outside the lock; the headers do not say
  that one thread must do both.
* `selector`, `poller`: descriptor 0 and a gap between descriptors exercise the
  upper bound; two kinds on one descriptor exercise the order of the tests.  The
  code's first block has four slots; the run gives it one so that it fills up
  and moves with few descriptors.  A step of wait that reads outside the block
  is exempt from `ImplementsEventLoop`; `poller_overread` shows that there are such
  steps, without the scaling: four descriptors, and no action that registers.
* `array`: index 4 is the first outside a block of four, so one growth happens
  with gaps on both sides of it.
* `hash`: 0, 32 and 3 collide in the low bits of a table of four slots, or
  differ only in the bits that the perturbation brings in.  The width is scaled
  from 32 to 8 bits: the perturbation is then used up after two shifts, as it is
  after seven with 32.  Four keys force the table to grow, at three.
* `stache`: three tokens open, use and close a section; four put something after
  or before it; six nest one section in another, with text.  The environments hold
  lists of zero to three items, empty strings, characters to escape, a string with a tag
  in it, empty partials and a partial that has a list section in it.  `HeldExact`
  is about running and about returning 0: a render that returns -1 keeps what it
  held, as does a tag that stands for a list or a partial.  `RendersReference` is
  about what was given to the output stream, and holds whatever fails; what that
  stream refuses is missing, which render does not report (`Stache_refusing`).
* `streams`: with texts of one and two bytes, a block of two is filled exactly,
  with and without room for the NUL, and doubles twice; a buffer of two is
  refilled; a short read or write is one byte of two; an offset of -1 begins before the
  text, one of 3 behind it.  `PutReports` is about numbers: how much went out is what
  vput returns.  That it is the text is false (`Streams_offset`).
* `cgi_text`: five characters hold two attributes with a value, or an escape and
  what stands on both sides of it, cut anywhere.  The reference of each
  conversion is written from what the format means and not from the loop.
  `QueryMeaning` also speaks of a parse that a failing read ended: the table is
  what the part that was read means, nothing twice and nothing invented.
* `cgi`: two processes, so that what the first sent comes back in the second;
  two runs in each, so that what the first response left is seen by the second;
  four calls change a cookie, replace it, and change it again.  `FreedOnce` is
  about frees of the same thing, and holds of handlers that put no cookie in the jar
  twice (`Cgi_reset_cookie`); frees of what was never initialised happen in every
  session with cookies (`Cgi_wild`), a second free of the request's stream in every one
  that reads a form from standard input (`Cgi_form_stdin`).  A handler
  uses one part of the interface, since the parts meet only in run, flush and
  free.

Every module with state has a `TypeOK`.  `queue` and `selector` check theirs;
the others hold too, as `INVARIANT TypeOK` added to their configurations shows
(those of `Stache`, `Array`, `Hash`, `EventsPoller`, `InputStream` and `Cgi`, and
`ParserTypeOK` of `QueryParser`).

`CHECK_DEADLOCK FALSE` is said in `queue_controllers` only, where the code does
deadlock, and in the recipes of section 6 that say so.

### Fairness

* Queue: every thread goes on (weak fairness of its steps), and the user's provider and
  synchronized functions return, whatever the latter do meanwhile (strong fairness of
  their return).  A read or a write that blocks may fail, but is not forced to, so
  nothing is live thanks to a failure.  Locking is strongly fair: POSIX mutexes are not
  handed out in order, but the worker sleeps 10 ms between two rounds (line 108) with
  neither mutex held, so a user that waits gets its turn, and the users' critical
  sections are short in the same way.  Nobody is forced to call anything: pull, stop and
  start are never required to be called.
* Selector and engine: sequential code goes on, and the user's actions return.
* Streams: the reader goes on (weak fairness of its steps), also after a failed next,
  which the library's own loops take for the end; nobody is forced to put anything, and
  the property is about what happens after the writer has closed.
* Form parser: the loop goes on; whether a read fails is not up to fairness.

## 4. Proofs

`EventQueueProofs`, for any threads, any number of them controlling the queue,
any capacity, any failures, blind pulls and controlling synchronized functions:

* `TypeCorrect`: `Spec => []TypeOK`.
* `Exclusion`: `Spec => []ProviderExclusion`.
* `PayloadGivenAlways`: `Spec => []PayloadGiven`.

Neither of the last two is inductive.  They follow from `MutexInv`: who is at
which statement owns which mutex (`LockOwned`, `SlockOwned`); a worker that
called stop never gets past its first lock, because it owns that lock
(`WorkerNeverStops`); a worker past its second test of the state still sees RUN
(`RunsUnderLock`), since stop needs the lock; and a running queue has a payload
(`PayloadSet`).

The second half of `EventQueueProofs`, if one thread at most does all the controlling
(`SingleController`), which is needed: TLC finds counterexamples with two:

* `QuietAfterStopSolo`, `JoinsOnceSolo`, `WriteNeverBlocksSolo`;
* `QueueImplementsDataQueue`: the queue implements `DataQueue`, if in addition
  write does not fail (a failing write loses an item, and then the worker
  deadlocks).

They follow from `SoloInv` on top of `MutexInv`: what start and stop saw before
they took the lock is still true under it (`StartFresh`, `StopFresh`), there is
one worker and it follows the state (`OneWorker`, `WorkerFollowsState`), stop
waits for a worker nobody has joined (`JoinFresh`), and the room that poll saw
is kept until the write (`RoomKept`), since no other thread writes.  The
refinement also uses `ItemsInv`: the pipe holds the items after the last one
pulled, in order, up to the one the worker is about to write.

The proofs assume of the constants what `ThreadsAssumption` and
`BoundsAssumption` say: users and workers are different threads, controllers and
pullers are users, NULL is no thread and no payload, the pipe holds something.

`EventsSelectorProofs`, for any descriptors, kinds of events and time-outs:

* `TypeCorrect`: `Spec => []TypeOK`; in particular the time-out is a normal
  timespec whatever the microseconds (`SetTimeoutType`).
* `MaxCoversAlways`: `Spec => []MaxCovers`: every registered descriptor is below
  the count that `pselect` is given.
* `SelectorImplementsEventLoop`: `Spec => ImplementsEventLoop`, for a careful
  user, one who sets every action before it waits.  Of what is registered after wait
  it says nothing.

`EventsPollerProofs`, for any size of the first block as well:

* `TypeCorrect`; it includes that the elements fit in their block.
* `OneElementPerFdAlways`: `Spec => []OneElementPerFd`.
* `PollerImplementsEventLoop`: `Spec => ImplementsEventLoop`, for a careful user.

The refinements rest on what `DueByPc` says: the events that are due are, while
the loop is at a test, those that the tests from there on will find; while an
action runs, those that the tests after it will find (`DueAt`).  So a test that
finds nothing leaves due what was due (`AdvanceKeepsDue`), one that fires takes
its own event out (`TestCalls`), and nothing is left at the end
(`LoopEndsEmpty`).  For the selector this needs `MaxCovers`, or the loop could
end too early, and `WaitInv`: what is reported is registered, and no action is
an uninitialised pointer.  For the poller it needs `OneElementPerFd`, or an
event would be due twice, and `PollerInv`: only elements that `ppoll` was given
report anything, so that what an action appends is not taken for an event.
`ImplementsEventLoop` of the poller exempts the steps that read outside the
block (`ReadsItsBlock`), as in the run.

They assume what `EventsAssumption` and `PollerAssumption` say: descriptors and
time-outs are numbers, the kinds are the three there are, an action is neither
NULL nor an uninitialised pointer, the first block holds something; and, where
it is said, `Careful`.

`ArrayProofs`, for any elements that a comparator orders as numbers, any indices
and any largest capacity:

* `TypeOKHolds`: the block has one of the capacities that grow goes through and
  the elements fit in it, which the refinement needs.
* `ArrayImplementsVector`: `Spec => ImplementsVector`.  `GrowKeeps` says that the
  block grows to a capacity that holds the index, and one slot more if it was
  full, and keeps the elements; `InsertEffect`, `UpdateEffect`, `DelEffect` and
  `SortEffect` what each operation does slot by slot; `InsertedAt`, `RemovedAt`
  and `Expanded` that this is `InsertAt`, `RemoveAt` and an expansion of the
  sequence that the user reads.

`HashProofs`, for any keys, values, hash function, width of the arithmetic and number
of growths, if the probe of every hash value goes through all the slots of every
capacity (`ProbeVisitsAll`, a fact about constants, which TLC evaluates in
`MCHash`):

* `SearchEndsHolds`, `CountExactHolds`: `Spec => []SearchEnds` and `[]CountExact`.
* `HashImplementsMap`: `Spec => ImplementsMap`.
* `IteratesOverAllHolds`: `Spec => []IteratesOverAll`, if the iterator leaves the
  table alone (`Mutating = FALSE`, see `Hash_mutating`).
* `Rehashes`: what rehash returns when it is given a table with broken probes.

`SearchEnds` and `CountExact` are not inductive.  The invariant, `TableInv`, is that
the table is empty and has no slots, or is `Sound`: no key has two slots, a slot is
free, no entry is lost to the search for its key, and count is the number of
entries and less than the capacity, which the load of two thirds keeps.  `Insert`
says that an entry put where its own search ends breaks no other search, so that
`Grows` can put the entries of a table into one twice as large.  `Removes` says that
del breaks nothing but searches, and `Rehashes` mends them: an entry that moves
leaves a free slot that may break other searches, even of entries already mended,
but each move is to an earlier probe of the key, so that the probes which are still
ahead of the keys (`Ahead`) become fewer at each move (`Repairs`) and the loop ends.
The contents of the table as a set of entries (`Now`) say what a key's value is
(`GetIs`), wherever the entries are.  For the iteration, `LoopInv` says that the
calls were for the keys of the slots passed, each once, and that index is their
number, so that the loop cannot pass the last slot.  The loops over slots and moves
are recursive functions on numbers; the inductions on them are by the least number
that a claim fails of (`LeastNatural`, from the well-founded order of the numbers).

`StacheProofs`, for any templates, environments and failures:

* `HeldExactHolds`: `Spec => []HeldExact`, without any hypothesis.

`HeldExact` says nothing of where the buffer is, and is not inductive: the engine
could go back to before the data, or reach the end of the file with partials left
that nobody would release any more.  `HeldOK` adds that the end of the file is only
met with no partial left or with tokens left to look at (`BufferOK`), and that the
sections were opened one after the other, each before the token at hand, so that
the tokens a list goes back to are still in the buffer.  `NextBuffer`, `CutBuffer`,
`AddPartial` and `BeheadBuffer` are what each change of the buffer keeps;
`OpenSection`, `CloseSection` and `RepeatSection` what each change of the open
sections does to what is held; `Lists...` count the open sections on lists.

`StreamsProofs`, for any texts, any size of the blocks and the buffer, any
number of puts, short, empty and failing reads and writes, and the three kinds:

* `StringHoldsAlways`, `PutReportsAlways`: `Spec => []StringHolds` and
  `[]PutReports`, if no text holds a NUL (`Plain`), wherever the descriptor's writes
  begin in the text.
* `StreamIsByteChannel`: `Spec => ImplementsByteChannel`, if in addition no byte
  is -1 and the constructor's read does not fail (`Readable`).
* `TypeOKAlways`, under the same hypotheses.

The three hypotheses are needed: `Streams_nul`, `Streams_high_byte` and
`Streams_first_read` of section 6 are what happens without each.  `OutInv` is the
inductive invariant of the writer: a string's block holds what was put and a NUL
(`StringInv`), a call of vput knows how long its text is (`CallInv`), and until a write
fails the device and the FILE hold as many bytes as the puts returned and the
call at hand counts (`DeviceInv`).  The text
must be free of NULs because vput copies what precedes the first one when the
block grows (`CStringOfHolds`).  `InInv` adds the reader: what it got, the rest
of its buffer and the rest of the device are what was put, in this order
(`BufferedInv`, `StringReaderInv`).

`CgiProofs`, for any requests, names, values, failing mallocs and numbers of
calls:

* `RedirectWholeHolds`: `Spec => []RedirectWhole`.  Inductive together with the
  shape of the response (`RedirectInv`).
* `FreedOnceHolds`: `Spec => []FreedOnce`, if no cookie is put in the jar that is
  there already (`~Resets`, see `Cgi_reset_cookie`), whatever malloc left in a new
  cookie.  `CookieInv` says that what is in the jar is alive and under its own name,
  that a living cookie that was ever in it still is, and that it is empty
  between two responses.
* `MetaStableHolds`: `Spec => []MetaStable`, if no gateway version is one that
  is parsed again because its major number is 0, and would change by it
  (`MajorKnown`, see `Cgi_zero_major`).  `MetaInv` says that all the
  answers of an accessor are the one it would give now (`Now`), and the lemmas
  `Same...`, one for each accessor, that a call leaves what all of them would
  give, though it keeps something or cuts the environment's text.
* `RoundTripHolds`: whatever the names and values of cookies (`TextsAssumption`: values
  without NUL, names that hold nothing that would end them and start with no blank, for
  the code does not escape names), `parse_cookies` reads back the jar whose values
  `encode_value` wrote, in whatever order the cookies are sent.  `Run` says that a
  loop leads from one of its states to another through a text: it composes over
  the parts of the text (`RunConcat`), so that the proof follows the text from
  character (`EscapedRun`) to value (`ValueRoundTrip`) to cookie
  (`CookieRead`, `SeparatorRun`) to header (`JarRoundTrip`).  The induction is that of
  `HashProofs`, from a least counterexample.
* `SessionRemembersHolds`: `Spec => []SessionRemembers`, from `RoundTripHolds` and two
  invariants.  `JarInv` says that the changes that are due
  (`touched`) are those of the cookies of the jar that are marked as changed,
  and `BrowserInv` that the browser, once it has what this process wrote, has
  what was meant.  malloc may fail and cookies be replaced or set again.

The last part of `CgiProofs`, for texts of any length and any characters
(`InputsAssumption` says only that a text is a sequence of characters):

* `QueryMeaningHolds`: `ParserSpec => []QueryMeaning`, whatever reads fail and whether
  they go on failing.  `QueryMeaning` speaks of the end only and is not inductive.
  `ParserInv` says what the variables are on the way: after some of the characters
  (`HasRead`) the table is that of the pairs before the one at hand, all of them good
  (`Reading`), and `attribute`, `value`, `encoded` and the state are what the characters
  of that pair make, up to the escape that is open (`InAttribute`, `InValue`).  How many
  characters that is, compared with the place of the stream, is different while the loop
  goes on (`Going`), after a failed read (`Cutoff`), which leaves the place at a
  character that was read, and after a character the parser gives up at (`GivenUp`).  If
  the read behind such a character fails, the state is negated twice and is positive
  again: the loop goes on, and `Going` says that it looks at the same character and
  refuses it once more.  Each case of the switch has a lemma: `ReadEqual`,
  `ReadSeparator`, `ReadInAttribute` and `ReadInValue` extend what was read by a
  character, and `ReadEnds` and `ReadWrong` conclude what the whole text or the part of
  it means.
* `BodyLinesHolds`: `ParserSpec => []BodyLines`.  `Flushed` relates `body_step` to the
  lines of the characters so far: they were sent, except that of a CR only the CR was,
  its LF waits for the next character.
* `ContentTypeReadHolds`: `ParserSpec => []ContentTypeRead`.  `TypeAt` says what type and
  subtype are at each character, before and after the slash and the semicolon, and
  `TypeKept` that no step of the parameters touches them, falling through included.
* `CookieRoundTripHolds`: `ParserSpec => []CookieRoundTrip`, if the texts hold no NUL
  (`InputsAreStrings`: a value is a C string).  It needs of `RoundTripHolds` only the
  lemmas on one value, one cookie and one separator, and here the header ends with the
  last cookie instead of a separator (`LastCookie`).

They assume that doubling reaches a capacity that is large enough and no larger
(`ArrayAssumption`, `OutputAssumption`: `MaxCapacity` bounds the memory of the instance,
not the code), that the hash table's capacities are 4 doubled (`CapacitiesAssumption`,
which states that arithmetic), that templates and partials are sequences of tokens, the
resolver answers for the partials they ask for, and FREED is the name of no section
(`CallsAssumption`), that NULL, UNSET and the names of what goes wrong in memory are
none of the values (`CgiMeta`), and what the texts of cookies are made of
(`CgiCookies`).

Only model-checked: the liveness properties (`StopReturns`, `WorkerServes`,
`WaitReturns`, `RenderEnds`, `ReaderEnds`, `ParseEnds`), which are beyond the
prover; the engine against its reference (`RendersReference`, `AcceptsTextEnded`), which
is a recursive operator and has no place in a module with theorems; and the hypothesis
`ProbeVisitsAll`, number theory about powers of two.  What `gateway_interface` and
`server_protocol` read of a version has no reference of its own: it is part of what
`MetaStable` is about.

## 5. Where code and documentation disagree

Two runs find such a disagreement:

* `cgi_redirect`: `cad_cgi.h` says of redirect "Mark the response as being a
  redirect" and of flush that it returns 0 or -1.  redirect refuses a response
  that has a body, and flush of a response that has none reads through NULL
  (`cad_cgi.c:873`, `cad_cgi.c:820`).
* `poller_overread`: `cad_events.h:143` says of wait that it "calls actions if
  relevant".  The loop of `wait_poller` runs up to the n-th slot included
  (`cad_events.c:179`): after the elements that ppoll was given it tests one more, and
  calls an action for what is there.

Section 6 has others that no run needs, since one change of a configuration shows
them; the documented ones are `EventsSelector_stay_set` (`cad_events.h:145`, of both
event loops), `EventsSelector_no_action`, `EventQueue_blind_pull`
(`cad_event_queue.h:90`), `Array_gaps` (`test_array.c`), `Stache_refusing`
(`cad_stache.h:109`), `Streams_write_fails` (`cad_stream.h:153`) and `Streams_offset`.

## 6. Further counterexamples

Other behaviours met while modelling, each a change of one configuration of
section 3.  Replace its INVARIANTS and PROPERTIES by the one named, apply the
change, and TLC reports it violated.  "D" stands for `CHECK_DEADLOCK FALSE`.
The hazards in `PROJECT.json` refer to them by the names in the first column.

| Name | Configuration and change | Checks | Behaviour |
|---|---|---|---|
| `EventQueue_write_fails` | `EventQueue.cfg`, `Faults = {"write"}`, D | PROPERTY `StopReturns` | when `write(2)` fails the worker calls stop with the lock held and waits for itself; so does every later stop |
| `Array_gaps` | `Array.cfg` | PROPERTY `GapsAreNull` | growing zeroes as many slots as there are elements rather than the new part, and del leaves the vacated slot; a gap may hold anything, where the test suite expects NULL |
| `Stache_list_last` | `Stache.cfg`, `Calls <- MCLast` | INVARIANT `AcceptsWellFormed` | a well-formed template that ends in a partial, or in a section on a list of several items, is refused |
| `EventQueue_sync_stop` | `EventQueue.cfg`, `SyncControl = TRUE`, D | PROPERTY `StopReturns` | a synchronized function that calls stop and the worker take the two mutexes in opposite orders |
| `EventQueue_blind_pull` | `EventQueue.cfg`, `BlindPull = TRUE`, D | PROPERTY `PullReturns` | pull on an empty queue waits instead of returning NULL |
| `EventQueue_pipe_fails` | `EventQueue.cfg`, `Faults = {"pipe"}` | PROPERTY `ConstructorReports` | after a failing `pipe(2)` the constructor dereferences NULL |
| `EventsSelector_stay_set` | `EventsSelector.cfg` | PROPERTY `StaySet` | descriptors do not stay set after wait, as `cad_events.h` says they do |
| `EventsSelector_no_action` | `EventsSelector.cfg`, `Careful = FALSE`, D | INVARIANT `ActionsOptional` | an action that was never supplied is an uninitialised pointer |
| `Array_del_full` | `Array.cfg` | INVARIANT `InBlock` | del from a full block zeroes the slot after it |
| `Array_del_returns` | `Array.cfg` | PROPERTY `DelReturnsDeleted` | del returns a pointer to the element that took the deleted one's place |
| `Hash_mutating` | `Hash.cfg`, `Mutating = TRUE`, D | INVARIANT `IteratesOverAll` | an iterator that deletes makes iterate skip a key |
| `Stache_missing_partial` | `Stache.cfg`, `Calls <- MCMissingPartial` | INVARIANT `RendersReference` | a partial that is not found swallows the character after its tag |
| `Stache_short_partial` | `Stache.cfg`, `Calls <- MCShortPartial` | INVARIANT `RendersReference` | a section on a partial of one character is taken for empty |
| `Stache_unclosed` | `Stache.cfg`, `Calls <- MCUnclosed` | INVARIANT `ReportsInvalid` | a tag that does not close is text, without an error |
| `Stache_delimiters` | `Stache.cfg`, `Calls <- MCDelimiters` | INVARIANT `DelimitersChange` | no change of delimiters is ever accepted |
| `Stache_close_fails` | `Stache.cfg`, `Calls <- MCCloseFails` | INVARIANT `NamesFreedOnce` | when a list cannot be closed, the name of its section is freed twice |
| `Stache_refusing` | `Stache.cfg`, `Calls <- MCRefusing` | INVARIANT `OutputReported` | what the output stream refuses is missing, and render returns 0 |
| `Streams_high_byte` | `Streams.cfg`, `Texts <- HighTexts` | PROPERTY `ImplementsByteChannel` | the byte 0xff is taken for the end |
| `Streams_first_read` | `Streams.cfg`, `Faults = {"read", "first_read"}` | PROPERTY `ImplementsByteChannel` | when the read in the constructor fails, item answers an uninitialised byte |
| `Streams_nul` | `Streams.cfg`, `Texts <- NulTexts` | INVARIANT `StringHolds` | when a string grows, what stands behind a NUL is lost |
| `Streams_offset` | `Streams.cfg` | INVARIANT `PutsItsText` | the offset of the descriptor's vput is not initialised: the first bytes are skipped, or others are written before the text |
| `Streams_write_fails` | `Streams.cfg` | INVARIANT `PutAlwaysReports` | the -1 of a failing write is added to the offset and to the result |
| `CgiText_last_cr` | `CgiText.cfg`, `Inputs <- Bodies` | INVARIANT `AllBodyLines` | a CR that ends the body is sent alone |
| `CgiText_lasting` | `CgiText.cfg`, `Inputs <- ShortTexts`, `Lasting = TRUE` | PROPERTY `ParseEnds` | an invalid character and a stream that goes on failing negate the state for ever |
| `CgiText_null_parameter` | `CgiText.cfg`, `Inputs <- Types` | INVARIANT `ParametersNamed` | a parameter of the content type may have a NULL name |
| `CgiText_parameters` | `CgiText.cfg`, `Inputs <- ShortTexts` | INVARIANT `ParametersRead` | the characters of a plain value come twice |
| `Cgi_no_value` | `Cgi.cfg`, `Requests <- Cookies` | INVARIANT `ValuelessFlushes` | a changed cookie without a value is read through NULL, though the code tests for it |
| `Cgi_protocol_twice` | `Cgi.cfg`, `Requests <- Meta` | INVARIANT `ProtocolFaithful` | server_protocol cuts the environment's text: the next response has no version |
| `Cgi_reset_cookie` | `Cgi.cfg`, `Requests <- Cookies`, `Resets = TRUE` | INVARIANT `JarAlive` | setting a cookie that is in the jar already frees it |
| `Cgi_wild` | `Cgi.cfg`, `Requests <- Cookies` | INVARIANT `FreesWhatWasSet` | the first set_value frees a value that was never initialised |
| `Cgi_zero_major` | `Cgi.cfg`, `Requests <- ZeroMajor` | INVARIANT `MetaStable` | a version 0.x is parsed again at each call, on top of what was there |
| `Cgi_form_stdin` | `Cgi.cfg`, `Requests <- Meta` | INVARIANT `InputFreedOnce` | input_as_form frees the stream that the context frees again |

Where the change is of a constant, the passing runs leave the case out; where it is none,
the property that they check does not claim it.

## 7. What is not modelled, and the plan

Left out for good: the memory manager (three function pointers), the build
files, the random source of the salt, `FD_SETSIZE`, wait called from an action.
malloc fails only in the queue's constructor, in run and in the functions that
set a field of a response or a cookie; elsewhere it succeeds.  A `vfprintf` that
fails, or text that cannot be formatted, is left out.  The two character-level
loops of the engine (names, delimiters) are abstracted to tokens; an unclosed tag with
three braces, and delimiters without a blank, for which the code looks past the end
of the name (`cad_stache.c:487`), are left out, and so is what the hash table's
`keys.free` does with a key.

Of the CGI: the order and the wording of the headers that flush writes, the
dates of cookies and their expiry in the browser, a second flush of the same
response, `server_name`, which free_meta leaks, and two cookies of one name in
`HTTP_COOKIE` as far as the composition goes (`CgiText` has them).  Only some of
the meta-variables that are merely copied are in the instances (`StringFields`);
the code of the others is the same.

Next, in this order:

1. **Proofs**: the engine against a reference that is a function on the places of a
   template instead of a recursive operator.
2. **Composition**: the poller over `Array` itself, the CGI over `KeyValueMap`,
   the form parser over `InputStream`.
