# A verification development for two parts of this collection

The repository is a collection of software resources. Two parts of it have
behaviour of their own that a model can reach:

* **BulkLoader** (`src/softwares/Flash/Actionscript/br/com/stimuli/loading`), a
  download manager that loads many files over a limited number of connections;
* **the MySQL 5.5 headers** (`src/softwares/xampp/mysql/include`), which hold
  code and not only declarations: the instrumented wrappers around mutexes,
  conditions, read-write locks, threads and files, the cached file, counters,
  deadlines, owner assertions, the layer that makes one thread interface out of
  many platforms, and the macros for byte order, numbers, characters, debugging
  and plugins. In the tables below header names are relative to that directory.

This directory models both in TLA+, checks the models with TLC and proves what
holds of every instance with TLAPS. The map of `PROJECT.json` gives the source
lines of every definition; it covers about 30 % of the lines of the headers.

## Inventory

| Component | State | Operations | What makes it hard |
|---|---|---|---|
| Queue and connections (`BulkLoader.as`) | `_items`, `_connections` (an array of items per host), `_numConnections`, `_itemsLoaded`, `_additionIndex`, `_isRunning`, `_isFinished`, `_isPaused` | `add`, `start`, `reload`, `loadNow`, `changeItemPriority`, `pause`, `pauseAll`, `resume`, `resumeAll`, `remove`, `removeAll`, `removePausedItems`, `removeFailedItems`, `clear`, `getContent(key, true)` | events are dispatched in the middle of a call, and a listener may call the loader again; several paths free a connection and each must hand it on; limits per loader and per host |
| Item life cycle (`LoadingItem.as`) | `status`, `_isLoading`, `_isLoaded`, `numTries`, `_priority`, `_additionIndex` | `load`, `stop`, `destroy`, handlers of OPEN, COMPLETE, IO_ERROR, SECURITY_ERROR | retries inside the error handler; `status` says nothing between `load()` and OPEN |
| Single-transport items (XML, JSON, text, binary, image) | the transport and its listeners | overrides of the above | a SecurityError thrown inside `load()`; data that does not parse |
| Instrumentation interface (`mysql/psi/psi.h`) | keys, lockers, what a recorder keeps | get a locker, start and end a wait, unlock events, bind a descriptor | any call may return NULL, and the interface may appear while a call is under way |
| Mutex, condition and thread wrappers (`mysql/psi/mysql_thread.h`) | the real objects and their instruments | init, destroy, lock, trylock, unlock, wait, timedwait, signal, broadcast, create | the order of the real operation and the event; an object destroyed as soon as it is unlocked |
| Read-write lock wrappers (same file) | rwlocks, prlocks | rdlock, wrlock, try variants, unlock | the unlock event does not say who unlocks |
| File wrappers (`mysql/psi/mysql_file.h`) | streams, descriptors, their instruments | thirty-odd operations by stream, descriptor or name | descriptors are reused before the close that freed them has been recorded; the count to report depends on flags |
| Cached file (`my_sys.h`) | buffer, positions, error | `my_b_read`, `my_b_write`, `my_b_get`, `my_b_write_byte`, `my_b_fill_cache`, `my_b_tell` | requests across the ends of the buffer, failures of the file behind it |
| Counters (`my_pthread.h`) | shared counters with a mutex, counters of a thread | `thread_safe_*`, `statistic_*`, `status_var_*` | loads and stores of different threads interleave; two platforms |
| Owner assertions (`my_pthread.h`) | two fields of a lock | assert owner, assert not owner | read without synchronisation |
| Deadlines (`my_pthread.h`) | none | `set_timespec`, `set_timespec_nsec`, `cmp_timespec` | three units of time, carries |
| Thread platform layer (`my_pthread.h`) | the macros defined so far | blocks of conditional definitions | hundreds of combinations, few of them ever built |
| Integer types, numbers, byte order (`my_global.h`) | none | types, `rint`, conversions, `my_isinf`, stores and reads | sizes configured for another machine, halves, upper halves, values only a register holds, unaligned and mixed formats |
| Alignments and string calls (`my_compiler.h`, `my_attribute.h`, `m_string.h`) | the macros defined so far | blocks of conditional definitions | each compiler gets other definitions, and their order decides what they mean |
| Strings (`m_string.h`) | none | `skip_trailing_space` | reads whole words of a string of bytes |
| Characters (`m_ctype.h`) | none | `my_isalpha` ..., `my_toupper`, two-byte macros | signed characters as indices, a machine with swapped tables |
| Debug macros (`my_dbug.h`) | chain of stack frames, one saved place | enter, leave, long jumps, assertions, crash macros | two builds of one program; functions that end without leaving their frame |
| Plugins (`mysql/plugin.h`, `mysql/service_*.h`) | exported symbols, service tables, variable declarations | declare, open, walk, register, call | structures read by position, size and flags only |
| Streaming items, progress, registry, lazy loaders, URLs | | | not modelled, see below |

BulkLoader's components meet by synchronous calls (queue to item), by events
(item to queue, queue to client) and by shared fields. The header components
meet where one is built on another: the wrappers call the recorder through the
interface, `MysqlThread`, `MysqlRwlock` and `MysqlFile` extend the module `PSI`
for it; the counters lock a wrapped mutex; owner assertions read what the locks
write; session variables of plugins are resolved through what the server
registers.

## Modules

| Module | Models |
|---|---|
| `BulkLoader` (proofs: `BulkLoaderProofs`; instance: `MCBulkLoader`) | queue, connections, items, transports |
| `DownloadQueue` | abstract: the queue of downloads a client of BulkLoader sees |
| `PSI` | the calls of the instrumentation interface as operators on what a recorder keeps |
| `MysqlThread` (`MysqlThreadProofs`, `MCMysqlThread`) | wrappers of mutexes, conditions and threads |
| `MysqlRwlock` (`MysqlRwlockProofs`, `MCMysqlRwlock`) | wrappers of read-write locks |
| `LockLedger` | abstract: what the lock wrappers promise a recorder of lock owners |
| `MysqlFile` (`MysqlFileProofs`, `MCMysqlFile`) | wrappers of files |
| `IoCache` (`IoCacheProofs`) | the cached file |
| `Counters` (`CountersProofs`) | the counters |
| `AtomicCounter` | abstract: a counter whose operations take effect at one moment |
| `SkipTrailingSpace`, `OwnerAsserts`, `Timespec`, `ByteOrder`, `Dbug`, `Ctype`, `Plugins`, `Numbers` (`PrimitivesProofs`) | primitives: `skip_trailing_space()`, owner assertions, deadlines, byte order, debug and character macros, plugin declarations and services, number conversions |
| `PluginVars`, `ThreadConfig`, `Widths` | the other primitives: plugin variables, thread platform layer, integer types with alignments and string calls |
| `MCPrimitives` | puts the primitives side by side: a behaviour drives one of them |

### BulkLoader

ActionScript has one thread. A call or a network event runs to its end, but it
dispatches events to listeners on its way, and these may call the loader. The
variable `todo` is the rest of the call in progress: a stack of frames, each
naming a place of the code (`<<"loadNext">>` is a call of `_loadNext()`,
`<<"itemError", i>>` is `_onItemError`, `<<"started">>` the lines of `start()`
after its `_loadNext()`, ...). A frame `<<"listeners">>` on top means that an
event is being handed to the client: a listener may then call any operation,
whose frames are pushed and run to their end first. Network events need an
empty stack. So every action is a stretch of code between two points at which
foreign code may run.

| Model | Code |
|---|---|
| `items`, `item`, `itemsLoaded`, `additionIndex`, flags | the fields of the same names |
| `connections` | all arrays of `_connections` as a set of pairs <<item, k>>, the k-th entry of that item; the order within an array is never observed |
| `connected` | `_connections` is not null: `start()` branches on it |
| `cleared` | `_name` is null |
| `net` | external: the transport an item refers to, and those a second `load()` has replaced |
| `LoadNext`, `ForceLoad` | `_loadNext()` without and with an argument, one round; the recursion is the frame that stays |
| `LoadNow`, `Reload`, `Pause`, ... | the operations of the same names |
| `Finish`, `ItemComplete`, `ItemError`, `AllLoaded`, `Complete` | `onCompleteHandler` with `_incrementItemsLoaded`, `_onItemComplete`, `_onItemError`, `_onAllLoaded` up to the PROGRESS event and from the COMPLETE event |
| `NetOpen`, `NetComplete`, `NetError`, `NetSecurityError` | the handlers of the item |

Abstractions. Bytes, weights, times, speeds, logging, content and
cache busting are left out. Keys are the items themselves: a key finds a queued
item, a reference any item that was ever added. The order among open
connections of equal priority depends on bytes remaining, and equal sort keys
come out in any order: both are nondeterministic choices. Priorities are one
decimal digit, because `_getLeastUrgentOpenedItem` passes four options for
three fields to `sortOn`, whose comparison of longer numbers is then not
settled by the source. The player dispatches COMPLETE after OPEN and ends every
transfer; a SecurityError may be thrown inside `load()` (`Denied`). A listener
taken off during a dispatch is still called by it. An exception in a listener
is caught by the player. `ImageItem` leaves its SECURITY_ERROR listener on;
the model follows `XMLItem`, which does not. OPEN and PROGRESS events of an
item are the last thing their handlers do, so a call from their listeners is
the same as a call right after and has no frame of its own. `resumeAll()` walks
the live array up to the length it had at first: when a listener has shortened
it, the model ends the call as the TypeError does.

Clients differ in what they do; `Rules` names what a client refrains from:
`noStaleKeys` (no reference to a removed item), `noForcedPending` (no
`loadNow()` between `load()` and OPEN), `noReloadLoaded` (no `reload()` of a
loaded item), `noReentry` (no call from a listener). Each run says which rules
it assumes. The rules are where the code's guarantees stop: what happens
without one of them is listed under "Observations".

`DownloadQueue` is what all this comes to for the client: a set of items, those
of them that are loaded and those that have a connection, a limit, and whether
COMPLETE was announced. Items enter and leave; a connection is opened under both
limits and for an item that is still to be loaded; an item is loaded over its
open connection; COMPLETE is announced over loaded items, with no connection
left. Frames, entries by host, statuses, priorities, retries and transports are
not in it. `ImplementsDownloadQueue` maps a loader to it at every step, not only
between events: `queue` is `Queued`, `open` is `Opened`, `loaded` the items of
the queue with `_isLoaded`.

### Wrappers

A wrapper of `mysql_thread.h` or `mysql_file.h` asks the interface for a locker,
starts a wait, performs the real operation, ends the wait and returns. Each of
these stages is a step of the thread (`pc` is `idle`, `entered`, `done`, and for
a sleeper `asleep` and `woken`), and any step of another thread may come between
two of them. Where the source does two things without a point at which another
thread could tell, they are one step. The wrappers of mutexes and locks are
actions named like the inline functions (`inline_mysql_mutex_lock`, ...); a file
wrapper is an action that enters with a kind, and the kind says what the real
operation may do (`Outcomes`) and which count the wrapper reports (`EndCount`).

External and modelled from their use: the real mutexes, locks and files with
all results their interfaces allow (EBUSY, EINVAL, a timeout, a spurious
wake-up, a short or failed transfer), the operating system, which may give a
closed descriptor away at once, and the recorder. `psi.h` only declares the calls
of the recorder; what `PSI` says it keeps and does (its unbinding of a descriptor
by number included) is assumed from the comments about each event, and the map
marks it external. Every call that returns an instrument or a locker may
return NULL, at any time. The program is assumed to use the objects correctly:
it unlocks what it holds, destroys an object that is free and that nobody is
about to lock, and does not close a descriptor another call is using.

`MysqlThread` and `MysqlRwlock` are shown to implement `LockLedger`: an entry
about the owner of a lock is written and erased only by who holds it, so the
lock protects its own record. A thread asleep on a condition has given the mutex
up without telling (`parked`), as the interface has no event for it.

### IO_CACHE

Pointers are offsets into the buffer; memory behind the buffer is modelled for
`Beyond` bytes so that an overrun is a state and not an error of the model. The
n-th byte of a stream has the value n. `read_function` and `write_function` are
external: they may serve a request in full or in part, or fail.

### Counters

An increment of a C variable is a load and a store; the `Interlocked` functions
of Windows are one step. `raced` records that two unprotected updates have
overlapped. The counters wrap at `Word`.

### Primitives

* `ByteOrder`: memory of a few bytes into which numbers are stored side by side,
  on one of four platforms, and read back on another. Which numbers is the
  constant `Storable`: TLC stores those where the sign bit, its complement or
  all bytes are told apart, the proof any.
* `Timespec`: a clock that runs and deadlines that are set; units of time are
  constants small enough for carries to happen in few ticks, and so is the
  largest `long`, to which Windows cuts `max_timeout_msec`: `CappedTo` says what
  is left of a timeout that it cannot hold. The 64 bits of the Windows time, and
  `time_t` elsewhere, are not bounded.
* `OwnerAsserts`: threads lock and unlock while others read the two fields of an
  assertion one after the other.
* `PluginVars`: a declaration is a tuple of fields filled by position; the
  server decodes it by flags and position.
* `ThreadConfig`: `block` runs through the header; a macro is the set of names
  its expansion calls. `Topics` groups the settings of `my_config.h`: within a
  group all combinations are tried. Where a block defines a macro again without
  an `#undef`, the compilation ends there or goes on with the later definition:
  both are what compilers do.
* `Widths`: the same for the types of `my_global.h`, where `machine` is what the
  compiler uses and `known` what `my_config.h` says; for `my_compiler.h` and
  `my_attribute.h`, which it includes, in C and C++ for twelve compilers,
  versions counted (`Compilers`); and for the macros of `m_string.h`, where
  `Found` is what `configure` finds. A macro for memory is the function it calls
  and the places of its arguments, and `Called` expands a call as the
  preprocessor does, no macro inside itself.
* `Numbers`: doubles with `DIG` digits, counted in quarters. For `my_isinf` a
  value is one of five classes, of which `"wide"` is a number that only a
  register can hold. Where `finite` divides by it, and where a platform's
  function gets it, the answer may be about the register or about what is
  stored, so `finite` is a set of answers.
* `Dbug`: functions call each other, return, save buffers and jump back to them in
  both builds. The debugger is external: it knows the running function (`func`)
  and one saved place (`jmp`), and each function's frame notes its caller. What
  it does when a frame is left that is not the running one's is not in the
  repository: it goes on or gives up. `misled` is the set of functions in
  which it cannot know better. Left out are output and settings (`DBUG_PRINT`,
  `PUSH`, `POP`, `SET`), `DBUG_EVALUATE`, which is `DBUG_EXECUTE` with a value,
  `DEBUGGER_ON` and `DEBUGGER_OFF`, and `NDEBUG`, which makes `assert` nothing.
* `Plugins`: symbols exported by each image, the server's walk over the array it
  finds, and service calls through tables. One library may be built against an
  older header.
* `Ctype`: one query after the other, with signed and unsigned characters.

## Runs

Passing runs, distinct states in thousands:

| Run | Instance | States | Shows |
|---|---|---|---|
| queue | 3 items, 2 hosts, one item refused; no re-entry | 2 711 | `FinishedMeansFinished`, `OpensByPriority` |
| reentrant | 3 items on one host, one refused; operations from every event, three rules | 3 120 | `ConnectionsAreTransfers`, `ItemsLoadedCounts`, `ForcedIsLoaded`, `ImplementsDownloadQueue` |
| unruly | 2 items on 2 hosts, every operation, no rules, data that does not parse | 1 805 | `TypeOK`, `HostBound`, `FinishedHoldsNoConnection`, `AnnouncedOnce`, `OpensWithinLimit` |
| progress | 2 items, 1 connection, re-entry, pausing, taking and dropping items | 91 | `NoIdleSlot`, `EverythingSettles`, `CompleteFollows` |
| mutexes | 3 threads, a mutex, a condition | 620 | `WaitsMatchCalls`, `LedgerSpec` |
| rwlocks | 3 threads, a rwlock, a prlock | 2 112 | `ReadersNotOvercounted`, `WriterExcludesReaders`, `NoUseAfterDestroy` |
| files | 2 threads, 2 names, 2 descriptors, a stream | 887 | `AttributionIsTrue`, `WaitsMatchCalls`, `StreamsNotLeaked`, `BlockCountsTrue` |
| ioCache | buffer of 3, file of 7, requests up to 5 | 23 | `StreamInOrder`, `DeliveredInOrder`, `OverrunOnlyAfterError` |
| counters | 2 threads, words of 3 values | 594 | `InaccurateOnlyByRace`, `AtomicSpec`, `MutexGivenBack` |
| primitives | see `Primitives.cfg` | 2 510 | `NumbersReadBack`, `TrimmedExactly`, `DeadlinesTrue`, `AssertionsExact`, `VariablesFound`, `ThreadCallsWork`, `WidthsTrue`, `NumbersTrue`, `FunctionsKnown`, `PluginsWork`, `CharactersTrue` |

Each property of the primitives is about one module and is the conjunction of
parts that its module names and explains. Properties of the wrappers, the cached
file and the counters that no run lists (their `TypeOK`, `OwnerIsTrue`,
`WriterLedgerSpec`, `TellIsTrue`, `NothingLost`, `ReadsInside` of
`SkipTrailingSpace`, and `WaitsMatchCalls` and `NoUseAfterDestroy` where they are
missing in the table) are proved for every instance, see below.

Bounds. Three items are the fewest with one loading, one waiting and one being
evicted or removed; `MaxTries` is 2, so that both a retry and the last failure
happen; `MaxCalls` bounds the client's calls other than `add()`: enough to
start, disturb, disturb the disturbance and resume. Three threads are one that
holds, one that waits and one that comes in between; with locks, two readers and
a writer. Two names and two descriptors are enough for a number to change hands.
A buffer of 3 and requests of up to 5 cover requests within the buffer, across
one refill and past a whole buffer. Words of 3 values make counters wrap. In the
primitives a byte has 8 values, a second 24 nanoseconds, a long of Windows ends
at 1 millisecond, so that timeouts wrap once and twice, an unsigned number has 7
bits and a double 4 digits, and there are two buffers for long jumps, one more
than the debugger has places: each small, and larger than the cases they have to
tell apart. Threads, names, descriptors, streams and, in reentrant, the items
that are not refused are symmetric.

Deadlock is not an error where the program may stop: a loader whose client does
nothing more, and primitives that have come to the end of a header or of their
bound. The wrappers, the cached file and the counters must not deadlock.

Fairness. BulkLoader (`progress`, `removeStalls`): weak fairness of `Step`, as a
call in progress runs on by itself, and of `NetEvent(i)`, as the player ends
every transfer it has begun, a dead connection with IO_ERROR; the client owes
nothing. Counters: weak fairness of each thread inside an operation, as nothing
in a macro waits but for the mutex; that the mutex is given back is then due to
the macros alone.

Two runs show where the code departs from what its comments say:

| Run | Comment | Code |
|---|---|---|
| removeStalls | `start()` loads "all items added previously" (`BulkLoader.as:614`) | `remove()` of a loading item never calls `_loadNext()` |
| fileCounts | the count of an ended file wait is "-1 if the operation failed" (`psi.h:1018`) | a failed `fgetc` reports 1 byte, a failed read, write or seek 0 |

Definitions named `Definition_Change` are plausible mistakes (mutants), one or
more per module; every property of the passing runs detects one of them.

## Observations

Read from the code and reproduced in a model where one has the state for it.

BulkLoader, each behind one of the client rules or of the operations a run
leaves out:

* `XMLItem.onCompleteHandler` reports a parse error and then completes the item,
  so COMPLETE, which "only fires if there are no errors" (`BulkLoader.as:52`),
  fires.
* `loadNow()` (`:692`) evicts the least urgent connection of any host, perhaps
  not of the host that is full, and the item is then not loaded.
* `loadNow()` between `load()` and OPEN opens an item twice: the test at `:684`
  looks at the status, which OPEN sets.
* `reload()` (`:650`) leaves `_isLoaded` set, so COMPLETE may be announced while
  the item is transferred again; such a transfer is then not counted any more.
* A listener of the PROGRESS event before COMPLETE (`:1500`) may add an item and
  gets COMPLETE all the same.
* An item whose data does not parse reports its error before it completes. A
  listener of that error that pauses the item leaves it finished and not
  loading, so `_getNextItemToLoad` (`:781`) takes it again and `_itemsLoaded`
  counts it twice.
* A listener that calls `loadNow()` while the COMPLETE of another item is handed
  out finds that item loaded and still connected, may stop it, and the loader
  ends finished with an item that is not.
* A connection that is freed by `remove()` or by `pause()` without `loadsNext`,
  and an item made to wait by `resume()`, stay unattended until the next event.
* Of the three rules and the documents that parse (`Tame` in
  `BulkLoaderProofs`) each is needed: TLC breaks `ConnectionsAreTransfers` when
  any one of the rules is dropped, and `ItemsLoadedCounts` without
  `noForcedPending`, without `noReloadLoaded` or with a document that does not
  parse. It breaks `ForcedIsLoaded` with two hosts or a lowered limit,
  `OpensByPriority` with `loadNow()`, `FinishedMeansFinished` with `loadNow()`
  from a listener, and `NoIdleSlot` with each of the three operations above.
  That `reload()` disturbs the order of opening was not seen on small instances;
  the proof does not cover it, because `reload()` goes through `loadNow()`,
  which raises a priority and does not sort.
* `start()` (`:631`) sets `_isRunning` after its `_loadNext()`, in which a
  listener may have finished the loader: it is then running and finished.

Headers:

* `my_dbug.h:119`: in a debug build DBUG_CRASH_RETURN neither returns its value
  nor leaves the frame: the caller goes on under the name of the function that
  has ended. `FunctionsKnown` says how far that reaches. The macro at line 115
  calls `strxnmov` without the terminating null argument.
* `my_dbug.h:90`: the debugger has one saved place, so a jump by a buffer that is
  not the last one set leaves it with the wrong function. `my_dbug.h:156`:
  without a debugger DBUG_LONGJMP has one parameter where line 91 has two, and
  calls `longjmp` with one argument: no program that jumps by it compiles.
* `my_pthread.h:110`: `max_timeout_msec` is cut to a long, so a wait of more than
  24 days is capped to less, or to a negative time.
* `my_pthread.h:332` defines `pthread_cond_timedwait` again after `:296`, and
  `:337` `pthread_sigmask` after `:258`, without an `#undef`.
  `my_pthread.h:392`: with HAVE_PTHREAD_YIELD_ONE_ARG `pthread_yield` keeps its
  argument, which no caller of the portable name gives.
* `my_compiler.h:52` asks for `__SUNPRO_C`, which Sun's C++ compiler does not
  define: it never gets its alignments, though line 51 lets it in. MY_ALIGNED used
  behind `my_attribute.h` is lost with compilers for which that header makes
  `__attribute__` nothing. Its comment speaks of gcc before 2.7; the code asks
  for 2.8.
* `m_string.h:50`: with neither `memcpy` nor `memmove` nor `bfill`, `memset` and
  `bfill` are macros for each other, and a call ends at a function that is not
  there. `m_string.h:93`: where `strmov` is a macro nothing defines
  `strmake_overlapp`.
* `my_global.h:934`: NO_CLIENT_LONG_LONG makes `my_ulonglong` a long, of 4 bytes
  on 32-bit machines.
* `my_pthread.h`, fast mutexes: the layer undefines names that the layers for
  draft 4a threads and for HP-UX 10 had replaced. With CTHREADS a timed wait
  never times out, and HAVE_PTHREAD_KILL is defined where `pthread_kill` is a
  dummy.
* `my_global.h:1426`: `__func__` becomes "<unknown>" on C99 compilers other than
  those named. `my_global.h:791`: where `isfinite` is a macro and HAVE_FINITE is not
  set, neither branch defines `finite`, and without HAVE_ISINF `my_isinf` does
  not compile. `my_global.h:795`: the quotient is taken of the register, so a
  number that is infinite only once it is stored may count as finite, and then
  not as infinite at line 817.
* The conversion of a double that has been rounded up to 2^64 wraps to 0.
* `mysql_thread.h:551`: an init that fails leaves its instrument behind.

## Proofs

Eight modules hold theorems. All constants are arbitrary within the named
ASSUMEs; TLC evaluates these on every run.

* `BulkLoaderProofs` assumes that `Items` is finite, that each has a host and
  that limits are positive, and bounds nothing: any number of items, calls and
  nested listeners. Five theorems hold for every client: `TypeCorrect`,
  `HostBoundHolds`, `FinishedHolds`, `AnnouncedOnceHolds`,
  `OpensWithinLimitHolds`. Two lemmas describe a step for them: `StepShape` (it
  drops connections, or drops some and opens one that passes `CanOpen`) and
  `AnnounceShape`. Their invariant `IInv` adds that `connections` is finite and
  that a loader that is not finished has announced nothing.

  Eight more say what the client must keep from, as a hypothesis on `Ops`, `Rules`
  and the other constants:

  | Theorem | Hypotheses | Invariant | Run that meets them |
  |---|---|---|---|
  | `ConnectionsAreTransfersHold`, `ItemsLoadedCountsHold` | `Tame`: three rules, and documents that parse | `TameInv` | reentrant |
  | `DownloadQueueImplemented` | `Tame` | `TameInv` | reentrant |
  | `FinishedMeansLoaded`: a finished loader has only loaded items | `Tame` | `TameInv` | reentrant |
  | `OpensByPriorityHolds` | `Unforced`: no `loadNow()`, no `reload()` | `OrderInv` | queue |
  | `ForcedIsLoadedHolds` | `Tame`, `OneHostOnly`, `LimitUntouched` | `ForcedInv` | reentrant |
  | `FinishedMeansFinishedHolds` | `Tame`, `Calm`: `Unforced`, or no calls from listeners | `FinishedInv` | queue |
  | `NoIdleSlotHolds` | `Tame`, `Diligent`: no `remove()`, `resume()`, `pause()` without `loadsNext` | `IdleInv` | progress |

  The properties speak of the moments between two events; in the middle of a
  call they are false, and the next call may come in there. The invariants
  therefore speak of the frames of `todo`. `TameInv`: an item has at most one
  entry, and an entry is a transfer the loader listens to or is owed to a frame
  that will still give it back (`Accounted`), where such frames are on top of
  the stack or wait below a listener (`TopOnly`, `TopOK`); `_itemsLoaded` is
  exact at every step (`CountOK`). `OrderInv`: the queue is sorted. `ForcedInv`:
  the limit is kept, so that what `loadNow()` evicts makes room. `FinishedInv`:
  a loaded item has the status "finished". `IdleInv`: while an item waits that
  could open, some frame of the stack will look at the queue (`Promised`), and
  the frames stand in the order in which these looks are not lost (`StackOK`).
  Each is shown action by action. What a frame may push is described once
  (`Proceeds`, `Forces`, `Summons`, `Discards`) and what an action does to an
  item once (`Untouched`, `Halted`, `Carried`).

  `DownloadQueueImplemented` is the refinement of `DownloadQueue`: each action is
  matched with one action of the abstract queue or with none. Most frames and
  calls leave it alone. What needs `TameInv` are `Finish` (the item on top of
  the call still has its connection, a part of `TopOK`), an opening (an item has
  one entry, so that counting entries is counting items, and what is not loading
  is neither open nor loaded), and the closing of one or all connections. That
  no action but `onCompleteHandler` makes an item loaded is `LoadedKept`.
* `LockLedger`: `LedgerIsTrue`, the abstract ledger names only holders and
  sleepers.
* `MysqlThreadProofs`: `TypeCorrect`, `WaitsMatchCallsHolds`,
  `NoUseAfterDestroyHolds`, `LedgerImplemented`, `OwnerIsTrueHolds`. The
  invariant says, per thread, what a call at each stage holds, records and may
  rely on (`CallInv`), and per object that it is ready while held or touched
  (`ObjectInv`). Each action is shown to preserve it and to be a step of the
  ledger or a stutter; the truth of owners then follows from the ledger.
* `MysqlRwlockProofs`: the same for read-write locks. `ReadersNotOvercounted` is
  not inductive: a reader leaves the recorder's count before it leaves the lock.
  `CountInv` compares the count with the readers that are not inside a call.
* `MysqlFileProofs`: `AttributionHolds`, `FileWaitsMatchCalls`,
  `StreamsNotLeakedHolds`, `BlockCountsHold`, `FileTypeCorrect`. The invariant
  adds that a call which opens or closes has its stream or descriptor for itself
  (`Exclusive`), which is what keeps a reused number apart from the old one.
* `IoCacheProofs`: `StreamInOrderHolds`, `TellHolds`, `DeliveredHolds`,
  `OverrunHolds`, `CacheTypeCorrect`, for any sizes; the invariant adds where the
  positions stand in a cache of each type.
* `CountersProofs`: `NothingLostHolds`, `AtomicImplemented`,
  `InaccurateOnlyByRaceHolds`, `CountersTypeCorrect`; per thread, what it has
  loaded is still true while it holds the mutex.
* `PrimitivesProofs` takes each primitive by itself, with a specification of its
  own (`TrimSpec`, `OwnerSpec`, `DeadlineSpec`, `StoreSpec`, `DbugSpec`,
  `CtypeSpec`, `PluginsSpec`, `NumberSpec`); the run drives the same next-state relations side by side.
  - `ReadsInsideHolds`, `TrimmedExactlyHolds`: for strings of any length and
    alignment. `TrimInv` divides the string into the zones of the loops and says
    that everything behind `end` is a space.
  - `AssertionsExactHolds`: for any threads. `OwnerInv` says that only the thread
    inside changes the fields (`OneInside`), that they tell of it while it is not
    changing them (`FieldsTell`), and what an assertion between its two reads may
    rely on (`Asked`).
  - `DeadlinesTrueHolds`: for any units of time of which a second is whole
    milliseconds and any `long`, the real ones included, and no bound on clock and
    timeouts. `Comes` is the moment a
    deadline stands for as a sum of numbers rounded down; from it the lemmas
    about rounding give the resolution, the order and the comparison. The
    arithmetic is not linear and rests on three lemmas about quotients.
  - `NumbersReadBackHolds`: for every number of every width, any even base (256
    in particular), any number of stores at any addresses. `StoreInv` says that
    every number no other was stored over still lies where it was put. A number
    is a sum over its bytes, a recursive function on `0 .. 8`: the function is
    shown to exist by its nine values, and the sum to be the number one byte at
    a time (`SumOfDigits`), which takes the place of an induction. What each
    macro of each platform stores and reads is then a lemma of its own.
  - `FunctionsAlwaysKnown`: for any depth of calls and any buffers. `DbugInv` adds
    that no buffer and no entry of `misled` outlives its function
    (`BuffersAreLive`), and that the saved place is the function of the buffer
    set last, while that function runs and is not misled (`JumpSaved`).
  - `CharactersTrueHolds`: for every byte and every two-byte code, on both
    machines and with both kinds of char.
  - `PluginsAlwaysWork`: for any libraries with any number of plugins, built by
    either compiler against either header. `PluginsInv` says what a library has
    exported once it is built (`Declares`), and that the server's walk has read
    the first plugins of it, field by field, whatever the size of a descriptor
    (`Walked`); `ArrayFields` finds the fields of the k-th plugin in the array,
    and the zeros that end the walk behind the last.
  - `NumbersAlwaysTrue`: for doubles of any number of digits and unsigned numbers
    of any number of bits above it. `TwoTo` is a recursive function on the
    naturals. That it exists, and what holds of all its values, is shown by
    induction: the lemmas `Least` and `Induct` state it for sets of naturals, from
    the library's theorem that `<` is well-founded, in place of the theorems with
    an operator as a parameter. `UpperDoubles` and `Mirrored` then give why the
    conversion may round twice: every double in the upper half has one in the
    lower half at the same distance from the top, so the first rounding skips
    none. `WholeOrSmall` and `SmallWholes` are why `rint` needs to look at ties
    only below `MAX_EXACT_INTEGER`.

Only model-checked:

* liveness (`EverythingSettles`, `CompleteFollows`, `MutexGivenBack`): the prover
  has no rule for fairness;
* `WidthsTrue`, `VariablesFound`: these modules have no constants, TLC covers
  every machine and every declaration, and a proof would only repeat it;
* `ThreadCallsWork`: the run covers all platforms, and the settings topic by
  topic; 25 blocks that rewrite a table of macros are more than the provers
  unfold.

Of what recursive functions compute, the proofs reach what follows by induction
over sets of naturals or one element at a time; no module with a theorem uses a
RECURSIVE operator.

## Not modelled

* Headers without code: `mysql.h`, `mysql_com.h`, `my_alloc.h`, `my_getopt.h`,
  `keycache.h`, `decimal.h`, `my_xml.h`, `sql_common.h`, the plugin descriptors
  and most of `my_sys.h` and `m_ctype.h` are structures and prototypes; the C
  files that give them behaviour are not in the repository.
* `mysqld_error.h`, `mysqld_ername.h`, `sql_state.h`, `errmsg.h`: tables of codes.
* `psi_abi_v1.h`, `psi_abi_v2.h`: dumps of `psi.h` by the preprocessor.
* `my_config.h`: what `configure` found; its settings are the inputs of
  `ThreadConfig` and `Widths`.
* BulkLoader's streaming items (completion by polling), progress ratios, registry
  of loaders, lazy loaders, URLs and file types: the queue's control does not
  depend on them, except through the host of an item, which is a parameter.
* BetweenAS3, Tweener, away3d and other third-party ActionScript libraries, the
  MySQL test suite, code snippets, shell scripts, editor settings, samples:
  vendored, or without state to reason about.

## Plan

1. The streaming items as a second life cycle of an item.
2. `ThreadCallsWork` for all settings at once, block by block, with the table of
   macros written without the operators of module `TLC`.
