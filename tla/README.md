# Models of the 15-213 lab code

TLA+ models of the programs in this repository, the TLC configurations that
check them on small instances, and TLAPS proofs of what matters most for every
instance. The repository is a set of independent C programs, one per lab:

| program | code | modules | checked by | proved |
|---|---|---|---|---|
| tiny shell | `Lab5_shelllab/tsh.c` | JobTable, JobList, Shell, ShellInv, JobControl, MCShell | 6 runs | ShellProofs |
| allocator and its driver | `Lab6_malloclab/mm.c`, `memlib.c`, `mdriver.c` | Mm, MallocDriver, Allocator | `malloc` | MallocProofs, RecursionFacts |
| proxy's thread pool | `Lab7_proxylab/sbuf.c`, `proxy.c` | ThreadPool, ConnectionQueue | `thread_pool` | ThreadPoolProofs |
| proxy's cache | `Lab7_proxylab/proxy.c` | ProxyCache, ReadWriteLock, MCProxyCache | `proxy_cache`, `proxy_cache_walk` | ProxyCacheProofs, RecursionFacts |
| queue exercise | `Lab0_cprogramminglab/queue.c`, `harness.c`, `qtest.c` | QueueHeap, Qtest, SequenceQueue | `labs` | QtestProofs |
| its command console | `Lab0_cprogramminglab/console.c`, `qtest.c` | Console | `labs` | LabProgramsProofs, RecursionFacts |
| RIO package | `Lab7_proxylab/csapp.c` | Rio, LineStream | `labs` | LabProgramsProofs |
| tiny web server | `Lab7_proxylab/tiny/tiny.c`, `tiny/csapp.c` | Tiny, Csapp | `labs` | LabProgramsProofs |
| cache simulator | `Lab4_cachelab/cachelab-handout/csim.c` | CacheSim, LruCache | `labs` | LabProgramsProofs, RecursionFacts |
| transposes | `trans.c`, `tracegen.c`, `test-trans.c`, `cachelab.c` there | Transpose, CacheSim | `labs` | - |
| bit puzzles | `Lab1_datalab/datalab-handout/bits.c`, `tests.c`, `btest.c`, `decl.c` | Bits, Btest, MCBtest | `labs`, `btest_floats` | BtestProofs, RecursionFacts |

`MCLabs` puts the seven smaller programs into one run: see [The smaller programs](#the-smaller-programs).

1. [Inventory](#inventory) 2. [The shell](#the-tiny-shell)
3. [The allocator](#the-allocator) 4. [The thread pool](#the-thread-pool)
5. [The cache](#the-proxys-cache) 6. [The smaller programs](#the-smaller-programs)
7. [What the runs found](#what-the-runs-found) 8. [Limits](#limits)
9. [Not modelled](#not-modelled) 10. [Plan](#plan)

Run a configuration with `tlc -config Pool.cfg ThreadPool`, check proofs with
`tlapm ThreadPoolProofs.tla`. `PROJECT.json` lists the runs, the source lines of
every definition, the hazards, the theorems, and, for every property of a passing
run, a mutant of the model that violates it. The mutants stand in the modules
beside the definition they change and are marked "Mutant".

## Inventory

**Tiny shell (Lab5, tsh.c).** State: the job list (pid, job ID, state of each
job), `nextjid`, the signal mask. Operations: `eval` (fork, addjob, wait for the
foreground), `do_bgfg`, the handlers of SIGCHLD, SIGINT, SIGTSTP and SIGQUIT.
The handlers run on top of the loop at any step that does not block them and
share the job list with it; the kernel adds process groups, pending signals that
do not queue, and `waitpid`. Hard: a child that ends before it is listed, a
SIGCHLD between test and wait, a pid that is stale when it is signalled, masks
that are not restored. Correct if the list is exactly the unreaped children, at
most one job has the foreground, the prompt waits for it and comes back, zombies
are reaped, keys reach the foreground job and no other.

**Allocator (Lab6, mm.c over memlib.c).** State: one array of bytes with block
headers, footers and list links in it, and the break. Operations: `mm_init`,
`mm_malloc`, `mm_free`, `mm_realloc`. Called by one thread. Hard: every call
rewrites tags of neighbours and links of three or four blocks; a mistake shows
many calls later. Correct if blocks in use never overlap, what the program wrote
stays until it frees the block, tags and lists describe the heap, and a call
fails only when memory is exhausted.

**Driver of the allocator (Lab6, mdriver.c).** State: the blocks of a trace and
the list of ranges in use. `eval_mm_valid` runs the trace and reports the first
error; `eval_mm_util` and `eval_mm_speed` measure. `clock.c`, `fcyc.c`,
`ftimer.c`, `fsecs.c` read counters and clocks.

**Proxy (Lab7, proxy.c, sbuf.c).** State: the bounded buffer with its three
semaphores, the cache (a linked list, its free size, two semaphores, a count of
readers). `main` accepts and inserts; eight workers (`NTHREAD`) remove, serve and
close; `serve_client` reads the cache or forwards the request and writes the
cache. Hard: interleavings of all of these. Correct if each connection is served
once, in order, and the cache stays a list of at most `MAX_CACHE_SIZE` bytes that
gives the object that was stored.

**RIO package and wrappers (Lab7, csapp.c in three identical copies).** State: a read
buffer per descriptor. Operations: lines and blocks out of it, `rio_writen`; a wrapper
per system call that ends the process on failure; `open_clientfd`, `open_listenfd`.
Hard: short counts, EINTR, end of file in a line, a line that is too long. Correct if a
reader gets the writer's bytes once and in order.

**Tiny server (Lab7, tiny.c in two identical copies, adder.c).** State: descriptors, a
mapping, a child. One request at a time. Hard: every early return and every failure
between fork and wait. Correct if nothing of one request is left for the next.

**Queue exercise (Lab0).** `queue.c` is a linked list with a tail pointer;
`harness.c` replaces malloc and free by versions that keep a list, may fail at
random, and jumps out of an operation when an alarm goes off; `qtest.c` runs
operations as commands. Hard: an allocation that fails in the middle, the jump between
any two assignments. Correct if the queue is a sequence open at both ends, failures lose
and leak nothing, and a queue that was left half-changed is still safe to use.

**Console (Lab0).** `console.c` has a stack of command files with a read buffer each,
parses lines and counts errors; `report.c` prints. Hard: nested files and cut lines, errors
inside sourced files. Correct if the script is obeyed in order and the exit status tells.

**Cache simulator and transposes (Lab4).** `csim.c` is an LRU cache;
`trans.c` has blocked transposes for three sizes; `tracegen.c` runs one, `test-trans.c`
counts the misses of its accesses, `cachelab.c` has the matrices. Correct if the simulator
counts like an LRU cache and the transpose is right at the price the driver asks for.

**Bit puzzles (Lab1).** `bits.c` against `tests.c`; `btest.c` makes arguments, calls,
and stops a test that takes too long. Correct if no puzzle gives a wrong answer.

**Bomb and attack labs (Lab2, Lab3), scripts.** See [Not modelled](#not-modelled).

## The tiny shell

`JobTable` has the helpers on the job list (`addjob`, `deletejob`, `fgpid`, ...)
as operators and actions on `jobs` and `nextjid`. `Shell` extends it with the
program: one thread with a program counter `pc` for the read/eval loop and a stack
`frames` of running handlers, plus the part of the kernel it uses.

| in `Shell` | in the code |
|---|---|
| `pc`: prompt, addjob, waitfg, suspended, cont, restore | the places of `eval`, `waitfg` and `do_bgfg` between which a signal can matter |
| `Fork`, `AddJob`, `WaitFg`, `Restore` | `eval` 193-215, `waitfg` 334-342 |
| `BgFg`, `BgFgNoJob`, `Continue` | `do_bgfg` 300-330, with the two ways it returns early |
| `Deliver`, `Return` | the kernel enters a handler and saves the mask; the handler returns |
| `ChldMask`, `Reap`, `ChldReturn` | `sigchld_handler`: mask all, one turn of the waitpid loop, return |
| `ReadFg`, `Forward` | `sigint_handler` and `sigtstp_handler`: fgpid, then Kill_sio |
| `life`, `unreported`, `intPending`, `member` | each child, stops waitpid has not reported, a SIGINT held by a stopped child, the second process of `mysplit` |
| `Setpgid` ... `MemberExit` | children: `eval` 194-203, `myint.c`, `mystop.c`, `mysplit.c` |
| `Keyboard` | the user presses ctrl-c or ctrl-z: the shell's own group gets the signal |

While `eval` or `do_bgfg` runs with SIGCHLD blocked, ctrl-c and ctrl-z can still
be delivered; the model has that. Not modelled: the text of command lines
(`parseline`), job command lines, the output, I/O errors.

`JobControl` is the abstract specification: states FG, BG, ST of each job, at most
one FG, launch and resume only when none is. It has one transition more than the
diagram in tsh.c's head comment (30-36): a background job may stop, because
`sigchld_handler` marks any stopped child ST, as mystop in the background shows.

### Runs

Two slots; two children, in `shell_safety` three, so that the list can be full when one
more is started; job IDs up to `MaxJid` = 2, after which no job is started (IDs grow with
every start). Handlers nest three deep, one per signal, since each blocks itself. Two
listed children are enough for the races: one in the foreground, one that ends, stops or
is resumed at the same time; the properties speak of two jobs at most. Children are
interchangeable, which `shell_safety` uses as symmetry.

| run | shows |
|---|---|
| `shell_safety` | the safety properties, the inductive invariant, and the refinement of `JobControl`, with launches, fg and bg, and both keys |
| `shell_live` | `ForegroundReturns` and `ZombiesReaped` under fairness, and `StoppedJobIsQuiet` with a program that splits; without fg or bg of no job |
| `shell_zombies`, `shell_forward`, `shell_group`, `job_ids` | the disagreements [below](#what-the-runs-found) |

`shell_safety` has no splitting program and no quit, and `shell_live` no ctrl-c: each
would multiply the states; between the runs every action fires.
With more children than slots (16 in the code) `addjob` reports that the list is full and
adds nothing, and `eval` dereferences the NULL that `getjobpid` then gives (207-209).
`AddJob` has that outcome and the run reaches it. `CrashOnlyWhenFull` says that there is no
other NULL job: `sigchld_handler` finds every child that waitpid reports, and `eval` its own
job whenever a slot was free. A child may end at any point after fork, also before its
setpgid or because setpgid fails; it is then reaped without ever having had a group.

Fairness: the loop, SIGCHLD's delivery and the handler at each depth are
strongly fair. The user may press keys between any two steps, which disables the
loop again and again; that it still gets its turn is the assumption that the shell
runs faster than the user types, and the kernel delivers what is deliverable before
it returns to user mode. Nothing is assumed of children or the user.

### Proofs

`ShellProofs` proves `Spec => []IInv` for every set of processes, number of slots
and set of commands, keys and splitters. From it follow all safety properties of
`shell_safety` and the refinement. None is inductive alone. What
makes them so (`ShellInv`):

- `LoopInv`: at each place of the loop, which job may have the foreground.
- `MaskInv`: while the list is in use SIGCHLD is blocked and, which is the point,
  stays blocked when a handler returns: every frame has saved a mask with it.
- `ListInv`: list and unreaped children agree, except for the child being added.
- `ForwardSparesBackground` itself: between fgpid and kill only `Reap` changes the
  list, and it deletes or stops jobs; it never makes one a background job.
- `StopInv` and `StateInv`, for `StoppedIsListed` and `StoppedJobIsQuiet`: a stop that
  waitpid still owes is of a child that is stopped, and a child that stops before it is
  listed is owed. A continue takes the stop back from list and kernel in one step.

The proof has one lemma per conjunct (`LoopStep`, `FrameStep`, `ListStep`,
`ForwardStep`, `TypeStep` and so on) and one step per action. For the refinement,
`TableStep` says how a step may change the job list (nothing, one slot's state, one slot
added or removed), which is then a transition of `JobControl` or a stutter.
`ShellProofs` begins with what the list operators return and preserve. Assumptions: those in
JobTable and Shell (at least one slot, `NoPid` is no process, the command and key sets).
`NullJobMeansFullList` proves `CrashOnlyWhenFull` for any numbers of processes and slots,
fewer slots included. The two liveness properties are model-checked only.

## The allocator

`Mm` translates mm.c as operators from heap to heap. A heap is the array of
8-byte words and the break; a pointer is the index of a word, a block the index of
its header. Tags are packed as in the code (size, prev_alloc, alloc). The units
are words; the block sizes and the alignment rule are those of the code.
`MallocDriver` is `eval_mm_valid` of mdriver.c as a state machine: any legal
sequence of malloc, realloc and free, the range list, the fill pattern, and
malloc_error as `report`, which ends the trace. `Allocator` is the abstract
specification: regions handed out never overlap, and their words stay until they
are released. The refinement maps each block in use to its addresses and the
words there.

### Run

`malloc`: two indices, requests of 24 and 40 bytes, three lists, 38 words. Blocks
are then of 6 and 8 words, so that splits leave 2 words (kept), 4 words
(kept: the test is strict) or 6 and more (given up), every coalescing case occurs,
free blocks fall in the second and third list, and the heap is soon full: the 24
words after roots and epilogue hold three or four blocks. Memory before `mm_init` is
all 0 or all 32, a word that reads as the header of a free block of 4 words, as
`mm_extend_heap` and `coallesce` must not depend on it. Request sizes are multiples
of 8: `byte2wordAligned` rounds others up, so they give the same blocks with
fewer words to keep. Deadlock is not checked as a report ends a trace.

| property | says |
|---|---|
| `BoundaryTags` | the break stays in the memory, blocks tile the heap, prev_alloc bits and free footers are right |
| `FreeLists` | each list has exactly the free blocks of its class, by address, with right back links |
| `CheckersSilent` | mm.c's own checkers, which both builds compile out, never complain |
| `PayloadsIntact`, `DriverSilent` | what the program wrote stays; no check of the driver fails |
| `NothingLeaked` | every allocated block is one the program has |
| `FailsOnlyWhenFull` | a call fails only if no free block fits and the heap cannot grow |
| `ImplementsAllocator` | the refinement |

What the code does and the properties state as exceptions: `mm_malloc` extends the
heap twice, once for the block and once for a spare free block, and gives NULL when
the second extension fails, which loses the first block (`NothingLeaked` excludes
that trace; `FailsOnlyWhenFull` therefore asks for room for two). `mm_realloc` that
fails has already freed the block (`PayloadsIntact`). `mm_realloc(p, 0)` gives
NULL and frees nothing.

### Proofs

`MallocProofs` proves every property of the run for any number of lists, size of the
memory, indices and request sizes. Assumptions: at least one list (`SizesAssumption`),
requests are positive multiples of 8, indices are naturals and stale memory holds
numbers (`DriverAssumption`). The inductive invariant `IInv` says that there is a set T
of blocks that makes the heap `Whole`:

- `Tiling`: the blocks of T lie end to end from the roots to the epilogue, each of an
  even size of at least 4 words;
- `Tagged`, `Footed`: each prev_alloc bit is the alloc bit of the block before, and a free
  block's footer is its size, so `coallesce` may trust it;
- `Untouched`: a free block is not followed by a free one;
- `Lists`: for each class, succ and pred of the root and its free blocks are the order of
  their addresses. It is stated by the links and not by a walk, so an operation is
  compared with it at the three or four words it writes.

and that each index in use has an allocated block of T of its own, large enough and with
the words the program wrote (`Holds`), and, until a mm_malloc fails, no allocated block
has no index (`Owned`). T is an existential: the operations change it (`JoinedTiles`,
`CutTiles`), and the walks of the checkers are shown to compute it (`TileFacts`). TLC
has checked `IInv`, with the blocks of the walk for T, on the run's states. The argument,
bottom up:

| what | lemmas |
|---|---|
| packed words are read back, a write changes one word | `PackReads`, `WroteHeader` |
| a list walk gives the ordered list; find_fit, and the place of a block in its list | `ChainFacts`, `FindFit`, `PlaceFound` |
| unlinking and linking one block of one class | `UnlinkFacts`, `UnlinkLists`, `PlaceFacts`, `PlaceLists` |
| allocate_block, with and without a split | `AllocateSplit`, `AllocateAll` |
| mm_free: marked, merged with either neighbour, tagged, listed | `MarkFree`, `MergePrevFacts`, `MergeNextFacts`, `TagFreeFacts`, `PlaceMerged` |
| mm_extend_heap, and the spare block of mm_malloc | `ExtendFacts`, `GrownWhole`, `SpareWhole` |
| the move of mm_realloc out of a block already freed, and the word put back | `MoveFacts`, `WrittenWhole` |
| the entry points | `MallocFacts`, `FreeFacts`, `ReallocFacts` |
| the driver: a block it is given is accepted, and filled | `RangeAccepted`, `FillHolds`, `TakeFacts` |

Between two calls inside an operation the heap is not whole: a block is free and in no list
(`Unlisted`, `Loose`), or may be allocated although its footer is gone (`Grantable`, which is
what mm_realloc has when the move went over the footer of the block it will take). Those
states are named, and each helper is shown to lead from one to the next. `Refinement`
needs no more of the heap than that regions in use are apart and hold their tags.

## The thread pool

`ThreadPool` has `main` and the workers with a program counter each. Every
`P`, `V` and every access of the buffer in sbuf.c is a step. `serve_client` is one
step, `Serve`, which may never come: the client and the server decide. `open` is the
set of client descriptors not closed; `accept` gives one that is not open. `unix_error`
ends the process: the wrappers of csapp.c exit on an error (32-36), so one that `Accept`,
`Getnameinfo`, `Close` or any call in `serve_client` meets ends all threads.
`MAX_CONN` ends a run after so many connections, as `rear` only grows (an `int` in
the code, which overflows after 2^31 connections).

`ConnectionQueue` is the abstract specification: a FIFO queue of at most n
connections, each taken by one worker. The refinement maps the queue to the cells
front + 1 to rear, modulo n.

### Run

`thread_pool`: two workers, two cells, five descriptors, five connections. The
buffer fills, wraps around twice, and both workers and main wait for each other;
a descriptor is accepted again after it was closed. The code has eight workers and eight
cells: the semaphore argument does not depend on the number, and the proof is for
every number. Deadlock is not checked as the run stops after `MAX_CONN`.

Fairness: weak fairness of `main` except `accept`, and of each worker except
`serve_client`: the scheduler runs every thread that can run. Nothing is assumed
of semaphores beyond that: a thread may be overtaken at a semaphore, and
`ConnectionsAreTaken` needs no more, as only finitely many connections can overtake.
It says that a connection that waits is taken, unless all workers are stuck in
serve_client or the proxy ends. The latter is what the code does on an error of any one
connection; nothing in the repository promises more, so it is part of the property and not
a finding.

### Proofs

`ThreadPoolProofs` proves `Spec => []IInv` for all n > 0, finite sets of workers,
descriptors and run lengths, and from it `MutualExclusion`, `BufferInBounds` (both follow
from `IInv`, so the run does not list them), `OneHolder` and the refinement `ImplementsQueue`. The heart is `TokensCounted`:

    items + (workers past P(items), not yet past the removal)  + (main between insertion and V(items)) = rear - front
    slots + (workers between removal and V(slots)) + (main past P(slots), not yet past the insertion) = n - (rear - front)

From it a worker about to remove has front < rear and main about to insert has
rear - front < n. That with `PlacesInv` (who has a connection where) and
`MutualExclusion` keeps the cells apart (`CellsApart`: indices less than n apart
differ modulo n), which gives `OneHolder`, and the refinement: `Put` appends,
`Take` takes the head, the rest stutters. Assumptions: `PoolAssumption`.
Integers are unbounded in the proof. `ConnectionsAreTaken` is model-checked only.

## The proxy's cache

`ProxyCache` has the workers inside `serve_client`, without the buffer that feeds
them. Each semaphore operation is a step, and so is each test and each assignment of `read_cache`
that reads or changes the list, since several readers are there at once.
`write_cache` has the list for itself, so one turn of its eviction loop is a step.

| in `ProxyCache` | in the code |
|---|---|
| `pc`, `cur`, `key`, `obj_size` | a worker's place and its locals |
| `mem` | the cache lines by address; `used` is TRUE from Malloc to Free |
| `LockMutex` ... `EndRead` | `read_cache` 211-241 |
| `Test`, `UnlinkFromPrev` ... `RelinkNext`, `MoveHead` | a hit moves its line to the head (222-227): the tests of `prev` and `next`, and the assignments, which read them again |
| `forward_headers`, `forward_response` | what the network decides: headers that end early, a response too large to cache, or one of a size in `Sizes` |
| `StartWrite` ... `EndWrite` | `write_cache` 242-270 |
| `Fault` | a step that may end the proxy |

A key stands for the pair of host name and path that the lookup compares. The port is
not part of it (219-220), so two servers on one host share their entries; a model
with ports would only have more requests for one key.

`read_cache` does not keep the list in order, and the model keeps what it does. A hit
on the head makes the line its own successor (226). A hit on another line does not set
the old head's `prev`. An eviction does not clear the `next` of the new tail. Lists that
are short, looped or lead to a freed line are therefore ordinary states of the run, and
the properties hold in them. Where the code has undefined behaviour, `Fault` lets the
proxy end: a NULL followed by the eviction loop or by a reader whose line another reader has
moved since its test (222, 223), a freed line that is used (the `tail->size` read at 249
included), the overruns
at 171 and 277 (`Malloc(sizeof(cache_line))` asks for the size of a pointer). If it does
not end, a freed line still has its old fields and `status` is "undefined" from then on;
what an overrun overwrites in other blocks is not modelled.

`ReadWriteLock` is the abstract specification of `mutex`, `w` and `read_cnt`: any
number of readers or one writer. The refinement maps a worker to the places at which
it may use the list.

### Runs

`proxy_cache`: two workers, two keys, responses of size 1 and 3, a cache of size 3, so
that the list has up to three lines, and an insertion evicts none, one, or runs into the
NULL before there is room. Four addresses: three lines stored and one being inserted;
those that were freed are given out again while old pointers to them remain. Workers,
keys and addresses are interchangeable, which the run uses as symmetry. Deadlock is
not checked as the proxy may end; `NobodyStuck` says that workers never all wait for
each other. Fairness is not used here.

`SizeAccounted` says that `size_left` is what the stored lines leave, also after races
and evictions, up to the first use of a freed line. After that it need not hold: with three stored lines
and five addresses a hit on a freed line can make it the tail, and its size is then given
back twice. That is why the property has the exception.

`proxy_cache_walk`: one worker, fairness of its own steps (the scheduler runs it),
none of the network's. See [below](#what-the-runs-found).

### Proofs

`ProxyCacheProofs` proves `Spec => []IInv` and `Spec => ImplementsLock` for any finite
set of workers and all keys, lines and sizes, from `CacheAssumption`. They hold whatever
the list looks like. Exclusion alone is not inductive; `IInv` adds

- `MutexInv`: at most one worker is between P(mutex) and V(mutex), and mutex says so;
- `CountInv`: read_cnt is the number of readers, with the one that waits for w;
- `LockInv`: w is 0 exactly while a writer, readers, or the last reader on its way
  out hold it, and these exclude each other;
- `HitInv`: a worker that moves a line has one, and `FirstInv`: who waits for w with the
  mutex in hand is the first reader, and nobody reads;
- `BudgetInv`: `size_left` and the sizes of the lines in use make up the limit, but for the line
  a writer has not linked yet, which nothing points to and so is not evicted.

The count is a cardinality: a step that moves one worker changes it by one
(`CountChange`), any other step not at all. The sum of the sizes is a fold over a finite set;
`RecursionFacts` shows by induction what it does when one line is removed, added or changed
(`TotalRemove`, `TotalSame`). `NobodyStuck` follows from `IInv` and the finiteness of the set of
workers: who has the mutex or the lock can go on.

## The smaller programs

`MCLabs` runs one of seven programs per behaviour: `prog` says which, and a property says
something of its own program only. They share nothing; one run keeps the number of
configurations small. Deadlock is not checked, since each of them ends. `Programs` has
`prog`, `LabPrograms` puts the console, RIO, csim and tiny side by side, `BtestProgram` adds
btest, and `MCLabs` the transposes and the queue. The theorems of `LabProgramsProofs` and
`BtestProofs` are about `LabProgramsSpec` and `BtestProgramSpec`: each program beside
others that stand still, with any set of programs that may run.

### The queue exercise

`QueueHeap` has queue.c over the allocator of harness.c. An operation is a set of runs, a
run the sequence of memories between its assignments: `test_malloc` may fail, and an alarm
may leave a run at any of its memories. `Qtest` has the commands: `Begin` clears the error
and enters `exception_setup`, `Insert`, `Size` and `Call` make a call, `Alarm` leaves it,
`do_...` is the rest of the command. `show_queue` runs at the end of a command when the
verbosity is 3, under `exception_setup` of its own, so an alarm may leave it too. `qcnt` is
a size_t: after an alarm in an insertion it may be one short and wrap, and a negative count
of the model is such a one (`Above`). `OutOfMemory` is the C library without memory
(harness.c 122-126), a FATAL ERROR that exits. `SequenceQueue` is what queue.h promises.

Instance: two strings (symmetric), seven blocks (a queue and three elements), insertions
while there are fewer than two elements, two repetitions, one failing allocation (each one
in turn) and one alarm (at every place). One alarm suffices to reach each half-changed
queue; commands go on after it.

| property | says |
|---|---|
| `QueueIntact` | after any alarm the queue is a list of live blocks and tail is one of them |
| `NothingLost` | without an alarm the harness's list is exactly the queue's blocks, and the three counts agree |
| `ImplementsSequence` | the queue is a sequence that changes as the command says and as often as qtest counts; what fails changes nothing |
| `AlarmsCount` | a command whose call or `show_queue` an alarm left returns FALSE |

What the code does and the properties state as exceptions: insertions return ok without
`error_check` (qtest.c 157-189, 212-235), so an alarm in them is not counted, and
`show_queue`'s own `error_check` (417) clears the error of the command that shows. No
property covers these two; nor does one say what the abstract queue is after an alarm. An
alarm inside `test_malloc` or `test_free` can leave a freed block in the harness's list;
`Defined` stops there, as what follows is undefined.

`QtestProofs` proves all four properties for any number of blocks, repetitions, alarms and failures and any
verbosity. A queue is there described by the path its links take (`Path`, `Queue`): distinct elements, each with
a string of its own, tail one of them. One lemma per function of queue.c (`HeadInserted`, `TailInserted`,
`RemoveGood`, `ReverseGood`, `NewGood`, `RefusedGood`) says that every memory of every run has such a queue, so an
alarm may come anywhere; `q_free` gives the queue up, and its memories are only typed. That `Walk` finds the path,
and what the loops of `q_reverse` and `q_free` do, are inductions.

`NothingLost` and `ImplementsSequence` are about what a run without an alarm ends with, and need more
(`SInv`): the harness's list is a path through exactly the blocks in use with right back links (`Listed`), so that
`find_header` always finds what it is given and `error_occurred` stays false (`FreeListed`); the queue is `Exact`,
that is tail is the last element, `sizeL` the length, and nothing but the queue, its elements and their strings is in
use; and the length is `qcnt`, less one while a removal is not yet counted (`CleanInv`). A second lemma per function
(`HeadHolds`, `TailHolds`, `RemoveHolds`, `ReverseHolds`, `NewSound`, `FreeSound`, `RefusedHolds`) gives the
strings of the queue afterwards, and one lemma per action of `Qtest` (`InsertFollows`, `CallFollows`, ...) the step of
`SequenceQueue` it is. An alarm is the step after which the abstract queue promises nothing.

### The console

`Console` has console.c with the files as sequences of words: a turn of `cmd_select` takes
a line, from whichever part of the file earlier reads have brought, and interprets it.
A read that fails (`readline_fails`) is taken by `readline` for the end of the file, as in the
code (461), and `main` returns 1 when the script cannot be opened: `torn` says that either
happened. `option` obeys its pairs of name and value up to the first that is not in order.
Instance: all scripts of up to two lines out of eight, with or without a last line without
newline, and a sourced file of up to one; a read buffer of 8, so that the last of the eight
lines is cut at 6; an error limit of 2. Reads may bring any number of characters.

`ScriptInOrder` says that what was interpreted and what the stack still holds is the script with
its source commands expanded in place, until a read fails: the lines lost then are
reported by nobody. `StatusHonest` says that exit status 0 means that no command that was
interpreted failed and the queue was freed, once; a `quit` in mid-script or a failed read leaves
commands that were not interpreted, and the status may be 0. A failed command inside `time` is recorded twice (396 and 210), so the
error limit is reached earlier; after an error `finish_cmd` is not called and the queue is
not freed.

`LabProgramsProofs` proves both for all scripts, characters, buffer sizes and limits, from
`ConsoleAssumption`: files are sequences of characters, and no file sources itself, directly or
through others (`Ranks`; one that does has no expansion, and ends in the code when `open` runs out of
descriptors, which is not modelled; nor is an allocation of the console itself that fails, which exits).
The inductive invariant `IInv` has three parts:

- the types of the stack of files, with each file's place and buffer;
- `StatusInv`: the number of errors, the flag to quit and what the quit helper returned agree
  with the commands that failed;
- `OrderOf`: what was interpreted, followed by what the stack still holds (the rest of each buffer
  and of its file, the inner files first), is the script with its source commands expanded. The
  state between two turns keeps this however the reads cut the files.

Expansion is recursive over files inside files, and a line is found by a search in the text; the
lemmas before the invariant unfold both by one line (`Flattens`, `Regrouped`, and the
inductions of `RecursionFacts`).

### RIO and tiny

`Rio` has a writer in `rio_writen` and a reader that calls `rio_readlineb` and `rio_readnb`
in any order on one descriptor. The kernel takes and gives any number of bytes, either side
may be interrupted, or fail at any time, on which the wrappers end its process. Instance: messages of up to five bytes with newlines at any place, a
socket and a buffer of two, lines of at most three, blocks of two: lines are cut by
the buffer, by maxlen and by the end. `LineStream` is the promise: bytes once, in
order, a line or a block as asked, short only at the end; a writer that fails takes the bytes it has
not written with it (`Cut`). `ImplementsStream` is the refinement;
`LabProgramsProofs` proves it for every message, buffer, line and block length (`RioAssumption`: a
maxlen of at least 2, blocks of a byte or more): what was given, what the buffer holds and what the kernel
holds are together what was written, and the bytes of the call in progress are a piece of it.

`Csapp` is the table of the wrappers, by the results at which each ends the process, and the
two functions that open a socket. `Tiny` uses it: at each place any wrapper called there may
fail, which ends the server (with status 0, as `unix_error` exits with 0). Instance: up to
two headers, cut anywhere, two addresses. `NothingKept`: when the next connection is accepted there is only the
listening socket, no mapping, no child, and the client got one status line and a body only
after 200. `LabProgramsProofs` proves it for any number of headers and addresses; at each place of the
program an invariant says which descriptors are open and what was answered (`HoldInv`, `AnswerInv`). A child whose `Execve` fails exits through stdio and so sends the server's buffered
log to the client ("log"). A client that closes before the blank line leaves
`read_requesthdrs` in its loop for ever; the model has that behaviour.

### The cache simulator and the transposes

`CacheSim` has csim.c's `initCache`, `simulate` and `updateCache`. Instance: 3-bit addresses, two sets of two lines, three tags
in one set and one in the other, five lines of trace: a set fills, is hit, evicts, and evicts again.
`ImplementsLru`: for each access it counts and evicts as `LruCache`, where a set is the sequence
of its tags by last use. The refinement shows the address of the access, for without it a hit
on one line could pass for a hit on another. With `-s 0` the code shifts by 64, which is undefined; s is at least 1 here. The model begins
after the trace was opened and the sets were allocated: otherwise `simulate` or `initCache` returns
early (121, 38, 45), and `main` prints and frees a cache that was never initialized.

`SimulatesLru` in `LabProgramsProofs` proves `ImplementsLru` for every width of addresses, number of sets
and lines, block size and trace (`CsimAssumption`: set and block bits fit the address, at least one
line). Its invariant says that the valid lines of a set have different tags and times before the next one, and that
these times put them in an order of use (`Ordered`; there is only one, `OneOrder`). An access moves one line to the
front of that order (`Moving`, `Touch`), a miss puts one there while a line is free (`Fill`) or in the place of
the last (`Full`), which is the line with the least time, as the code looks for.
`UseFields` and `Decoded` show that the shifts of `simulate` cut the address into set and tag. Times are
unbounded there; in the code they are an `int` that overflows after 2^31 accesses.

`Transpose` is each function of trans.c as the loads and stores of a block's rows, at the real
sizes 32x32, 64x64, 61x67 (and 8x8, for which the submission does nothing), one row per step.
Every cell of A is different. The accesses go through the same `CacheSim!updateCache` with
test-trans.c's parameters (s = 5, E = 1, b = 5) and the addresses of tracegen.c's arrays, as
the repository's `trace.f0` shows them. `TransposeRight`: the blocks that are finished are in
place and stay there, though transpose_64by64 lets half a block wait in cells of later ones;
at the end B is the transpose. `MissesWithinGoal`: the misses stay within what
driver.py gives full marks for (94-96). The model counts 287, 1292 and 1997; the last
is what csim-ref counts on trace.f0.

### The bit puzzles

`Bits` has the puzzles and their test functions on words of 32 bits (functions from bit
numbers to 0 and 1), with sums that wrap. `Btest` is the harness: options, argument values of `gen_vals`
around the boundaries, calls, the first wrong answer ends a test, and the alarm. `test_function` sets the
alarm (357) and nobody cancels it: it may fire in a call (`Timeout`), or after its puzzle has ended, in
`gen_vals` of the next or after the last (`LateTimeout`), and jump into a frame that has returned. That is
undefined; the outcomes are an error of the puzzle at hand, one more of the last, or the end. Instance: ranges
of 6, 2 and 1 instead of 500000 and its roots, two random words, one alarm; values for an
argument on the command line, also refused ones. The values are the boundary cases btest itself relies on.
`PuzzlesRight`: every error is an alarm. `btest_floats` gives it one argument that
`gen_vals` leaves out, floatScale2's 0x7f000001.

`BtestProofs` proves that the choice of values does not matter. First the operators of C: a word is the
number its bits are the digits of (`NumberIs`, `NumberInjective`, `NumberWord`), a sum carries from bit to bit
(`CarryStep`, `PlusBits`) and is the sum of the numbers modulo 2^32 (`NumberPlus`), shifts halve and double
(`NumberSar`, `NumberShl`), a float is its three fields (`FloatFields`, `SameFields`). From these, one lemma
per puzzle says that it answers as its test function for all words: `IsLessOrEqualRight` by the signs,
`HowManyBitsRight` by what each halving of the search leaves (`SearchStep`), `FloatFloat2IntRight` and
`FloatScale2Right` by the fields. Two need a condition: floatScale2 is right unless the exponent is 254 and the fraction is not 0
(`Scalable`, which `btest_floats` shows is needed), floatPower2 unless its argument is in
-149 to -128, where it shifts by a negative count (410; at -127 the count is 0 and the answer right).
`AnswersRight` puts the thirteen together.

Then btest: `BtestInv` says that the values of each argument are a nonempty sequence of words on which
the puzzle is right (`Ready`), and that the errors are the alarms. What `gen_vals` makes of floats is never one of the
exceptions (`Safe`, `FloatValsSafe`): its values go up to 2^23 steps away from 0, the smallest
normalized float, 1 and, downwards only, 0x7f000000. `ArgsIn` says that the loops take each argument from its own values.
`PuzzlesAreRight` follows for every number of calls and alarms, from `BtestAssumption` (ranges between 1 and
2^23, against 500000 in the code; at least one random word) and `ExactLines` (no option -1, -2 or -3 gives
floatScale2 or floatPower2 one of the exceptions).

### Mutants of these programs

A removal that frees before it relinks, an insertion that forgets what it allocated, a tail that
is not moved, a command that does not look at the error; one buffer for all files, a failed quit
that is not recorded; a block that asks for all of n again; no wait for the child; hits that do
not count as use; rows that are not moved back, the diagonal stored at once (343 misses); a
comparison by the sign of the difference.

## What the runs found

Each is a run that TLC ends with a counterexample.

- `shell_zombies`: `do_bgfg` returns at 308 or 316-318 with SIGCHLD still blocked.
  The next command saves and restores that mask, so at the prompt no
  SIGCHLD is delivered again, against the comment on `sigchld_handler`.
- `shell_forward`: ctrl-c just after a foreground job was forked (no group yet) or
  reaped (no group any more): `Kill_sio` fails and ends the shell.
- `shell_group`: fg and bg send SIGCONT to the leader only; trace13 promises the
  group.
- `job_ids`: `nextjid` wraps to 1 when it passes MAXJOBS, in use or not: two jobs can
  have one job ID.
- `proxy_cache_walk`: a hit on the line at the head sets its `next` to itself; the next
  lookup of another object never ends and keeps the read lock, so nothing is cached any
  more. `driver.sh` fetches one object from the cache and does not see it.
- `btest_floats`: `floatScale2(0x7f000001)` is 0x7f800001, a NaN, instead of infinity, as the fraction is
  kept when the exponent overflows (347). btest reports full marks because its values end at
  0x7f000000.

## Limits

- Liveness, fairness and ENABLED are for TLC: the provers here do not handle them.
- The induction theorems of the library cannot be instantiated here. `AllNumbers`, `Iterates` and `Doublings` of
  `RecursionFacts` do induction over the naturals for sets, loops and powers of 2, which reaches what the proofs
  above need. `TransposeRight` and `MissesWithinGoal` are model-checked only: the sizes are fixed in the code and
  the matrices have one content, so TLC's run is all of them. They, `ForegroundReturns`, `ZombiesReaped` and
  `ConnectionsAreTaken` are the properties of passing runs without a theorem.
- A model state is a state between two marked places of the code; what happens inside
  one step is assumed not to matter. For the shell that holds as the marked places
  are those where a signal can change what the code reads; for the pool every
  semaphore operation is its own step.
- The kernel (signals, groups, waitpid), the semaphores, memmove and the users and
  children are modelled from how the code uses them.

## Not modelled

- **report.c**: output, and counters of memory that only the console's own structures use. `report_event`
  closes the log file at the first error (82) and later calls write to it, which is undefined.
- **mdriver.c outside `eval_mm_valid`**: reading traces, utilisation, speed and libc runs are measurements;
  `mem_reset_brk` before each is the state `mm_init` starts from here, with stale memory.
- **Timing** (`clock.c`, `fcyc.c`, `ftimer.c`, `fsecs.c`): hardware counters and statistics.
- **tsh's `parseline`, tiny's `parse_uri` and `get_filetype`, the proxy's request text**: pure text.
- **fshow, ishow**: they print. **bomb.c, farm.c**: exercises on binaries whose source is
  not here. **Scripts, traces, makefiles**: they run the programs and compare output.
- Behaviour that C leaves undefined is a choice of outcomes (`floatPower2`, `Fault` in `ProxyCache`) or
  ends the behaviour (`Defined` in `Qtest`); `console.c` reading a terminal through `select` (its set is read
  before it is cleared, 545-549) and `csim -s 0` are left out for that reason.

## Plan

1. **Proxy, composed**: `ProxyCache`'s workers fed by `ThreadPool`, with the server's
   descriptor (left open by the early return at 73) and the object a hit sends, to state
   that a hit gives what was stored for the key.
2. **Driver**: utilisation's high-water mark and runs after `mem_reset_brk`; `add_range` for
   any allocator (it misses a payload that contains another).

Runs are kept small (each finishes in a few minutes on two workers), with one run per
component where its questions share a state space.
