# A verification project for cpcpub and its results hub

TLA+ modules, TLC runs and TLAPS proofs for the code in this repository: the
benchmark (`bench/`, C) that measures a machine and submits a JSON document, and
the hub (`web/`, Python and a page of JavaScript) that stores and shows them.

- [The system](#the-system): its parts, their state, how they interact, what is hard
- [Modules](#modules): what models what, and how it corresponds to the code
- [Runs](#runs): what each one asks, its bounds and why they are enough
- [Fairness](#fairness)
- [Proofs](#proofs): what is proved, from what, along which argument
- [What the checks found](#what-the-checks-found)
- [Not modelled](#not-modelled)

## The system

| Part | Where | State | Operations |
|---|---|---|---|
| Thread barrier shim | `bench/src/platform.h` 105-153 | mutex, condition variable, `waiting`, `generation` | `plat_barrier_init/wait/destroy` |
| Worker suite | `bench/src/bench.c` 526-848, 1512-1549 | one `worker_t` per thread, its buffer and index table, the shared barrier | `run_workers`, `worker`, `phase_begin`, `phase_begin_mem`, `build_chases` |
| Measurement arithmetic | `bench.c` 279-304, 582-587, 1782-2000, 2148-2187 | a batch size and two clock readings; the rows and their total | `run_timed`, `keep_best_*`, `disp_summary`, `summarize`, `aggregate`, scores |
| Kernels | `bench/src/kernels.c` | the lanes, the buffer, where each chase is, where the selector pattern is | one function per kernel, called with a batch size |
| Run driver | `bench.c` 2189-2232, 2355-2400, 2481-2572, 2664-3143 | `main`'s options, the CPU list, the working sets; the JSON array on standard output, the document being submitted, `g_submit_errors` | option parsing, `parse_cpu_list`, `run_variant`, `submit_document`, `main` |
| HTTP client | `bench/src/http.c` | one connection, SIGPIPE disposition, a private temporary file | `http_post_json` through a socket or through curl |
| CPU and platform detection | `bench.c` 328-500, 888-1400, 1615-1700, `platform.h` | lists of names being collected; a thread's affinity | reads `/proc`, `/sys`, the device tree; pins threads |
| Digest of the binary | `sha256.c`, `bench.c` `binary_sha256` | the hash's block buffer and count | `sha256_init/update/final`, `sha256_file` |
| Accounts, sessions, runs | `web/server.py` `Store` and handlers, `web/schema.sql` | tables `users`, `sessions`, `runs`, `cores` | register, login, logout, password, token, close, upload, withdraw |
| Registration challenges | `server.py` 629-660 | `live`: token to expiry | `issue`, `spend` |
| Rate limiter | `server.py` 1355-1380 | `hits`: key to deque of times | `allow` |
| Request framing | `server.py` 1560-1628, 1997-2046 | `body_read`, `close_connection`, the connection's byte stream | `route`, `read_json`, `upload`, `drain`, `drain_unread` |
| Document validation | `server.py` 264-530 | none | `validate`, `check_consistency` |
| Listings and ranking | `server.py` 951-1150, 1907-1995 | none | SQL queries, `total` |
| Verified builds | `server.py` 678-766, 844-892, 1187-1225, `web/verified.py` | table `verified_builds` | manifest loading, the migration, `release_rank` |
| Web page | `web/static/app.js` | the board, the account and its generation, pending files | `loadBoard`, `loadAccountRuns`, `doUpload`, `withdrawPicked`, `solveChallenge` |

How they interact. `main` settles the options, the hub's address, the CPU list
and the working sets before it measures anything. `run_workers` creates N threads
and joins them; the threads meet only at the barrier, which is the shim or the
platform's own, and between two crossings each runs a kernel in batches against
its own clock. The driver reduces their results to rows and a total, makes a
document of them with the machine's description and the binary's digest, and
hands it to the HTTP client. The hub checks the document against itself. It
serves every request in a thread of its own (`ThreadingHTTPServer`); the threads
share a SQLite file, through one transaction at a time, and two small objects in
memory, the challenge store and the limiters, each behind its own lock. The page
talks to the hub by asynchronous requests whose answers come back in any order.

What is hard, part by part:

- **Barrier**: it is reused at once, so a thread that wakes late may find the
  next crossing already under way; the condition variable wakes spuriously; the
  generation wraps.
- **Worker suite**: every thread must make the same number of barrier calls
  whatever fails in it; the buffer is data for one phase and pointers for the
  next two; a thread that cannot be created leaves others at the barrier.
- **Measuring**: the batch grows from a time that may read as zero, or that was
  somebody else's; what is divided by what must be the work of the same time.
- **Chases**: one permutation per way over interleaved nodes; a way that is not
  one cycle over its own nodes measures a cache, and nothing else shows it.
- **Rows and document**: values that were not measured travel as zeros through
  means, ratios and a span, and the hub refuses a document whose totals it cannot
  reproduce.
- **Digest, description**: short reads, errors in the middle, the file replaced
  while it runs; names that begin other names, lines longer than the buffer.
- **Options and placement**: options that override each other in order, sizes
  that shrink or round to nothing; a pin that is refused or undone.
- **Accounts**: a handler is several transactions with nothing held in between,
  and what it read in the first it uses in the last; row ids are given out again.
- **Challenges and limiter**: the clock is read outside the lock.
- **Framing**: every path, refusals included, must agree on whether the body was
  read, or the next request starts in the middle of it.
- **HTTP client, driver**: partial replies; one of several submissions failing.

`PROJECT.json` lists every hazard at its line, with the properties that cover it.

## Modules

| Module | Models |
|---|---|
| `Rendezvous` | what a reusable barrier promises: arrivals and departures, nothing about how |
| `PlatBarrier` | the shim, one action per stretch of `plat_barrier_wait` between two points where another thread can run |
| `WorkerSuite` | `run_workers` and `worker`, over the barrier of `Rendezvous` |
| `Timing` | `run_timed`, the warm-up and the best of the repetitions, against a clock |
| `Workload` | what the kernels execute in a batch, and the chases they follow |
| `Results` | from the workers' numbers to rows, total and document, and the hub's check of it |
| `BinaryDigest` | `binary_sha256` and the buffering and padding under it |
| `Inventory` | what a Linux machine says it is: `/proc/cpuinfo`, the Arm registers, the board |
| `RunSetup` | `main` before it measures: options, hub address, CPU list, working sets |
| `Placement` | where a worker runs, and which CPU its row names |
| `HttpClient` | one upload of the benchmark, through a socket or through curl |
| `RunDriver` | a run of the benchmark around `HttpClient`: what is printed, submitted and returned |
| `HubAccounts` | accounts, sessions and runs: handlers as sequences of transactions, any number of them in progress |
| `Challenges` | the challenge store |
| `RateLimiter` | the limiter |
| `Connection` | one keep-alive connection of the hub: which bytes each request consumes |
| `*_proofs` | the theorems about the module they are named after |
| `Gates_proofs` | those about `Challenges`, `RateLimiter` and `Connection` |
| `Report_proofs` | those about `Timing`, `Workload`, `BinaryDigest`, `Inventory`, `RunSetup` and `Placement` |
| `Induction` | what proofs over data need: induction and recursion over numbers and finite sets, sums, folds, flattened sequences, greatest and least numbers |
| `MC_*` | the instances TLC checks |

What composes what. `PlatBarrier` implements `Rendezvous` and `WorkerSuite` uses
it, so what is said of the workers holds on the platforms that have POSIX barriers
(for which `Rendezvous` is the assumption) and on those that take the shim (for
which it is proved). `RunDriver` runs `HttpClient` once per document. `MC_Report`
and `MC_Gates` put modules side by side that share no state: each behaviour is of
one part, and the others keep their first state. The parts of `MC_Report` are what
the program does one after another, and what one hands to the next is a constant
of the next, chosen to hold every case the next tells apart.

**PlatBarrier.** `mu`, `waiting`, `generation` are the fields of
`plat_barrier_t`; `mine` is the local variable of each call. Taking the mutex and
reading `mine` is `Enter`; the arrival under it is `Open` or `Sleep` (the first
test of the loop cannot fail, since the mutex has not been released since `mine`
was read); a sleeper wakes by the broadcast, which is part of `Open`, or by
itself (`WakeSpuriously`), then needs the mutex (`Reacquire`) and tests the
generation (`SleepAgain`, `Opened`). The generation wraps after `MaxGeneration`.
`arrivals` and `departures` count calls and map the module onto `Rendezvous`.

**WorkerSuite.** The schedule is a sequence of phases, each `reps` repetitions;
`pos` is a worker's place in it. Each repetition is `Setup` (what the code does
before the barrier: the index table's malloc, `mem_ok`, `build_chases`), `Gather`
and `Gathered` (first `wsync`), `WarmUp` and `Release` (warm-up and second
`wsync`) and `Measure`. `ready` is the flag the code's `continue` tests. `buf` is
what the buffer holds: nothing, data, one chain, or the interleaved chains. Any
malloc may fail, in any worker. The compute phases differ only in their kernel,
so `Compute` counts them. The times, rates and checksums are abstracted away. A
run of one thread has no barrier; a barrier for one never blocks.

**Timing.** `clock` is the true time, in milliseconds; `Reading` is what
`now_sec` shows of it, in steps of `tick`. `Enter`, `Spin` and `Warm` are the
warm-up before the first repetition; `Begin`, `Batch` and `Finish` are
`run_timed`, its loop, and `keep_best_*`. A machine takes `cost` for an
iteration, and a batch may be held up by one of `Delays`, which stands for
whatever else the machine does. `held` and `clean` are history. The property is
about the machine, not about the arithmetic: the kept rate is the machine's
speed, up to the clock's resolution, as soon as one repetition was undisturbed.

**Workload.** A node's number is cut to what the array that holds it has room for
(`OrderNumbers`, 2^32 in the code), and where numbers repeat a later link replaces an
earlier one. A lane's value is the number of steps it has taken, a buffer word
the number of times the sweep passed it: what is computed is left out, where it is
applied is kept. `Swap` and `LinkWay` are the two loops of `build_chases` (a
shuffle, then the links), `link` is the memory, `cur` the context a chase resumes
from. `RunBatch` calls a kernel with any batch size; `units` counts what the driver
will divide by the time. The kernels' table of operations per iteration is
`OpsCounted`.

**Results.** A number is a fraction, and a geometric mean is the list of the
positive terms it is taken over, so that two of them are equal only if they are
means of the same things. INT stands for INT, FP, MUL and the bandwidth, which the
code treats alike. `CollectThreads` and `CollectCore` make the rows (`Summarize`,
`Dispatch` for `disp_summary`, `Clock` for `measured_mhz`), `Emit` the total and the
document; `Verdict` is `check_consistency` with the parts of `validate` it needs.
The six digits a number is printed with, and the tolerance the hub has for them,
are left out together.

**BinaryDigest.** The compression function is taken as injective: the digest is
the message whose blocks it was given. What is left is what can go wrong around it:
`ReadChunk` (fread, whole, short at the end or short by an error), `Take` (one turn
of `sha256_update`), `Finalise` (the padding, which may need a block more), and the
file being replaced at any moment (`ReplaceBinary`). `exe` tells Linux, where
`/proc/self/exe` keeps naming what runs, from systems that have a path only.

**Inventory.** A name is a sequence of tokens, so that one can begin another, and
the list of names is one sequence with separators, as the code's string is. A file
is the sequence of chunks `fgets` makes of it; a chunk that does not end its line
makes the next one a continuation. `ReadCpuinfo` is one turn of the loop,
`ReadRegister` one `midr_el1`, `Describe` the string that goes into the document.
`CpusRead` are the CPUs whose registers are asked for: those the kernel lists as
present, or, where that list cannot be read, as many as are online, from 0 (an empty
`present` stands for a list that cannot be opened, read or parsed).

**RunSetup.** A word of `argv` is a record: the option, and its argument as a
number or as tokens. `TakeOption`, `RefuseOption` and `ShowAndStop` are one turn of
`main`'s loop, `Settle` and `Unsettled` what it does about the hub's address,
`ListCpus` and `SizeMemory` the CPU list and the two working sets. `ParseCpuList` is
the parser; a token is a number as `strtol` reads it, with its sign, or a comma or a
dash. A number is a `long` and becomes an `int` (`AsInt`); what a range up to `LONG_MAX`
does, whose loop overflows, is up to the build (`NeverEnds`). `Means` is the reference it is checked against: every item, cut at the commas, is
a number or a range, and its CPUs stand behind as many as the items before it name.

**Placement.** A place is a group and a number, as on Windows; elsewhere there is
one group. `Create`, `PinTaken`/`PinRefused`, `Look` and `Report` are what a worker
does, one worker after the other because they share nothing of this; `Migrate` is
the scheduler, which may move a thread within its affinity at any time. `Split` and
`Flattened` are the two directions of Windows' numbering.

**HttpClient, RunDriver.** `net` is where `http_post_json` is, `at` where `main`
and `run_variant` are. A reply has a status, a framing and a body; `recv` returns
any amount of what is left of it, or its end, or an error. A body's bytes are CR, LF,
anything else, and numbers, each one unit however many digits it has, so that chunks
may be of any size. `ChunksComplete` and `Dechunk` are the two walks over them, as
recursive functions; the first stops at a chunk larger than `MAX_REPLY`, so `Kept` is
the body up to such a chunk. `timed` says that `set_timeouts` has been called for the
socket: only then can `send` and `recv` give up by themselves (`SendTimesOut`,
`RecvTimesOut`), while a reset, a hang-up and an answer are the peer's. curl is
what its exit status tells the code: 0 for any status under 400. `buffer` and
`out` are stdio's buffer and what has left the process; stdio may write early
what is not flushed. `stored` is history: the variants whose runs the hub has.

**HubAccounts.** One action is what a handler does between two points where
another request can reach the database. `sqlite3` opens a transaction at the
first INSERT, UPDATE or DELETE only, so a SELECT before it is a step of its own:
that is why `Store.delete` and `Store.close_account` are two actions each.
`local[r]` is what a request has read and carries along. `NextRowid` is SQLite's
rule for `INTEGER PRIMARY KEY` without `AUTOINCREMENT`: one more than the highest
id in use, so that the id of a deleted last row comes back. `acct` and `serial`
are history: which account, or which upload, a row really belongs to. Passwords
are numbered by `epoch`; a session remembers the epoch that was proved for it,
and `settled` is the newest epoch whose change has gone as far as ending the
sessions. The other history is there to say what overlapping requests may do: `mark`
and `closed` count the runs stored when a request, or a closing, looked at the table;
`ended` counts the sessions opened when a change ended them, `lapsed` is a change
whose handler failed before that. `Fail` ends a request between any two transactions: SQLite's lock
timeout, an invalid body, a killed hub. The limiters, CSRF and cookie expiry are
left out: a request they refuse changes none of this state.

**Challenges, RateLimiter.** `issue` and `allow` read the clock and then wait for
the lock; `spend` compares with a clock read after releasing it. Both are two
steps, and the clock may move in between. In `RateLimiter` the wait is bounded by
`MaxSkew`, in the clock's guard; nothing in the code bounds it, and the
properties state by how much the limiter's promise weakens with it.

**Connection.** The stream is a sequence of heads and body units, written by a
client that may pipeline, stop between any two units or hang up. A handler is
reduced to what it does about a body: `upload` looks at the length first, the
account handlers may refuse first, all others answer without looking. `want` is
what a loop over `rfile.read` has yet to get. `body_read` and `close_connection`
are the code's fields. `ignored` is history: requests answered with their body
unread, which is what `self.fail` without a raise does, and an exception that is
no `HttpError`.

Definitions whose comment begins with "Mutant:" are not part of the model: each
is a plausible mistake in the definition after it, kept to show that a property
notices it.

## Runs

| Run | Asks | Instance |
|---|---|---|
| `barrier` | is nobody released early, does nobody sleep through an opening, does the shim implement `Rendezvous` with its liveness, does every call return | 4 threads, 3 crossings, a one-bit generation, 3 spurious wake-ups |
| `suite` | do workers measure together, is a chase run over its own chain, does `run_workers` return nothing still in use, does the run end | 3 threads, 2 repetitions, 1 compute and 2 dispatch phases and the 3 memory phases; any allocation and any thread creation may fail |
| `report` | is what a document says true of the machine, of the binary and of the command line, part by part; does a measurement end | seven parts, below |
| `submit` | is the report whole whatever becomes of the uploads, are replies read as far as they go, is SIGPIPE ignored exactly during an upload, does an exit status of 0 mean stored, does the run end | 1 or 2 variants, 2 CPUs, 3 formats, 5 replies, `MAX_REPLY` 18 units |
| `accounts` | what the hub keeps whatever the interleaving: unique names, no session without its user, no stored run left by a closing, no deletion without a claim, no older session without a reason | 2 requests at a time, each possibly dying half-way, 1 contested name, 2 registrations, 2 sessions, 2 uploads, 2 password changes |
| `gates` | is the challenge store bounded and each challenge spent once; is the limit kept over every window, is nobody refused without cause | 3 threads, 4 tokens, a cap of 2, a lifetime of 2, 4 ticks; 2 threads, an address (limit 1) and an account (limit 2), window 2, skew 1, 4 seconds, 3 hits to a key |
| `connection` | does each request consume its own bytes only, are answers in order, is nobody hung up on or left waiting | 2 requests, bodies of 0 to 4 units or a garbled length; limits of 1 (account), 2 (upload) and 3 (drain) |
| `upload_meets_reused_id`, `login_races_password`, `limiter_memory`, `submit_redirect`, `chase_wrap` | each violates a sentence of the documentation: see [below](#what-the-checks-found) | 2 requests; 1 thread for the limiter; as `submit`; 7 nodes and numbers up to 3 |

The parts of `report`:

| Part | Properties | Instance |
|---|---|---|
| `Timing` | `RateHonest`, `TimerEnds` | iterations of 1, 3 and 30 ms, first batches of 0 and 64, clocks of 1 and 16 ms; 2 repetitions of 50 ms, a warm-up of 5, batches aimed at 4 ms, halved from 20 and capped at 16 iterations; up to 2 delays of 7 or 40 ms |
| `Workload` | `ChasesCoverTheBuffer`, `WorkIsWhatIsCounted` | 3 lanes, 2 ways, 7 nodes (one left over) with every shuffle and numbers for 8, 8 words, periods of 1, 2 and 4, batches of 1 and 3, 8 units |
| `Results` | `HonestUploadAccepted`, `SpanReadsThePredictor`, `TotalWithinRows` | a ladder of 6 with every curve of three levels and some that make no sense; 3 threads, 2 cores, 2 threads and a core, 3 threads and a core (one record too many for the hub); five workers with different things unmeasured |
| `BinaryDigest` | `DigestNamesTheBinary` | blocks of 8 with a length of 2, chunks of 5, files of 0, 5, 6, 7, 14 and 33 bytes, replaced or not, a read error anywhere |
| `Inventory` | `NamesEveryCore` | every `cpuinfo` of up to 3 lines (up to 4 on Arm) out of 8 or 5 kinds, with and without registers, CPUs listed as present or counted, up to 4 of them counted, room for 9 tokens |
| `RunSetup` | `RunAsAsked`, `SizedForDram` | every one and every two of 23 options on 3 machines; every `--cpus` text of up to 5 tokens of which no two are read as one number, with an `INT_MAX` of 7 and a `LONG_MAX` of 17 |
| `Placement` | `PinnedWhereAsked` | 1 and 2 groups, all CPUs allowed or a part, CPUs that are not there, with and without pinning |

Why the bounds are enough. A thread can be at most one crossing ahead of another,
so three crossings show everything a longer run repeats, and a one-bit generation
is the hardest case for the comparison. Two repetitions distinguish the one that
warms up from those that do not, two dispatch phases the first point from the
others. Registering, closing and registering again is what makes an id return,
which two registrations allow; two requests are enough to put any step of one between
two steps of the other, and two uploads, sessions and changes give each an older and a
newer one. A store of two with three
threads overfills it and has two threads issue with the same old reading; a
window of 2 with 4 seconds holds two windows and the edge between them. On a
connection what one request leaves can only reach the next, so two are enough;
the lengths 0 to 4 lie on both sides of every limit. Of the replies one looks from
inside like the end of a chunked body, one has two chunks and is as long as is
read, one is longer, and one has a chunk larger than what is kept.

In `report`, an iteration is shorter than the clock's step, about as long or
longer, and the same against the batch that is aimed at; the batch meets its cap
and a delay both before and after the code has seen one. Seven nodes in two ways
make shuffles with and without fixed points and a node that belongs to no way.
Three levels are the best of the plateau, a point that lost half of it and the
floor; the odd curves add what lies between the floor and 15 % above it, points
below the floor, and a missing floor. The files end on a chunk's edge, on a block's, one
byte to either side of where the padding needs a block more, and after several
blocks. A line can matter to the next (an implementer, a continuation), and a name
to the next one, so three suffice for each in front of a list that overflows. Two
options are every order and every override of one by another; the code has no
rule that looks at three.

Deadlock is not checked where the model stops by design: all crossings made, the
run returned, a counter at its bound, a document sent.

## Fairness

`PlatBarrier` and `WorkerSuite` assume weak fairness of each thread (and of the
main thread): the operating system schedules runnable threads, a free mutex goes
to a waiter sooner or later, and the code waits nowhere but at the barrier and in
`pthread_join`. For the mutex weak fairness is enough because every thread stops
after its last crossing and nobody keeps the others out for ever. Spurious
wake-ups are not fair: nothing may depend on them. In `Connection` the
handler's thread is fair, and so is a client as far as the body it announced
(otherwise it hangs up). In `RunDriver` the program is fair, and the peer is not: it
may never connect, take, answer or hang up. Among the program's own steps is that a
wait has lasted too long: in connecting (`CONNECT_SECONDS`), in curl (`--max-time`), and
in `send` and `recv` only if the socket was given its timeouts (`timed`), so that a
missing `set_timeouts` shows as a run that does not end (`DialUntimed`). That a
reader of standard output stays but does not read is left out. In
`Timing` a thread that measures is run: `TimerEnds` needs nothing else, since a batch
only moves the true time on, and a delay is one of finitely many. The other modules
state safety only: a client of the hub may stop at any point.

## Proofs

All for every value of the constants, from the named assumptions in the modules
(finite non-empty thread sets, natural bounds, "no row is not an account").

- **`PlatBarrier_proofs`.** `IInv` says: there is a number of openings such that
  every thread is in that crossing or the next, `waiting` counts the threads in
  the next, a sleeper belongs to the next, and a waiter's `mine` is the current
  generation if its crossing is open and the one before if it is not. It is
  needed because neither `NobodyEarly` nor `NoLostWakeup` mentions the count or
  the generation, and they hold because of them: a waiter is at most one opening
  behind, so `mine # generation` cannot be fooled by a wrap. From it follow
  `NobodyEarly`, `NoLostWakeup`, and, step by step, that every step is an arrival,
  a departure or a stutter of `Rendezvous`.
- **`WorkerSuite_proofs`.** The invariant relates each worker's barrier calls to
  its place in the schedule: twice the entries it has finished, plus how far into
  the present one it is. With `Rendezvous`'s promise that nobody departs before
  everybody arrived, two workers can only differ by what `MeasuredTogether`
  allows. `ChaseIntact` needs the buffer's content at every place between
  building a chase and running it; `QuietReturn` the order in which `Join` counts.
- **`HubAccounts_proofs`.** All of it for any number of requests, interleaved at every
  step and dying between any two transactions. Types, the unique index and the foreign
  key are inductive together with one fact about requests: one that is about to create
  a user has a name, one that acts for an account knows which (`IInv`). `HInv` adds
  three things. `Placed`: an id belongs to one account at a time, and what a request
  remembers of an account, or a row says of its owner, is of one there has been.
  `Looks`: what a request can have missed when it looked at the runs was stored after
  that, and what it holds is what it chose or was stored later, under an id given out
  again; so is what a closing leaves. `Explained`: of a session older than its
  password, the change is still ahead, or failed, or was over when the session was
  opened. From it `ClosingTakesItsRuns`, `StaleSessionsHaveReasons` and, as an action
  property, `ClaimsHold`.
- **`Gates_proofs`, the store.** A token is still to be issued, or in the store, or in
  one thread's hands, or gone: that makes it single-use. The bound follows from
  the loop leaving one place free before the new token goes in.
- **`Gates_proofs`, the limiter.** `WithinLimit` speaks of the true times of the requests
  let through, the code of a deque of readings. `LInv` connects them: a key's deque
  is the tail of its grants, each entry off by at most `MaxSkew`, and everything
  dropped from it lies further back than the window less the skew. So a grant with
  room in the deque has room in the window (`NeverOverLimit`), and a full deque is
  a full window (`RefusalsJust`).
- **`Gates_proofs`, the connection.** `CInv` says what is on the wire: what is left of the
  present body and then one request after the other, whole except for what the
  client has yet to write; how much is left of the body follows from where the
  handler is. Without it `Framed` is not inductive, since it speaks of what has
  been read and not of what is next. From it `BodiesStayPut`, `AnswersInOrder` and
  `WritersHeard`.
- **`RunDriver_proofs`.** `DInv`: SIGPIPE is ignored exactly while a transport that
  needs it runs; a status the client reports is the one the hub sent; as long as no
  upload failed, every variant done is stored; and the exit status is 0 only if none
  failed. From it `UploadsNeverKill` and `ZeroMeansStored`. `PrintInv` says what a
  reader who stays has been given or is still in stdio's buffer, at each place of the
  driver: the parts of the variants done, then what the present one has printed so
  far; and that nothing is in the buffer only when a JSON document is on its way to
  the hub, or at the end. `ReportWhole` itself is not inductive, since a front of the
  report may be followed by the wrong part of it. That each of these is a front of
  the whole report is an induction over the variants, and one over the CPUs of a
  sweep (`SoFarStarts`); the conclusions are `NothingMeasuredIsLost` and
  `PrintedBeforeSent`. `TypeCorrect` adds the counters (`Counted`).
- **`RunDriver_proofs`, the reply.** `chunks_complete` and `dechunk` are two walks over
  the same bytes, each with its own idea of where the next chunk begins. That their
  recursions have values at all is `BackwardRecursion`: each place needs one further
  on. `ChunkedLayout` says where the chunks of a body lie and what their bytes are;
  from it, going from the last chunk to the first, the one walk finds the end when
  all but two bytes of the body are here (`WalksToTheLast`), and the other decodes the
  front of the payload, all of it from the same byte on (`DecodesTheFront`). So they
  agree wherever the body is cut, and `ReadInv` carries that through `recv`,
  whose pieces may end anywhere. A chunk larger than `MAX_REPLY` ends both walks as the
  last one does: the first because the code says so, the second because it never comes
  in whole (`KeptIs`, `LayoutUpTo`). The assumption is `HttpAssumption`: chunks are not
  empty, since an empty one is the end of the body.
- **`Report_proofs`, the rate.** While the loop runs, the first reading was taken when
  neither the counted work nor the delays had been, and the latest is of now
  (`InTheLoop`); the rest is arithmetic about rounding to the clock's step.
- **`Report_proofs`, the work.** `WorkInv`: the driver's count is the batches it asked
  for, and the lanes, words and pattern are that many steps on (`Counters`,
  `LanesStepped`, `WordsSwept`, `CallsMade`). Building a chase (`WaysBuilt`): the order
  of a way names each of its nodes once, whatever the shuffle has swapped, and each
  linked node leads to the next in that order; going round as often as there are
  nodes then visits every one of them, which counts them by a bijection. The order names
  a node once because its number is not cut (`NumbersFit`, which the property has as its
  condition).
- **`Report_proofs`, the digest.** The blocks hashed, the bytes in the buffer, the bytes
  of the chunk not taken yet and the rest of the file are, one after the other, the
  file that was opened. The padding fills the last block or the one after it.
- **`Report_proofs`, the placement.** A CPU's flat number is the sizes of the groups
  before its own and its number there, so splitting and flattening undo each other:
  sums over the groups.
- **`Report_proofs`, the names.** A list is cut at its separators, and a name is what lies
  between two cuts with none between them (`ElementsAre`). With a name behind it, it has
  one cut more, at its end, so its names are those it had and the new one, and it has as
  many separators as names but one (`OneNameMore`). `Keeps` says that a list which did
  not run out of room names a set, each member once; `NamesInv` that the lists keep what
  the chunks and the registers read so far say, and that `impl` is that of the last
  implementer's line above. `InventoryAssumption` is what is assumed of the machine:
  names, values and numbers are not empty and hold no separator, since the code skips a
  line that has a key and no value, and where there is a list of present CPUs, one with a
  register file is in it. Where there is none the code counts, and `NamesEveryCore`
  speaks of the CPUs it counts.
- **`Report_proofs`, the working sets.** Until memory is asked for, the locals hold the
  defaults (`Given`, kept by every option: `TakenIsGiven`). A thread's share of four
  times the cache is rounded down twice, by the division and to pages, and is still
  more than half of the share and one (`ShareIsEnough`), because the default alone is
  many pages. `SetupAssumption` has it that the machine names finitely many caches and
  that sizes are not negative, as `strtoull` reads them.
- **`Report_proofs`, the command line.** `parse_cpu_list` keeps nothing of what it has
  read but the CPUs, while `Means` speaks of every item's place in the whole list. So the
  claim is made of every tail of the text, from the end to the beginning
  (`DownFromTheEnd`): it is refused, or its CPUs are its items', each behind as many as
  the items between name (`Right`, `FirstItemAdded`, `SplicedIs`). The other direction
  goes the same way: a tail of items with room for their CPUs is not refused, and each
  CPU comes from one of them (`ReadWhole`), so the parser takes every list that means
  something, and as the only list it can mean (`WhatIsMeantIsTaken`). All of that is of
  texts whose numbers an `int` holds (`NamesInts`).
  `AskedInv` ties the locals to the words read: the list and the variants are those of
  the last option that sets them, and hold what makes them usable. `SetupAssumption` has
  it that a number's token is no comma or dash, that the machine has a CPU, as
  `get_cpu_count` makes sure, and that `--variant` names one.
- **`Results_proofs`, the document.** A row's ratios and score are worked out before its
  cells are, and the hub works them out from the cells. `RowOf` says what a row's
  derived numbers are of the measured ones, whichever of these is zero; `RatioOfSent`
  and `TermsAgree` that leaving out what is not positive commutes with both; and a
  score's terms are kept one by one on either side (`KeptAlike`, an induction over a
  fold). `RowsInv` carries that through the collecting: every thread's and every core's
  row is such a row of one CPU, and the total such a row of all threads, added up from
  theirs (`AddedUp`). So what the program sends of itself is refused for its length
  only (`HonestIsAccepted`).
- **`Results_proofs`, the span.** The capacity is the area under the ladder's curve, above
  its last point and up to its plateau, in heights of the plateau (`Integral`). For a
  core that predicts up to one period the area is that many full columns
  (`SumOfSome`); for a curve that is lower in places, and whose plateau and floor are
  the same, no column is taller (`SumAtMost`). `SpanIsRight` is both, for every ladder
  and plateau.
- **`Results_proofs`, the total.** A mean of numbers lies between the least and the
  greatest of them, with the zeros left out and not (`AverageIsWithin`). A ratio of
  means is a mean of the rows' ratios weighted by their denominators, so it lies
  between them, if both means are over the same rows (`RatioIsWithin`): latency and
  throughput are measured in every row, the memory latencies need not be, which is
  why `TotalWithinRows` asks that they are. `DramInv` adds that the memory clock's range
  holds every reading noted so far (`TotalIsWithin`). `ResultsAssumption` is what is
  assumed of the workers: the two compute kernels measured something (they always
  run), all else may be zero; and the plateau ends before the ladder does.
- **`Induction`.** The induction theorems of the library take an operator as a
  parameter, which the provers cannot instantiate. A set can be: `NatSetInduction`
  says that a set with 0 and every successor of its elements holds all numbers, and is
  proved from the pigeonhole facts about finite sets. From it follow recursion (the
  values exist: `Recursion`, `SubsetRecursion`), what sums and folds of the community
  modules compute (`SumOverSet`, `LeftFold`, `AppliedIsThis`) and what
  `FlattenSeq` does with one piece more (`FlattenMore`).

The schedule of `--disp-sweep` is covered by the proofs about `WorkerSuite` (`Sweep`
is a constant of it);
`main` runs it with one worker at a time, so there is no run of it.

What is only model-checked: liveness, which is beyond this prover, so of
`RendezvousSpec` the theorem states the safety (`RendezvousSafety`) and TLC checks the
fairness. Every safety property of a passing run is a theorem as well. `Timing`'s clock
and the workers' arithmetic are over the integers, as in the runs: neither shows
anything of the rounding of floating point.

## What the checks found

Five places where the program does something else than it says. Each is a run
that is expected to fail, and `PROJECT.json` has the lines.

1. An upload that identified its account before the account was closed is stored
   after it, so closing an account does not always delete its runs; and such a run
   is not shown "with no submitter" if the account's row id has been given to the
   next account: it is shown under that one.
2. A login that checked the old password before a change opens its session after
   the change ended "every other browser".
3. The limiter's table is not bounded: the purge looks for empty deques, and
   there never is one.
4. `curl -f` fails for statuses of 400 and above. An https hub that redirects is
   reported as `uploaded`, with exit status 0 and nothing stored; over a socket the
   same answer is an error.
5. `build_chases` keeps node numbers in 32 bits. A buffer of more than 2^32 nodes, over
   256 GiB for one thread, has numbers that repeat, and a chase "can never collapse into
   a short cached loop" no longer: it goes round some of the first 2^32 nodes.

Seen on the way, without a run of their own: `Store.delete` checks its claim and
deletes by id in two steps, so a withdrawal can take another run that was given the
id in between (which `DeletesTheClaimed` therefore has to allow); refusals the hub sends with `self.fail` and no exception (404, 405,
a withdrawal's 403) leave a body in front of the next request, as `route`'s comment
says a refusal must not (which is what `ignored` records); text
and TSV results may still be in stdio's buffer while a run is uploaded, though
"the numbers are already on stdout by then" (`PrintedFirst` is about JSON).

What `accounts` checks is what is left of 1 and 2 when requests overlap: a closing
misses only what is stored after it looked, and an older session that a change leaves
was opened after it or belongs to a change that failed half-way.

The properties of `report` hold; where they stop short of what one might expect,
the code does something worth knowing:

- `machine_score` multiplies the random-access rate by the number of threads even
  where a thread's buffer could not be allocated and its rate is missing.
- A span of zero is written as null, like a span that was not measured. What tells
  the two apart is `disp_prediction`.
- A core that predicts everything, beyond the floor's period too, has no drop to
  find and reads "none", as one without a predictor does. `SpanReadsThePredictor`
  is about predictors that give up before the floor.
- `--mem N` with N bytes below the number of threads leaves no byte per thread, and
  the memory phases are off without a word.
- With `--full --mem-per-thread P` the warning about a working set that fits the
  cache looks at the threads together only; the per-core half uses P alone.
- The hub takes 1024 records, so a `--full` run of more than 511 CPUs and as many
  threads is refused.
- The default CPU list is 0 to the number of CPUs online less one, which is not
  every online CPU where numbers have gaps.
- `parse_cpu_list` narrows a `long` to an `int`, so `--cpus 4294967296` is CPU 0.
  `RunAsAsked` is about lists of numbers that an `int` holds.
- Where the list of present CPUs cannot be read, registers are read of CPUs 0 to the
  number online less one; a core whose number lies beyond goes unnamed.
- A reply whose chunk is larger than `MAX_REPLY` is cut before that chunk, and without
  a word.
- A row names the CPU asked for. `platform.h` 199-202 says the caller reports the
  one observed, but `bench.c` 632 does not look at the result and 2224 passes
  `cpu_list[i]`; `PinnedWhereAsked` is therefore about pins that were taken.
- The digest is of what is running on Linux, and of whatever the path names by
  then on macOS and Windows.

## Not modelled

- Listings and ranking: the hub builds a query and SQLite answers it; no state of
  the hub's own lies in between, and what a query returns is the database's.
- The migration of `verified_builds`: where a crash leaves it depends on which of
  its statements SQLite runs in one implicit transaction, which the source does not
  settle. A model would be a guess. The manifest's parsing is checks of single
  fields.
- The web page: another program, in a browser, whose state is its elements. The
  ordering hazards it has are listed without a property.
- In `HubAccounts`: rotation of the upload token and expiry of sessions, each one
  statement that touches nothing else; the limiters, CSRF and cookies in front.
- In `validate`: types and lengths of single fields.
- In the driver: the text tables, the table of `--disp-sweep` and the comparison of
  variants, which is wording; in `HttpClient` the syntax of URLs, tokens and headers.
- In detection: clock and devfreq readings, which are one file each and whose value
  is taken as given; the registry and `sysctl` branches, one call each.
- In the kernels: the values computed, and the dispatch kernel without its
  dependency, which only the sweep runs. In the digest: the compression function.
- Physical time other than in `Timing`: `WorkerSuite` has no durations, the hub's
  clocks are counters. Rounding: `Results` computes in fractions.
- Static assets, the release workflow, the tests: not part of the program's logic.
