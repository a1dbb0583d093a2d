# A TLA+ model of mxhttp

mxhttp turns annotated stub methods into HTTP calls over httpx, synchronous and
asynchronous. Most of its state lives in four places: the files of a download, the lock on
them, the windows and semaphores its rate and concurrency limits share between threads and
tasks, and the loops that reconnect or retry; the rest is the way from a declaration to the
request of a call. This directory models those parts, checks them with TLC on small instances,
and proves what matters most for every value of the constants with TLAPS.

Contents: 1. the system, 2. the modules, 3. the runs, 4. bounds and fairness, 5. the proofs,
6. counterexamples, 7. what is not modelled, 8. the plan.

    tlc -config ss_safety.cfg MCSingleStream      # model-check one run
    tlapm SingleStreamProofs.tla                  # check the proofs of one module

## 1. The system

Paths are under `src/mxhttp/`.

| component | state it keeps | operations | interacts with | what is hard | what makes it correct |
|---|---|---|---|---|---|
| Single-stream download (`download.py`) | on disk: destination, `.part`, `.part.json`; in the call: received bytes, validator, hasher, failed attempts | check the destination, load the sidecar, connect with Range/If-Range, append, hash, verify, rename, clean up | lock, rate limit, checksum, server | interrupts and crashes at every step; releases between connections; staging files of other calls | the destination is absent or one whole revision; staged bytes are of one revision, and are kept; every call ends |
| Multi-part download (`download.py`) | also `.part.0` to `.part.n`, a plan, one worker per segment | probe, plan, download segments in parallel, join, assemble | all of the above | workers that fail one by one; cancellation of tasks; threads that outlive the call; a crash during the assembly | segments match the plan; nothing is assembled after a failure; the workers' counts agree with their files |
| Download lock (`download.py`) | a lock file, the inode its path names, its holder | open, lock, look at the link count, unlink, release | processes, threads, the file system | unlinking a file that others have open; files left by a crash | at most one call at work; a leftover refuses nobody |
| Rate limit (`ratelimit.py`) | `Window(count, reset_at)` per host and limit | `wait_time`, sleep or refuse | threads and tasks that share it | resets under callers that sleep; cancelled sleeps; `max_delay` | no slot is wasted, sleeps end with the window, bursts are bounded |
| Concurrency limit (`concurrency.py`) | one semaphore per host, port and limit | enter, time out, leave | every call, stream and download | slots held through retries, delays, workers and suspended generators; any exception inside | slots are conserved, waiters are served, what is in flight is under a slot |
| Retry (`retry.py`) | failed attempts | send, decide, delay | the network | lost and late answers; double application | one application with an idempotency key; a bounded number of attempts |
| Call pipeline (`endpoint.py`) | none of its own | slot, gate, build, request, decode | the three above | their order, which differs from one kind of endpoint to the next | only retries pass by the rate limit |
| Streams (`response.py`) | received bytes, validator, attempts, a slot | open, yield, reconnect, close | its caller, the server | reconnects in the middle; encoded bodies; callers that stop reading | what is yielded is a prefix of one revision |
| Server-Sent Events (`sse.py`) | lines of data, type, last id, retry | feed one line | a stream | state that must, or must not, survive a block | one event per block with data |
| Checksums (`checksum.py`) | a hasher | resolve, update, verify | downloads | resumes | the digest covers what is staged |
| Declarations (`parse.py`, `markers.py`, `types.py`, `request.py`, `endpoint.py`) | the plan of a method | split the template, classify each parameter, reject | configuration | checks that depend on what was declared before | what is accepted fills the template and cannot clash |
| Configuration (`endpoint.py`, `headers.py`, `cookies.py`, `consumer.py`) | none that changes | endpoint, instance or class | request building | an explicit None | precedence |
| Request building (`request.py`) | keys inserted so far, defaults that may still be overridden | insert in the order of the plan | cookie jar, call pipeline | six sources of one key | one source wins, whatever the order, or the call raises |
| Progress (`progress.py`) | bars | callbacks | download threads | restarts | cosmetic |
| Authentication (`auth.py`) | none | one header | httpx | | |

`PROJECT.json` lists the components with their status and, under "hazards", each place of the
code where something could go wrong that a test would hardly reach.

## 2. The modules

Every module has its state as VARIABLES, one action per step of the code, and a comment above
each action that is more than its name. `PROJECT.json` ("map") gives the lines of each
definition.

| module | models |
|---|---|
| `RangeServer` | the server, as the code sees it: resources go through revisions; a Range and an If-Range are honoured, ignored or refused; bodies end where they should, or short |
| `Staging` (extends `RangeServer`) | what is on disk: destination, `.part`, sidecar, segments |
| `DownloadContract` | the abstract specification: what the caller of a download is promised |
| `SingleStream` (extends `Staging`) | `Downloader.__call__` with one stream |
| `ByteRanges` | `Parts.resolve_count` and `compute_ranges` as operators, and the definitions they have to meet |
| `MultiPart` (extends `SingleStream`, `ByteRanges`) | `Downloader.__call__` with `parts=`, threads or tasks, on top of all of `SingleStream` |
| `DownloadLock` | `hold_download_lock` and filelock's acquisition |
| `RateLimit` | one `Window` and the callers that share it |
| `HostGates` (extends `RateLimit`) | the window and the semaphore of one host, and all kinds of endpoints that share them |
| `CallPipeline` | an endpoint call that decodes a response: slot, gate, request, retries, over a network |
| `ResumableStream` (extends `RangeServer`) | the generators behind `resumable=` |
| `Sse` | `SseBuilder.feed` |
| `RequestBuilding` | a method from its declaration to the requests of its calls |
| `MC*` | values for TLC |
| `*Proofs` | theorems and proofs (section 5) |

### Downloads

**Data.** A byte is `<<url, version, offset>>`, so the content of a file says where each of its
positions came from, and a splice of two revisions shows. Chunks are one byte long: a longer
chunk is a run of `Chunk` steps nothing interrupts, so these behaviours include the longer
ones. A digest is the sequence of bytes fed to the hasher (no collisions). A validator is the
number of its revision; `NoTag` is a server without ETag and Last-Modified. A sidecar is
missing, torn, or a record; a `DownloadState` is the record with no segments.

**Control.** `pc` names the place in `Downloader.__call__` and `_download_single_stream`:
`exists` and `probe` are the check of an existing destination, `load` is `load_resume_state`,
`open` opens the `.part` and hashes what it holds, `connect`/`head`/`body` are one turn of the
reconnect loop, `state` is `write_state` between the truncation of the sidecar (made by the
step before) and its content, then `verify`, `replace` (`os.replace`) and `cleanup`, which
unlinks one staging file per step in any order. `Interrupt` ends the call at any of them: a
KeyboardInterrupt, a cancellation, a callback that raises or the death of the process all leave
exactly what is on disk. A crash of the machine is not modelled: only the chunks of the
synchronous single stream (`download.py:662`) and the synchronous assembly (`download.py:897`)
are followed by `os.fsync`; the asynchronous paths, segments, sidecars and directory entries
are not, so a power loss may lose or reorder what these models treat as written.

**The end of a body.** The code leaves its loops when `iter_bytes` ends and compares what it
received with nothing (`download.py:665`, `download.py:837`, `response.py:236`). Whether bytes
can be missing then is up to the server: a 206 may hold less than was asked for, and a body that
is delimited by the end of the connection may lose its end, while one that is shorter than its
Content-Length is an error of httpx, a `Drop`. `MayEndShort` says whether bodies may end short,
for single streams (`MayEnd`), segments (`Answer`) and resumable streams alike. Where it is
TRUE, a short body becomes the destination (`mp_short.cfg`) or ends a stream cleanly; what a
download promises of whole files (`TargetIntact`, `ImplementsContract`, `DoneMeansWhole`) thus
assumes it FALSE, in the runs and by name in the theorems, and the rest does not. In the same
way `MayHideSize` lets a 206 to the probe leave the total out, which the code takes for a size
of one byte (`ss_unknown.cfg`).

The lock makes the calls on one destination a sequence, which is what `SingleStream` and
`MultiPart` assume and `DownloadLock` shows; each call takes any resource of `Urls`, any
`overwrite`, and any expected checksum.

**Multi-part.** `w[i]` is worker `i`: its place, the bytes it believes in, its failed attempts,
its response, and its file handle (`append`, or a position of its own). `Async` chooses between
the two implementations. Tasks are cancelled and joined by the task group. Threads are told to
stop and left behind. `zombies` are those whose request was under way, which still open their
segment file before they look at the cancel flag (`ZombieOpen`), and those that are past the
flag, which write what they have read (`ZombieWrite`), both after the call has raised and given
up the lock. Threads alike in what they can still do to a file are counted once, and a thread
whose file was unlinked is left out, as nobody can see what it writes. `Assemble` copies one
segment in a step, because a crash inside the copy leaves a `.part` that the next call opens with
"wb" in any case. `parts` is an argument of each call, one of `Configs` or a single stream: the
sidecar of one call is met by the next, which takes its count of ranges from there and not from
its own `parts` (`download.py:751`).

**Contract.** `ImplementsContract` maps `pc` to three phases (idle, working, settled) and the
outcome to done or raised. The contract says that the destination changes at most once in a
call, to a complete revision of the resource asked for (the expected one if there was a
checksum), never over a file without `overwrite=True`, that an existing file is accepted only if
it is the expected one or, without a checksum, as long as the resource is now, and that a call
that returns normally has settled it.

### Lock, limits and calls

`DownloadLock` has inodes, because the hazard is there: a lock is on an inode and `unlink` is on
a name. `UnlinkLock` may fail (`missing_ok`, or a file system that refuses), so `name'` is
either. filelock is external: `Open`, `Flock`, `CheckLink` and `Close` follow what the source
says of it (the comment at `download.py:203` and the pinned version). `met` is a history variable:
the callers that have a file open whose lock another has held since they opened it.

`RateLimit` keeps time relative to now (`left` is `reset_at - now`), so the clock needs no bound.
`recent` is a history variable: `recent[a]` calls were let through without waiting since `a`
ticks ago, for each `a` up to a period. A window's count stops at `MaxCount`: beyond `Calls` the
code only compares it. The lock around `wait_time` makes `Reserve` one step; the sleep is not
under it.

`HostGates` composes that window with the semaphore of its host. Each caller makes a call of
one kind: `decode` takes a slot and passes the rate limit once, for itself and its retries;
`stream` passes the rate limit when the generator is made and takes the slot at its first
`next()`, which it keeps while it is suspended; `single` and `multi`, the downloads, take a
slot and pass the rate limit before each request; a `segment` is a worker of a `multi` that has
split, and has no slot of its own. `inside` is the stream from whose loop a call is made, or
the download of a worker: a caller does not touch its stream while such a call is under way
(`HasTurn`). A generator may be exhausted, closed, never iterated, or dropped and collected
later. `Tasks` chooses a task group, which cancels its workers and waits for them, or threads,
which an interrupt leaves behind. `paid` and `owed` are history variables: whether the next
request has passed the rate limit, and how many were sent without.

`CallPipeline` has callers that are threads (`Fifo = FALSE`) or tasks (`anyio.Semaphore` is
first come, first served), a network that holds, loses and delays requests and responses, and a
server that applies a request once per idempotency key, and may fail before or after it does.
`Late` lets a request arrive after its sender gave up.

`ResumableStream` alternates with its caller: after `Chunk` the generator is suspended at its
`yield`, and the caller resumes or closes it. `Packing[u]` decoded bytes come from each encoded
byte of resource `u`.

`Sse` feeds every sequence of lines; the properties look at the stream as a whole. The data of
a block are the lines `DataLines(p)` between the blank line before and the one at `p`, and
`IsDataOf` says that a sequence holds their values in that order.

### Requests

`RequestBuilding` follows one method: `Split` is `split_path_template`, `Declare` classifies
and checks one parameter against those before it, `Close` ends `build_plan` and checks the
options of the endpoint. A rejected declaration is final. `Call` resolves the configuration,
each `Bind` inserts what one parameter of the plan was given, or raises, and `Finish` makes the
Cookie header; then the method may be called again. A value is the name of its source (a
default, the jar, the template, parameter `i`), because the properties ask who wins. Their
reference, `Winners`, reads the declaration and the arguments at once and knows no order.

## 3. The runs

Passing runs, with the question each answers:

| run | question |
|---|---|
| `ss_safety` | Two resources, each republished once with another length, share a destination; the server sends validators and may ignore Range. Is the destination ever a splice or half a file (`TargetIntact`), or the `.part` a splice (`NoSplice`)? Is an expected checksum honoured (`VerifiedMeansExpected`), the digest in step (`HashInStep`), the `.part` of another resource left alone (`ForeignPartKept`), what can be resumed kept (`ResumableKept`)? Does the module implement the contract, does every call end (`CallReturns`), and is the retry budget respected (`TypeOK`)? |
| `mp_safety` | Two resources of three bytes that do not change, in two or three parts or one stream from call to call, by tasks: are the workers' counts those of their files (`WorkersInStep`), is the destination intact, is the contract implemented? |
| `mp_threads` | The threaded download with interrupts that leave threads behind, which go on opening and writing files under later calls, and bodies that end short: does an expected checksum still protect the destination? |
| `mp_release` | A release makes the file too small to split. Do segments other than the first hold only the planned revision (`SegmentsOfPlan`)? Is what is assembled what is hashed? Does every call end (`MpCallReturns`)? |
| `lock` | Four callers that come, go and crash: one at a time (`MutualExclusion`), and is a call refused only if another held the lock of the file it had open, at some time since it opened it (`OnlyHoldersRefuse`)? |
| `gates` | Three callers make decoded calls, streams and split downloads over one slot and one call per window, from inside each other's loops too. Are slots conserved (`SlotsOfHost`) and is every request under one (`RequestsUnderSlots`)? Do only retries and reconnects pass by the rate limit (`OnlyRetriesAreUngated`)? Are all of a window's calls let through before anyone waits (`SlotsAllUsed`), do sleeps end with the window (`BlocksUntilReset`), are bursts bounded (`BurstBounded`)? Does a waiter get its slot unless a stream is suspended (`WaiterGetsSlot`), and does a call under way always move on (`CallMovesOn`)? |
| `call_idempotent` | Two threads over one slot, with retries and late requests: applied at most once (`AppliedOnce`), applied if the call returned (`ReturnedMeansApplied`), slots conserved? |
| `stream` | A plain and an encoded body over drops and two releases: is what was yielded a prefix of one revision (`NeverSplices`), all of it after a clean end (`DoneMeansWhole`), and does the stream end? |
| `sse_events` | Every stream of up to five lines: one event per block with data (`EveryBlockDispatched`), with the last id and retry of the stream so far (`FieldsAreLast`)? |
| `requests` | Methods of up to two parameters over six templates, four endpoints, sixteen configurations and two jars. Does each key carry the value of the one source the rules name (`BuiltAsDeclared`)? Does a call raise exactly when two sources claim a key (`RaisesIfAmbiguous`), and never for what the class body accepted but for bags (`NamedNeverClash`)? One body encoding (`OneBody`), a filled template (`TemplateFilled`), reserved headers only by their mechanism (`ReservedByMechanism`)? |

Three more configurations pass: `ss_short.cfg` (the properties of `ss_safety` that assume nothing
of how bodies end, with bodies that end short and sizes that are hidden), and two that look at
one module alone with other bounds, `rate.cfg` (two calls in a window of three ticks, so that
sleeps of two ticks occur, and `BlockedCallEnds`) and `call_live.cfg` (two tasks over one slot:
`SlotComesBack`, `WaiterServed`).

Runs that end in a counterexample: `ss_unsatisfiable` and `mp_splice`, section 6.

Each property of a passing run has a mutant in `PROJECT.json`: a definition of the model
replaced by what a plausible bug would make of it (a status that is not looked at, a file
opened with "wb" for "ab", one attempt too many, a slot that is not given back), under which
TLC finds the property violated. The mutated operators stand before the definitions they
change, marked "Mutant of".

## 4. Bounds and fairness

Every bound is a constant, marked BOUND where the code has none.

* `MaxVersion`: two revisions are enough to splice; the third of `stream` lets a release
  happen before, between and after two connections. `mp_safety` has one revision, because with
  two its `TargetIntact` does not hold (`mp_splice`); `mp_release` covers the second.
* `Size`: one to three bytes. Lengths that grow, shrink and leave a remainder when split in two
  are among them.
* `Attempts`: two, so that a reconnect and an exhausted budget both happen, or three.
* `Configs`: two parts, a first, which has no If-Range, and a last, which takes the remainder; in
  `mp_safety` also three, so that there is one between them and calls disagree on the count.
  `ByteRanges` is proved for every number.
* `MaxZombies`: two, so that the threads of one call, or of two, meet a later one.
* Lock: with four callers, one can hold, one wait for a dead inode, one be between `open` and
  the lock, and one crash. Five inodes, so that one is always free.
* `MaxCount` is where a window's count stops. Any number above `Calls` will do, as the code
  only asks whether the count exceeds `Calls`.
* `gates`: three callers, so that one can hold a stream, one be its nested call and one wait,
  or one be a download and two its workers; one slot and one call per window, so that both are
  contended; a period of two and a `max_delay` of one, so that calls are admitted, refused and
  delayed. It also passes with two calls per window, in some minutes.
* `MaxParams`: two parameters meet in every order, together with defaults, the jar and the
  template. `requests` also passes with three. Its deadlock check is off, as a rejected
  declaration has no next step.
* `Ids` names the calls a server can still hear of; an id is reused only when nothing of its
  last call is left on the network.
* `MaxLines` is five: two blocks with a field each and their blank lines. `Sse` stops there,
  which is why its cfg turns the deadlock check off, too; everywhere else it is on.

Fairness is weak, and on the steps of the code's own threads and tasks:

* A call's `Step` (`SingleStream`, `MultiPart`, `CallPipeline`), because every request ends:
  httpx has a default timeout (`consumer.py:51`) and delays are capped (`Retry.max_delay`,
  `retry.py:81`; a caller who turns timeouts
  off gives this up). Nothing is assumed of releases, interrupts, new calls, or of which way a
  request ends.
* One `Worker(i)` each, because they are threads or tasks of their own.
* `Grant(c)`, because a released semaphore wakes a waiter. That nobody is overtaken follows
  from the first-come order of `anyio.Semaphore` and not from fairness: with threads
  (`Fifo = FALSE`) `WaiterServed` does not hold, and is not claimed.
* `Tick` and `Wake(c)`: time passes and sleeps end.
* `HostGates`: `Tick`, and each caller's `Step(c)` and `Grant(c)`. Nothing is assumed of the
  callers of generators, which is why `WaiterGetsSlot` and `CallMovesOn` except calls that wait
  for one.
* `ResumableStream`: the caller reads on. A caller that stops holds its stream, and its slot,
  for as long as it likes.

## 5. The proofs

All are checked by TLAPS to the last leaf, from the named assumptions on constants in
`RangeServer`, `Staging`, `SingleStream`, `DownloadLock`, `RateLimit`, `HostGates`,
`CallPipeline`, `ResumableStream` and `RequestBuilding` (sizes are natural numbers, the retry
budget is positive, callers are finitely many, model values are no file contents, the reserved
headers are lower-case names). TLC evaluates the same assumptions in its runs, and the inductive
invariants were checked by TLC before they were proved.

`SingleStreamProofs`

* `VerifiedContent` (with `CallInvariant`): on any server, also one without validators that goes
  back to old releases, a call that returned with an expected checksum left that very content.
  `VerifiedMeansExpected` is not inductive: `CallInv` adds that the hasher has seen exactly the
  `.part` (`HashInStep`) while the loop runs, what `verify` has established when the call
  reaches `replace` and `cleanup`, and that without `overwrite=True` the destination is absent
  while a call works.
* `TypeCorrect`, with `CountInv`: `received` is the length of the open `.part`.
* `ForeignBytesKept`, `ResumableBytesKept`: on any server, from `OwnInv`: the loop appends only
  under its own sidecar, and truncates a foreign `.part` only with `overwrite=True`.
* `TargetAlwaysIntact`, `NeverSpliced`, `DownloadImplementsContract`: assuming `Tagged` and
  `~Rollback`; the first and the last also `~MayEndShort`, and the last `~MayHideSize`. `IndInv`
  adds three parts: what is on disk (`DiskInv`: staged bytes are a prefix of a revision at least
  as new as the one the sidecar names), what the loop believes (`BeliefInv`: no bytes without a
  validator, and the validator of its own sidecar), and what a response continues (`StreamInv`: a
  206 starts where the `.part` ends, in its revision). Staged bytes may be newer than the
  validator, as a release before the first byte leaves the old one in force; a 206 then can only
  come from the named revision, so with `~Rollback` there is none. That is the argument, and
  without `~Rollback` it fails (`ss_rollback`, section 6).

`DownloadLockProofs`: `LockExcludes`, `LockInvariant`, `LeftoverRefusesNobody`, for any callers
and inodes. `LockInv` says that whoever is at work holds the lock of the inode the path names,
and that locks belong to callers that have the inode open. `MetInv` says what `met` has seen:
whoever holds the lock of the file a caller has open, and whoever has unlinked that file. That
the lock is still held when the caller is refused cannot be proved: see `lock_dead.cfg`, section 6.

`CallPipelineProofs`:

* `SlotsAreConserved`, by the cardinality of the set of holders.
* `AppliedAtMostOnce`, assuming `Idempotent`, from `KeyInv`: what was applied has left its key,
  and all requests of a call carry it.
* `ReturnedCallsAreApplied`, with or without keys, from `AnswerInv`: an answer "ok" on the
  network, and a key the server remembers, stand for a call that was applied. A late answer to
  an earlier attempt is still one to the same call.

`HostGatesProofs`, for any finite set of callers, first of a window alone:

* `SleepsEndWithWindow`, `SleepsAreBounded`, from `SleepInv`.
* `WindowIsUsedUp` and `BurstsAreBounded`, from `BurstInv`. That bursts are bounded is not
  inductive: time shifts the period that is counted, so the invariant is about all of its
  sections. `recent` grows with its index, the calls since a window began are its count
  (`SlotsAllUsed`), and whatever went before, in a whole period, is at most one window's worth:
  `recent[Period] <= recent[Period - left] + Calls`. When a window begins no time is left of
  the last one, so the last period holds no more than `Calls`.

Then of the host:

* `GatesImplementRateLimit`: `HostGates` implements `RateLimit`, so what is proved of a window
  alone holds between the slots, streams and workers of a host: `GatesSleepUntilReset`,
  `GatesUseUpWindows` and `GatesBurstsAreBounded` are the theorems above carried over that way.
* `SlotsAreKept`, by the cardinality of the set of holders. Its `SlotInv` adds `Shape`: only a
  call at the rate limit sleeps, only downloads by parts are split, and a worker whose download
  still has its slot belongs to one that waits for it.
* `TaskRequestsUnderSlots`, assuming `Tasks`, from `TaskInv`: every worker has its download.
  With threads it does not hold (`gates_zombie`, section 6).
* `RetriesAloneAreUngated`, from `CreditInv`: by its label, a call has paid for its next request
  or owes at most one per failed attempt.

`ResumableStreamProofs`: `StreamNeverSplices` and `StreamDoneMeansWhole`, assuming `Tagged` and
`~Rollback`, the second also `~MayEndShort`. `StreamInv` adds what the generator believes
(`BeliefInv`: `received` is the number of decoded bytes yielded, which are those of a prefix of a
revision at least as new as the validator), what a response continues (`RespInv`) and what a
clean end establishes (`DoneInv`). A reconnect in the middle of an encoded body may start at the
wrong byte, as `received` counts decoded ones; `RespInv` has that case, where nothing can be
decoded, so nothing is yielded.

`MultiPartProofs`, for any number of segments, any sizes and any retry budget:

* of `ByteRanges`, `CountFits` (at least one part, no more than asked for,
  and a byte for each), `RangesTile` and
  `RangesPartition` (each offset in exactly one range, in order), `PartsLongEnough`;
* `PartsVerifiedContent` and `PartsHashInStep`, for threads or tasks, abandoned threads, any
  server and bodies that end short. `MpCallInv` extends `CallInv`: whatever the segments hold,
  what is hashed is what is assembled, and the destination is settled before it is replaced.
* `TasksInStep`, assuming `Async`, from `PartsInv`: the types, and what a worker that is at work
  believes (`Believes`: `got` is the length of its file, and a handle that does not append
  writes at the end). With threads it fails (`mp_zombie.cfg`).
* `TasksFillThePlan`, assuming `Tagged` and `Async`, from `SegInv`: the plan in the sidecar fits
  the revision it names, it is that of the call at work, and a 206 to a segment after the first
  continues the planned revision from the end of its file (`Continues`). That last conjunct is
  where the argument lies: the range of such a segment never starts at byte 0, so it is always
  sent with `If-Range` and a 200 is refused. The first segment has no such rule and is left out.
* `PartsTargetIntact` and `PartsImplementContract`, assuming `Async` and `Steady`: the server
  sends validators, resources have one revision, Range is honoured and no body ends short, as in
  `mp_safety`; the second also assumes `~MayHideSize`. Calls may use different `Configs`. TLC
  finds counterexamples without most of these conditions: resources that change (`mp_splice`),
  bodies that end short (`mp_short.cfg`), threads (`mp_zombie.cfg`), and `MayIgnoreRange = TRUE`,
  where the worker of the first segment takes a 200 and writes all of the file. Validators are a
  condition of the proof only: `mp_safety` also passes with `Tagged = FALSE`, but the invariants
  it is proved from name revisions by their tags. Under `Steady`, `SegInv` holds of the first
  segment too, and says that a worker that is done has its whole range (`Finishes`). `SteadyInv`
  adds, at the labels of one stream, the invariants of `SingleStreamProofs`, whose step lemmas
  are reused there, and `AssemblyInv` at the others: the `.part` is the file up to the segment to
  be added (`Reach`), and the segments from there on are complete. The lemmas `ReachNext` (a
  segment ends where the next starts, from `RangesTile`) and `HeldJoins` (a file and its
  continuation make one file) make a step of the assembly. The contract then needs only that no
  label of a download by parts is visible to the caller.

`RequestBuildingProofs`, for any templates, parameters, configurations and jars, and plans of
any length: `BuildingInvariant`, and from it a theorem for each property of `requests`.
`BuildInv` has four parts:

* `PlanInv`: each parameter of the plan is bound to a name it may have (`WellBound`), and no two
  meet on one name, in one bag or in the body (`Apart`). `OnlyBagsClash`, `RequestsHaveOneBody`
  and `TemplatesAreFilled` rest on it: it is what the class body has checked once and no call
  checks again.
* `GivenInv` and `Disjoint`: what the parameters bound so far were given, no key of it twice.
* `SentInv`, where the order of insertion goes away: the keys sent are those of the defaults, of
  the parameters so far and of the mechanisms (`OwnKey`), each with the value its source
  prescribes, and what may still be overridden is the defaults less the keys given.
* `RaisedInv`: a call that raised has two sources of one key or a reserved name, and a bag.

`SseProofs`, for streams of any length: `SseInvariant`, with `BlocksAreDispatched` and
`EventFieldsAreLast`. The reference definitions read the stream as a whole and the builder one
line at a time, so `SseInv` says what the builder holds in their terms, as if the block ended at
the next line (`BuilderInv`), and that each event is what a reading up to its line gives
(`EventsInv`). The lemmas then say what one more line changes: nothing of what was read before
(`ReadOn`, `ValuesStay`), the last line of its kind (`LastNext`), and the block it continues or
ends (`NextBlock`, `DataAppended`, `NextEnds`). That a set of lines has a last one (`MaxOf`)
comes from the well-foundedness of the natural numbers.

Model-checked only: liveness, which is out of this prover's reach. That is `CallReturns`,
`MpCallReturns`, `WaiterGetsSlot`, `CallMovesOn`, `StreamEnds`, and `SlotComesBack`,
`WaiterServed` and `BlockedCallEnds` of the smaller configurations.

## 6. Counterexamples

Two disagreements between the code and its documentation are runs of the project:

* `ss_unsatisfiable`: a call that dies after the last byte and before `os.replace` leaves a
  complete `.part`. Each later call asks for a range that starts at its end, gets a 416, and
  fails.
* `mp_splice`: `resume_headers` sends If-Range only for a range that starts after byte 0, so
  segment 0 is fetched without it, and may come from a newer release than the others.

The other configurations here each check one property that TLC finds violated. They are why the
passing runs and the theorems assume what they do, and each has its property stated in the
module with the line it quotes:

| configuration | module | property | what happens |
|---|---|---|---|
| `ss_lost.cfg` | `MCSingleStream` | `LostMeansChanged` | the validator is taken only while there is none (`download.py:653`); after a drop before the first byte and a release, the old one stays in force, and the next reconnect raises ResumeLostError for an unchanged resource |
| `ss_rollback.cfg` | `MCSingleStream` | `TargetIntact` | if the release is then rolled back, that validator matches again, and two releases are spliced |
| `ss_unknown.cfg` | `MCSingleStream` | `AcceptedHasRemoteSize` | a 206 to the probe that says "bytes 0-0/*" has a Content-Length of 1, which is taken for the size of the resource (`download.py:287`), so any existing file of one byte is accepted as complete (`README.md:425`) |
| `ss_torn.cfg` | `MCSingleStream` | `SidecarReadable` | a call that dies inside `write_bytes` leaves an empty sidecar, which every later call fails to decode |
| `mp_zombie.cfg` | `MCMultiPart` | `TargetIntact` | a thread left by an interrupt opens its segment with "wb", or writes to it, under the next call |
| `mp_foreign.cfg` | `MCMultiPart` | `ForeignPartKept` | a multi-part call decodes only its own kind of sidecar and wipes the `.part` of a single stream of another resource without looking at its url (`download.py:707`) |
| `mp_short.cfg` | `MCMultiPart` | `TargetIntact` | a segment whose body ends cleanly but short is taken for complete (`download.py:837`), and the destination gets a gap |
| `mp_fallback.cfg` | `MCMultiPart` | `ResumableKept` | a multi-part call that falls back to one stream has wiped the bytes it could have resumed (`download.py:721`) |
| `lock_dead.cfg` | `DownloadLock` | `RefusedMeansHeld` | a call that opened the lock file before its holder unlinked it locks a dead inode; with `timeout=0` the retry of filelock may find its time over, and the call is refused although nobody holds the lock (`download.py:211`) |
| `rate_burst.cfg` | `RateLimit` | `AtMostCallsAtOnce` | calls that slept until the reset are not counted in the next window, so they and its first calls go out together (`ratelimit.py:103`) |
| `gates_inflight.cfg` | `HostGates` | `InFlightWithinLimit` | a download holds one slot for all of its workers, so more requests are in flight than the limit allows (`README.md:290`, `README.md:460`) |
| `gates_zombie.cfg` | `HostGates` | `RequestsUnderSlots` | an interrupted download gives its slot back while its threads still have requests under way (`download.py:866`) |
| `gates_nested.cfg` | `HostGates` | `NestedCallGetsSlot` | a call made from the loop over a stream waits for the slot the stream holds (`response.py:217`) |
| `requests_case.cfg` | `MCRequestBuilding` | `HeadersDiffer` | an endpoint's `X` does not override a header `x` but joins it: names are compared as they are written (`README.md:329`) |
| `requests_parts.cfg` | `MCRequestBuilding` | `PartsAllSent` | two parts of one name are accepted and the later replaces the earlier (`request.py:274`) |
| `requests_host.cfg` | `MCRequestBuilding` | `GateIsOfRequestHost` | the gates of an absolute path are keyed by its template, also when its host is a placeholder (`endpoint.py:248`, `ratelimit.py:120`) |
| `sse_type.cfg` | `Sse` | `TypeIsOfItsBlock` | a block with a type and no data leaves the type to the next block (`sse.py:35`) |
| `stream_encoded.cfg` | `MCResumableStream` | `ReconnectContinues` | a stream counts decoded bytes and asks for encoded ones (`response.py:234`) |

## 7. What is not modelled

* Types of annotations: which scalars, sequences, mappings and unions a marker accepts, and how
  values of them are encoded. Tables over Python's type objects, without state.
* Whether the jar holds cookies of one name for two paths or domains, which raises
  CookieConflict (`endpoint.py:282`).
* Authentication: one header set inside httpx, after everything modelled here.
* Parsing of header values and sidecars, except for what can fail: a torn sidecar, a probe whose
  total is unknown (`ProbedTotals`, with `MayHideSize`).
* Lengths of delays. Which delay is chosen (Retry-After, backoff, jitter) changes no property.
* Encoded bodies of downloads (the check of an existing file compares decoded with encoded
  lengths, `download.py:464`).
* File names: targets with glob characters, targets whose names extend each other, resources
  that differ in their query only (`spec.url` has none, `download.py:304`).
* The dictionaries of windows and semaphores: one window, one semaphore stand for each. An
  asynchronous semaphore is not keyed by its event loop, so loops in several threads that call
  one host share an object made for one of them.
* Progress bars: their callbacks change nothing a download depends on, but for one that raises,
  which is an interrupt.

## 8. The plan

Done: downloads (`SingleStream`, `MultiPart`, `DownloadContract`, `ByteRanges`,
`DownloadLock`), limits and calls (`RateLimit`, `CallPipeline`, `HostGates`), streams
(`ResumableStream`, `Sse`) and requests (`RequestBuilding`), with proofs about all of them.

To model: resources that share a url; encoded bodies of downloads; the life of progress bars.

To prove: `PartsTargetIntact` without `Tagged`, which TLC finds true; and what threads keep of
the properties that tasks have (`TasksInStep` and what follows from it need `Async`).
