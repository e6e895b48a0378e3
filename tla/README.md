# A verification project for bounded_subprocess

`bounded_subprocess` runs programs that may misbehave: it bounds their time,
their output and (async only) their memory, and promises to let go of them on
every way out. The code is small. What is hard in it is what happens between
its awaits and its system calls: other tasks cancel, processes fork and exit,
pipes fill up, and the kernel reuses process ids. This project models those
parts in TLA+, checks them with TLC and proves their safety with TLAPS.

Paths below are relative to `src/src/bounded_subprocess/`.

## The system

| Component | State | Operations | Talks to |
|---|---|---|---|
| `Child` (`child.py`) | the Popen, its pgid, three pipes | `spawn`, `poll`, `kill_group`, `close_stdin`, `close_pipes`, `reap_*`, `release_*` | the kernel |
| async `run` (`bounded_subprocess_async.py`) | phase of the call, deadline, watchdog task, release task | `run`, `_collect_bounded`, `_release`, `_memory_watchdog` | `Child`, `uncancellable`, the event loop, its caller |
| `uncancellable` (`cancel.py`) | the work's task, the shield's future, `absorbed_cancellation` | one loop | the event loop |
| stdin writing (`util.py`, `interactive*.py`) | `start`, the BufferedWriter's buffer, the pipe | `write_nonblocking_async`, `write_nonblocking_sync`, `write_loop_sync`, `write_chunk`, `close_stdin` | the child, the clock |
| output collection (`util.py`) | a `BoundedOutputBuffer` per pipe, the pipes still open | `read_to_eof_sync`, `read_to_eof_async`, `_wait_for_any_read` | the child, the clock |
| line reading (`interactive*.py`, `bounded_subprocess_async.py`) | saved bytes, BufferedReader's buffer | `read_line`, `pop_line`, `trim_stdout`, `_read_line_from_nonblocking_pipe` | the child, the clock |
| `Interactive` (sync, async) | a `Child`, saved bytes | `write`, `read_line`, `close` | `Child`, line reading, stdin writing |
| sync `run` (`bounded_subprocess.py`) | phase of the call, deadline | `run` | `Child`, stdin writing, output collection |
| podman runs (`bounded_subprocess_async.py`) | client process, cidfile, container, stderr task | `podman_run`, `podman_run_stream_lines`, `_podman_rm` | podman, the event loop |
| memory accounting (`bounded_subprocess_async.py`) | none | `_sum_process_group_peak_rss_kb` and parsers | `/proc` |
| podman arguments, package facade | none | `_build_podman_run_args`, `__getattr__` | - |

What makes each of them correct, and what is hard about it:

- **Child.** Kill before reap before close; one kill reaches the whole group; a
  child that cannot be killed does not block the release. Hard: the pid, and so
  the group's id, is free for reuse as soon as the child is reaped and its
  group is empty.
- **Async run.** Everything acquired is let go of on every way out (result,
  timeout, error, cancellation, cancellation of the cleanup); a cancelled
  caller gets no result; the watchdog neither outlives the reap nor turns its
  own kill into an exit code. Hard: four tasks' worth of interleavings.
- **uncancellable.** The work is completed, the caller learns of the
  cancellations and of the exceptions. Hard: three separate moments (work done,
  future done, task resumed) with a cancellation between any two.
- **Stdin writing.** Bytes arrive once and in order; True and False mean what
  they say. Hard: BufferedWriter on a nonblocking pipe accepts part of a write,
  and closing flushes.
- **Output collection.** A prefix (or suffix) of what the child wrote, of each
  pipe, up to EOF or the timeout. Hard: bytes hidden in BufferedReader, one
  pipe starving the other.
- **Line reading, Interactive.** Lines in order and whole unless trimmed; a
  line that has arrived is returned. Hard: the same hidden bytes; `close`
  against a pending `read_line`.
- **Sync run.** As async run, without cancellation. Hard: no `finally`.
- **Podman.** The container is gone once the call is over. Hard: the client may
  create it late, and the cleanup itself can be cancelled.

Every hazard found while reading is listed in `PROJECT.json` at its line.

## The parts of the project

| Part | Modules | Builds on |
|---|---|---|
| `Child` and the kernel | `ProcessGroup`, lemmas in `ProcessGroupProofs` | - |
| async `run` | `AsyncRun`, `MCAsyncRun`, `AsyncRunProofs` | `ProcessGroup` |
| what `run` promises | `RunContract` | - |
| `uncancellable` | `Uncancellable`, `CancellationProofs` | - |
| what `uncancellable` promises | `ShieldedWait` | - |
| stdin writing | `StdinFeed`, `StdinFeedProofs` | - |
| our end of the output | `PipeReader`, lemmas in `PipeReaderProofs` | - |
| output collection | `OutputDrain` | `PipeReader` |
| sync `run` | `SyncRun`, `SyncRunProofs` | `ProcessGroup`, `OutputDrain` |
| line reading | `LineReader`, `LineReaderProofs` | `PipeReader` |
| `Interactive` | `Interactive`, `InteractiveProofs` | `ProcessGroup` |
| podman runs | `PodmanRun`, `CancellationProofs` | - |

`ProcessGroup` and `PipeReader` are the two halves of what a run stands on, its
processes and its pipes; each says in operators what the package's own code and
the library under it do, and the modules above compose those with a caller, a
clock and the children. What could still be added: a fair child in
`OutputDrain`, to say how long one pipe can starve the other.

## The modules

`ProcessGroup` is `Child` as operators, one per method, and the operating system
as actions: processes of the group fork, leave the group by `setsid`, close
their outputs, exit and die, and the kernel reuses the group's id. `proc` has
the condition of every process (`"exited"` and `"killed"` are zombies of the
child, `"gone"` is reaped), `stranger` is a process group that was given the id.
A descendant's zombie is left out: init reaps it. Escaped processes are out of
reach of the package, as its documentation says, but still hold the pipes.

`AsyncRun` extends it with the tasks. An action is what a task does between two
awaits. `pc` is where the task of `run` is suspended, `rel` where the release
task is, `watchdog` how the watchdog's task stands. `Cancel` only requests a
cancellation; `CancelDelivered`, `AbsorbCancel` and `CancelledBeforeStart` are
the places where asyncio raises it. Three timers (`expired`): the deadline of
the run, the reading phase's own end, the release timeout. The exit code is its
kind: of the program, of a kill, or forced to -1. Which bytes move is left out.

| In the code | In `AsyncRun` |
|---|---|
| `run` up to the `try` | `Start`, `SpawnFails`, `CancelledBeforeStart` |
| `_collect_bounded`: write, read, poll loop, verdict | `WriteReturns`, `ReadReturns`, `ExitObserved`, `DeadlineReached`, `Conclude` |
| `CancelledError` at one of its awaits | `CancelDelivered`; lost by `wait_for`: `CancelSwallowed` |
| `finally: uncancellable(...)`, the `if` after it | `AbsorbCancel`, `Return`, `Outcome` |
| `_release`, `Child.release_async`, `reap_async` | `StopWatchdog`, `ReleaseKills`, `Reaped`, `ReapGivesUp` |
| `_memory_watchdog` | `WatchdogTrips`, `WatchdogLapses`, `WatchdogFails`, `WatchdogCancelled` |

The constant `WaitForSwallows` is the version of Python: up to 3.11
`asyncio.wait_for` returns the result of an inner future that is done when the
cancellation comes in; from 3.12 on it raises. The package supports both.

`RunContract` is what a caller can rely on: acquire, let go, answer, in this
order, and no result for a caller that cancelled. `AsyncRun` implements it under
the mapping at its end (`Contract`).

`Uncancellable` models the loop of `cancel.uncancellable` one level below
`AsyncRun`: the work's task, the future `asyncio.shield` puts in front of it,
the callback between the two, `Task._must_cancel`, and a loop that shuts down by
cancelling every task (`asyncio.run`).

`ShieldedWait` is what both have to agree on: a wait for work that takes in every
cancellation, answers when the work is over, and says whether there was one.
`Uncancellable` implements it (its `RefinesWait` maps a cancellation to "left word
of, or on its way as the end of the future"), and so does `AsyncRun` from the
start of its release on, with `AbsorbCancel` for the taking in and `Return` for
the answer (its own `RefinesWait`). `AsyncRun` leaves out work that raises, which
the release does not, and the shutdown.

`StdinFeed` follows the data, in units, from the caller through `start`, the
BufferedWriter's buffer and the pipe to the child, for three writers: `run`
(buffered), async `Interactive` (raw), sync `Interactive` (raw, sleeping). The
pipe keeps writes up to `atomic` (PIPE_BUF) whole. BufferedWriter is
modelled after CPython's: absorb what fits, else flush, else write directly
while more is left than the buffer can hold, and on EAGAIN fill the buffer and
report how much was taken.

`PipeReader` is the pipe of POSIX and CPython's `BufferedReader` on a nonblocking
descriptor. A byte is known by its number in its stream, so that every buffer is
a run of numbers and its contents are two counters: `written`, `taken` (out of
the pipe, into the reader) and `handed` (out of the reader, to the package). One
`read(MAX_BYTES_PER_READ)` is `BeginRead`, any number of `ReadMore`, each a
`read(2)` between two of which the child may write, and `ReadDone`; a `read(2)`
may fetch more than the call asks for, and what is left over stays in the reader,
where neither select nor epoll sees it. A call that got nothing returns `b""` at
the end of the file and None before it.

`OutputDrain` is `read_to_eof_sync`, which serves all pipes that select
reported before it selects again, `read_to_eof_async`, which serves the one that
`_wait_for_any_read` woke up for, and `BoundedOutputBuffer.extend`. `Kept` is the
reference definition: the first `max_len` numbers, or with `tail` the last.

`SyncRun` puts `ProcessGroup` and `OutputDrain` together under the synchronous
`run`. The output of the child is written by a process that is alive, and the
pipe ends when its last holder lets go. With `kind = "async"` the same module
runs `read_to_eof_async` on the same pipes and ends there.

| In the code | In `SyncRun` |
|---|---|
| `Child.spawn`, `stdin_data.encode()` | `SpawnFails`, `Start` |
| `write_nonblocking_sync`, `close_stdin` | `WriteReturns`, `WriteTimesOut` |
| `read_to_eof_sync` | `Collect` (`Select`, `Serve`, `RawRead`, `ReadReturns`, `DrainEnds`) |
| `popen.wait`, `TimeoutExpired` | `WaitReaps`, `WaitExpires` |
| `release_sync`, `reap_sync`, `close_pipes`, the result | `ReleaseKills`, `Reaped`, `ReapGivesUp`, `Status` |
| `KeyboardInterrupt` at any wait | `Interrupt` |

`LineReader` has the three loops that read a line (`mode`), one call at a time.
The saved bytes are the numbers after `dropped` up to `Saved`; `lines` is what was
returned. The three differ in whether they wait for the pipe before they read
(`Look`), in what is trimmed (`Trimmed`, `CappedStart`) and in what the end of the
file does to the rest (`EofArrives`); all search only the bytes just received.

| In the code | In `LineReader` |
|---|---|
| `pop_line` at the start of a call | `CallPops`, `CallBegins` |
| `can_read`, `stdout.read` | `Look`, `RawRead` |
| what a chunk, None or `b""` does; `trim_stdout` | `ReadReturns`, `ChunkArrives`, `EofArrives` |
| the deadline, a cancellation | `TimedOut`, `Cancelled` |
| `close_pipes` by another task, the `ValueError` of a read behind it | `Close` |

`Interactive` has the object's life: `write` as it polls, and so reaps, `close`
with its nice timeout, called up to twice and cancelled at its sleeps, and, async,
a `read_line` that waits in `can_read` meanwhile. The selector's key for a
descriptor number and the file the kernel watches are separate, because a close
drops the one and not the other; `"later"` is the `read_line` of a child started
later, whose stdout was given the same number.

| In the code | In `Interactive` |
|---|---|
| `write` up to its poll | `WritePolls` |
| `close` up to its loop, an iteration, the release | `CloseBegins`, `NicePolls`, `NiceEnds`, `ReleaseKills`, `Reaped`, `ReapGivesUp`, `CloseCancelled` |
| `can_read`: `add_reader`, the callbacks, the resumed task | `WaitBegins`, `Wake`, `WaitEnds`, `RemoveReader`, `ReadResumes` |

`PodmanRun` has the two podman calls (`mode`): the client that creates a
container, writes its id to the cidfile and starts it, and the finally clause
that kills the client, has it reaped by a thread, and starts `podman rm`. `pc` is
the await (or the yield) the call is suspended at, `mishaps` what went wrong in
the cleanup: a cancellation, one of its two time limits, a `podman rm` that
could not be started. What podman does is external: modelled as the flags the
code passes (`--rm`, `--cidfile`, `--ignore`) promise, with a client that may end
at any time. `oldWaitFor` is the version of `asyncio.wait_for`, chosen once:
before Python 3.12 (`CancelSwallowed`, `WaitForReturns`) it gives what it waited
for to a caller that was cancelled, if it is there.

| In the code | In `PodmanRun` |
|---|---|
| either function up to the `try` | `Start`, `SpawnFails`, `CancelledBeforeStart` |
| the body of the `try` | `BodyEnds`, `BodyFails`, `CancelDelivered`, lost by `wait_for`: `CancelSwallowed`; of a stream: `Yield`, `Resume`, `AClose` |
| `finally` up to its first await | `Finally`, `StopClient`, `StderrStops` |
| `to_thread(p.wait)`, `_podman_rm`, each in a `wait_for` (`WaitForReturns`) | `WaitEnds`, `ThreadReaps`, `RmSpawned`, `RmDone`, `CleanupCancelled` |

## The runs

| Run | Checks |
|---|---|
| `async_run` | `TypeOK`, `ReleasedOnReturn`, `KillsBeforeReaping`, `KillIsNotAnExitCode`; two descendants (symmetric), any number of cancellations, `WaitForSwallows = TRUE` (it only adds behaviours) |
| `async_run_contract` | the refinements of `RunContract` and `ShieldedWait`, and under fairness `Returns` and `GroupDies`; one descendant, no symmetry, `WaitForSwallows = FALSE` |
| `async_run_stranger` | violated: the normal exit is reaped before the group is killed |
| `async_run_watchdog_gap` | violated: the watchdog ends before the stdin write does |
| `uncancellable` | `RunsToCompletion`, `TellsCancellation`, `AbsorbedHidesNothing`, the refinement of `ShieldedWait`, `Finishes` |
| `stdin_feed` | `SentIsPrefix`, `CountIsExact`, `RawTrueMeansSent`, `FalseMeansShort`, `LossIsBounded`, `Finishes` |
| `stdin_feed_tail` | violated: the tail held back by BufferedWriter is dropped at the close |
| `line_reader` | `LinesInOrder`, `LinesWhole`, `RetentionBounded`, `WaitsWithoutLine`, and under fairness `LinesArrive`; the three readers, every placement of newlines |
| `sync_run` | `KeepsFirstOrLast`, `EndsAtEofOnly`, `OutputComplete`, `ReleasedOnResult`, the temporal `ExitIsSeen` and `Returns`; both collecting loops |
| `interactive` | `ReleasedOnClose`, `KillsBeforeReaping`, `WaitersAreWatched`, the action property `KilledLast`, `Closes` |
| `podman_run` | `ContainerStopped`, `RmMissesNothing`, `CancelHonoured` (of states and of steps), the action property `NothingStartsLate`, `Returns`; both functions, both versions of `wait_for` |
| `podman_run_skipped` | violated: a cancellation in the finally clause skips `podman rm` |

The four violated runs are disagreements between a comment or docstring and the
code; `PROJECT.json` quotes both under `findings`. The lost tail was also
reproduced with CPython 3.11. The reuse of a pid within the few instructions
between the reap and the kill is unlikely in practice; the comment in `child.py`
is about exactly that case.

Some properties hold only with an exception that their formula names. Each
exception is something the code does:

- With `WaitForSwallows = TRUE`, `RefinesContract` fails: before Python 3.12 a
  cancellation can be lost in `wait_for` (`CancelSwallowed`) and the caller is
  given a result. Reproduced with 3.11.
- `AbsorbedHidesNothing` excepts a cancellation that came in since the loop last
  went back to wait (`recent`). One that comes between the end of the work and
  the wake-up takes the place of the work's exception (`ResumeCancelled`),
  although `cancel.py:26` says exceptions propagate. Reproduced with 3.11.
- `LinesArrive` excepts a line that is `Overlooked`: it has come out of the pipe
  with an earlier one and sits in the BufferedReader, and the two ways that wait
  for the descriptor before they read do not find it until more is written. It is
  also met once a podman stream is over.
- `RetentionBounded` lets a stream's line exceed `max_line_size` if it was
  received whole, behind another line and in the same read, and so is shorter
  than that read: only the first newline of a chunk is checked (`LineBounded`).
  What is saved is within the larger of the cap and one byte less than a read;
  a line of an `Interactive`, within that and one byte less than another read.
- `KillsBeforeReaping` of `Interactive` excepts a child that exited by itself, as
  `write` and `close` poll before the kill, and a second `close`.
- `WaitersAreWatched` excepts one wait of the later child: closing stdout while
  `read_line` waits leaves its key in the selector, and the kernel is not asked to
  watch the new file under the old number until that key is removed.
- `FalseMeansShort` has nothing of a rejected payload in the pipe only if it is
  written raw and is no larger than PIPE_BUF. A larger one can have been taken in
  part when the timeout passes, although `interactive_async.py:67` says that it
  never entered the pipe.
- `CancelHonoured` of `PodmanRun` excepts one await of a stream, of its cancelled
  stderr task: a cancellation of the caller that comes in there is taken for the
  task's own. And it is about Python 3.12 and later, but for what `Swallows`
  names: before, every `wait_for` of the body, and those of the cleanup once the
  client is reaped or `podman rm` has ended, may lose a cancellation.
- `RmMissesNothing` excepts a cidfile that the cleanup unlinked before
  `podman rm` looked, for its time limit or a cancellation.
- `ReleasedOnResult` says nothing of a sync run that raises: `KeyboardInterrupt`,
  or data that cannot be encoded, leaves the child running.

**Bounds.** Two descendants are the smallest number that lets one stay in the
group while another leaves it, and one fork from the other. Nothing else in
`AsyncRun` is bounded: cancellations are not counted. One descendant is enough
for the contract, which does not tell them apart, and for `SyncRun` and
`Interactive`, where the group only has to outlive the child; the proofs of all
three are for any set. `Uncancellable` bounds the length of the work
(`WorkSteps = 4`), which only has to outlast a few turns of the loop. `StdinFeed`
bounds the data (`MaxData = 12`) against a pipe of 5 and a buffer of 3: enough to
fill both more than once, to end on a full pipe, and to write in pieces of every
size. PIPE_BUF is 4, larger than the buffer as on Linux (4096 against 1024), or
2, smaller as on macOS (512): only then can the flush of the buffer itself be cut
short (`FlushBlocks`). `LineReader` has five bytes against reads of three, so
that a line spans two reads, two newlines come in one, and a read fetches more
than it hands on; the caps are nothing, less than a read, and a whole one.
`SyncRun` has three bytes of stdout and one of stderr against reads of two and a
`max_len` of one: a chunk that straddles the limit, one that comes after it, and
a pipe that ends while the other goes on. `Interactive` has a nice timeout of two
polls and two closes: the first to be cancelled or to finish, the second to
repeat it. `PodmanRun` has one call and one container, and no bound.

**Fairness.** The event loop runs every task that can go on, so the task of
`run`, the release task and the delivery of the watchdog's cancellation are
weakly fair, and time passes, so the timers are. The processes, the caller and
the memory limit owe nothing: `Returns` holds although no process ever exits and
none is ever killed. `GroupDies` has SIGKILL being carried out as its hypothesis
(`KernelFairness`). In `SyncRun` the same: `Run` and the timers are weakly fair,
the child is not. In `StdinFeed` giving up is strongly fair: the
sync `Interactive` never waits for the pipe but looks at the clock before every
sleep. The child that reads is not fair at all, nor are podman and the consumer
of a stream's lines. In `LineReader` the caller goes on calling, and `Look` is
strongly fair: each call has a timeout above zero, which leaves time for a look
at a pipe that is readable, although it may expire at any later moment. In
`Interactive` a close that has begun goes on and the time to reap passes.

`CHECK_DEADLOCK` is on everywhere; each module has a `Terminating` step that is
allowed only where the system may stop.

**Mutants.** Beside the definitions are plausible bugs (`KillChildOnly`,
`ChunkWithoutFirstByte`, `NoLoop`, ...). For each property of a passing run there
is one that breaks it when put in place of the definition it imitates.

## The proofs

`ProcessGroupProofs` has lemmas about `Child`'s operators and the kernel:
`KillGroupStopsAll`, `KernelStartsNothing` (no process joins a group in which
none runs), `KernelPidTaken` (the id is taken until the child is reaped).

`AsyncRunProofs` proves, for every set of descendants:

- `TypeCorrect`, `Released`, `KillsBeforeReapingAlways`, `KillIsNeverAnExitCode`;
- `CancelIsHonoured` and `Refinement`, both for `~WaitForSwallows`.

The only assumption is that the child is not one of its descendants. The
properties are not inductive. `IInv` adds what they rest on: where the release
task can be in each phase (`PhaseInv`); that after its kill nothing in the group
runs and the watchdog has stopped (`ReleaseInv`), which needs
`KernelStartsNothing`; that the id is taken while the child is not reaped, and
that a cancelled or timed out run has not reaped it yet when it kills
(`ReapInv`); that before the release only the watchdog kills, and has its
verdict ready when it has (`KillInv`); and that a cancellation is always
pending, absorbed or passed on (`CancelInv`), and never made up (`AskedInv`).
The refinement maps `Start` to `Acquire`, the end of the release to `LetGo`, the
return to `Answer`, and every other step to a stutter, because stdout stays open
until the release closes it. `ContractIsKept` says what is gained: every
behaviour of `RunContract` answers with nothing held, and never with a result to
a caller that cancelled. `WaitIsShielded` is the refinement of `ShieldedWait`.

Two theorems say how far what a finding or a version of Python breaks is true all
the same. `NoCancelIsForgotten` is about steps and holds for both versions: a
pending cancellation becomes the verdict or the reply or is absorbed, and
`CancelSwallowed` is the only step that drops one. `WatchIsKept`: until the
deadline no phase of a run with a limit is unwatched, unless the watchdog has
killed or failed, so that the gap of `async_run_watchdog_gap` is the time after the
deadline and no other (`WatchInv`: it lapses at the deadline only, and is not
cancelled before the release).

`CancellationProofs` is about what becomes of a cancellation, in two modules
that share no name (those of `Uncancellable` begin with `Shield` where
`PodmanRun` has the same). For `Uncancellable` it proves the type invariant,
`RunsToCompletion`, `TellsCancellation`, `AbsorbedHidesNothing` and
the refinement of `ShieldedWait` (`WaitIsImplemented`), for work of any length;
and of `ShieldedWait` itself that its `Promise` holds (`WaitPromises`).
`AwaitInv` adds that the future never says more of the work than is true
(`WorkInv`), and that a cancellation is always in one of three places: left word
of (`_must_cancel`), the end of the future awaited, or absorbed (`RequestInv`);
one that is not yet absorbed is recent (`RecentInv`).
In the refinement `ResumeCancelled` is `Absorb`, `ResumeDone` is `Return`, and
the callback of the shield is a stutter, but for work that the shutdown of the
loop cut off: that reaches the waiting task as one more cancellation.

For `PodmanRun` it proves the type invariant, `ContainerStopped`,
`RmMissesNothing`, `CancelHonoured`, `NothingStartsLate`, and
`OnlyCancelSkipsRm`: `podman rm` is run on every way out (`AlwaysRemoves`, which
`podman_run_skipped` refutes) but for a cancellation that is then the verdict
and the only mishap. `CallInv` adds that the client runs no longer than up to
the kill (`ClientInv`), that a running container is named in the cidfile as long
as the call lasts, so that a `podman rm` which found no name had nothing to stop
(`RmInv`), and, with the `wait_for` of 3.12, where a cancellation is
(`CancelInv`). `PodmanRun` has no constants: here the proofs give the argument,
not more instances.

`StdinFeedProofs` proves the type invariant, `SentIsPrefix`, `CountIsExact`,
`RawTrueMeansSent`, `FalseMeansShort` and `LossIsBounded`, for every amount of
data and every size of the pipe, of its atomic writes and of the BufferedWriter's
buffer. `IInv` adds that what is held back follows what was sent, number by number
(`OrderInv`); that the count is what was sent and what is held back, until
closing stdin drops the latter, which is no more than the buffer (`CountInv`);
that the raw file holds nothing back and a direct write finds the buffer empty
(`ModeInv`); and that the answer is about the count, final by then, which on the
raw file is all or nothing of a payload of up to PIPE_BUF (`AnswerInv`). The lemmas
are about data in order: a prefix, what is left behind it, and the two joined
(`DataAre`, `SendKeeps`, `DrainKeeps`).

`InteractiveProofs` proves the type invariant, `ReleasedOnClose`,
`KillsBeforeReaping`, `WaitersAreWatched` and `KilledLast`, for every set of
descendants and every nice timeout. `IInv` adds what close has done by each of
its phases (`CloseInv`), that nothing but close kills and that a first close finds
a child that was not killed (`ReapInv`), and, for the selector, that its key and
what the kernel watches agree with who waits: for our descriptor while our stdout
is open (`OursInv`), for the later one once no stale key is left (`LaterInv`).

`PipeReaderProofs` has lemmas about one read and one step of the child. They rest
on `BufferInv`: the reader holds no more than it has room for, and a call that
has got nothing has emptied it.

`SyncRunProofs` proves the type invariant, `KeepsFirstOrLast`, `EndsAtEofOnly`,
`OutputComplete`, `ReleasedOnResult` and `ExitIsSeen`, for every set of
descendants, amount of output, size of read and `max_output_size`. The heart of
the first is a lemma without state, `ExtendKeeps`: extending what is kept of `a`
bytes with those after them up to `b` gives what is to be kept of `b`. It follows
from what concatenation and `SubSeq` do to runs of consecutive numbers
(`BytesJoin`, `BytesPart`). `EndsAtEofOnly` rests on `ServedInv`: a pipe that is
still to be served is readable or has been read from in this call, so that a call
which got nothing is at the end of the file. `OutputComplete` follows from the two
and from `PhaseInv`, which says that a run past its collecting has no pipe left
unless its time was up. `ExitIsSeen` is a property of whole behaviours: from a
state where the child has exited in time every step stays in `SeenInTime`.

`LineReaderProofs` proves the type invariant, `LinesInOrder`, `LinesWhole`,
`RetentionBounded` and `WaitsWithoutLine`, for every output, placement of
newlines, size of read and cap. None is inductive alone. `SavedInv` adds that
what was deleted since the last line had no newline in it, and that the front of
the saved bytes is where the last line ended, or they have no newline and are at
least as many as the cap, or nothing is left to read (`Exhausted`: the only state
in which a line has ended with the file and not with a newline); and that a
stream keeps more than the cap only behind a line, of the read that ended it
(`StreamSaved`). The first newline
of a chunk is the minimum of a set: that there is one is `MinIs`, from the
well-foundedness of the naturals.

What is assumed: that the child is not one of its own descendants
(`KinAssumption`), that sizes and caps are naturals, that a read asks for at least
one byte (`PipeAssumption`), that lines are read from stdout (`OutAssumption`),
and that a pipe can hold what it takes atomically and the BufferedWriter at least
one unit (`SizeAssumption`). TLC evaluates all of these.

Every invariant, action property and refinement that a passing run checks is
proved. The type invariants are checked by TLC for `AsyncRun` only, and proved for
every module. Only model-checked are the liveness properties (`Returns`,
`GroupDies`, `Finishes`, `LinesArrive`, `Closes`), which the prover cannot handle
under fairness, and the four findings, which are counterexamples. Three of the
theorems (`NoCancelIsForgotten`, `WatchIsKept`, `RmIsSkippedForACancelOnly`) state
formulas that no run checks.

## Not modelled

- Memory accounting (`_sum_process_group_peak_rss_kb`) is pure input from `/proc`:
  the watchdog may find too much at any time there is something in the group.
- The argument builder of podman and the lazy package facade keep no state.
- How fast a child writes, and so how long the one pipe that is always served
  first may starve the other.
- Two `read_line` calls of one `Interactive` at the same time: its second wait
  replaces the reader of the first; the package does not offer that use.
- The `InvalidStateError` of an `add_reader` or `add_writer` callback on a future
  that is done already: the loop logs it and goes on.
- Signals other than SIGKILL, setuid descendants that cannot be killed,
  MemoryError, a `podman rm` that fails, a clock that goes backwards,
  KeyboardInterrupt anywhere but in the sync `run`, and, in `AsyncRun`, the
  shutdown of the loop (`Uncancellable` has it).
