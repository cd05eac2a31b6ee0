# Verification of the model downloader

TLA+ models of `opai_models`: a Python library and command line that download
whole model directories (many large files) through signed URLs, keep their
progress in an SQLite queue, and publish a finished directory with one rename.
Several worker tasks, in several processes, may share one queue; each of them may
be late, crash or be cancelled at any await.

Paths below are relative to `src/src/opai_models/` unless they say otherwise.

## Inventory

| Component | State it keeps | Operations | What is hard about it |
|---|---|---|---|
| Queue store, `manager.py:145` | tables of jobs, files, chunks, errors | enqueue, claim, heartbeat, save_snapshot, prepare_chunks, record_progress, record_error, record_job_error, schedule_retry, release, reset_file, update_file, mark_verifying, finish, request_cancel, retry, dismiss | calls of several owners in any order; fencing by token, by state, or both; counters kept beside the rows they count |
| Worker pool, `manager.py:920` | tasks, two registries of events | start, close, `_worker`, cancel | start, close and claim race; the registries are keyed by job, not by claim; a store that raises |
| Download execution, `manager.py:1088`, `async_client.py:219` | the local variables of `_execute`, `_heartbeat`, `_pull_job`; staging directory; destination | snapshot, resume, verify, mark, write SHA256SUMS, rename, finish, three ways to fail | awaits between a read and its use; lapsed leases; crashes; staging shared by all claims of a job |
| Range transfer, `download.py` | open file, set of completed chunks, cached access | ranges in parallel, retries, fsync and record under a lock | one task fails, or the call is cancelled, while the others run; the object is replaced; the descriptor is closed under a task |
| Directory synchronisation, `sync.py` | destination, staging, backup | compare, link, download, swap | three renames; restart on the leftovers of a crash; hard links into the directory readers use |
| Inventory, `snapshot.py`, `client.py` | pages of a listing | list, read metadata, ask for access, build the snapshot | a model that is replaced between two requests; a server that repeats itself |
| License transport, `client.py` | HTTP pool | access, read_small, listing | which answers are transient |
| Metadata, signatures, errors, CLI | none | parsing, verifying, redacting | pure |

How they interact: users call the manager, which calls the store in a thread and
sets in-process events. A worker claims a job from the store and runs `_execute`;
`_execute` starts a heartbeat task beside it and awaits `_pull_job`, which calls
the store (`record_progress`, ...) from the callbacks of the range tasks. All
state that survives a process is the database, the staging directories and the
destinations. The store and the file system are never changed in one step.

What makes each part correct:

* store: one owner at a time; a token that was replaced stays refused; a completed
  job has every file; terminal jobs stay terminal; cancellations end.
* execution: a run that has its claim is refused nothing; a chunk row speaks the truth about the disk; what is published is
  verified; a completed job is installed; every run ends; nothing verified is lost.
* range transfer: a chunk is recorded after its bytes are on the disk; a call that returns
  has the whole file of one object; counters follow the rows; every task ends.
* inventory: a snapshot is one published version.
* synchronisation: readers see the old directory or a complete new one; every call ends.

## Modules

| Module | What it is | Code |
|---|---|---|
| `QueueStore` | the store; one action per method, since each is one transaction | `manager.py:145-917` |
| `JobLifecycle` | abstract: what a client sees of a download | the states of `manager.py:34-47` |
| `PullJob` | workers, heartbeats, staging, destinations; EXTENDS `QueueStore` | `manager.py:1075-1288`, `async_client.py:219-433`, `download.py:274-378` |
| `RangeTransfer` | the range tasks of one call of `pull_file_with_state` | `download.py:31-378` |
| `Manifests` | model directories as SHA256SUMS describes them; constants and definitions only | |
| `Inventory` | a client that reads an inventory, the server, a publisher; EXTENDS `Manifests` | `snapshot.py:88-205`, `client.py:287-321` |
| `ModelDirectory` | abstract: what the readers of a directory are promised | `sync.py:57-256` |
| `SyncDirectory` | `sync_model` over three directories; EXTENDS `Inventory` | `sync.py:36-269` |
| `MCQueueStore`, `MCPullJob`, `MCRangeTransfer`, `MCSyncDirectory` | constants for TLC | |
| `Sums` | sums over finite sets: the facts the counters need, proved | |
| `QueueStoreProofs` | how a file is cut into ranges; types, ownership, completeness, counters, and what a step may not do, proved; EXTENDS `Sums` | |
| `LifecycleProofs` | `QueueStore` implements `JobLifecycle`, proved | |
| `PullProofs` | the workers use the store as `QueueStore` allows; types, retries, what a run without its claim cannot write, proved | |
| `DurableProofs` | what a chunk row says of the disk, proved; EXTENDS `PullProofs` | |
| `InstallProofs` | what is published and what is completed, which completed files are forgotten, how many runs a job has, and what a refused call means, proved; EXTENDS `DurableProofs` | |
| `TransferProofs` | what a call of `pull_file_with_state` promises, and its counter, proved | |
| `SyncProofs` | `Inventory` and `SyncDirectory`: snapshots, rehash, and the refinement of `ModelDirectory`, proved | |

### QueueStore

A variable is a column that some guard reads: `state`, `token` (claim_token and
worker_id, which are set together), `runs` (run_count), `lease`, `due`
(next_retry_at has passed), `snapshot`, `jobFiles`, `jobBytes`, `errors`,
and per file `fstate`, `fbytes`, `integrity`, `layout`, `done`. Fresh tokens
are drawn at random in the code; the model uses the number of the claim, so
`Issued(j)` is every token a job ever had. In `Next` any issued token may be
presented to any method at any time: this is every late, paused or fenced worker.

Two rules the store leaves to its callers are guards of `Next`, not of the
actions: progress is never recorded for a file that is completed
(`record_progress` does not recount completed_files), and only a worker that saw
`cancel_requested` finishes as cancelled. `PullJob` composes the same actions
without these guards, and the run `pull_late` checks `Spec` of `QueueStore` as a
property of it: the rules are kept by the workers, not assumed.

Time: `LeaseExpires` and `RetryDue` are the comparisons with the clock turning
true. `run_count` and `integrity_failures` have no bound in the code; `MaxRuns`
and `MaxIntegrity` bound them.

### PullJob

Each worker has a program counter that names the call it is about to await, and
`local`, the variables of `_execute` and `_pull_job` that outlive an await. A step is one
awaited call that writes, with the code up to the next, or a read with the reads that follow it. A
read that decides about a write is a step of its own before it: a completed file is looked at
(`NextFile`) and its row reset (`Forget`), the chunk rows are compared with the file
(`ResumeChunks`) and discarded (`DiscardChunks`), and whatever the other workers do may
come between. `Fenced` is the pattern "a
refused store call raises DownloadCancelled"; `Raise` enters the `except` clauses.

A file is the set of its ranges with the source's bytes, with other bytes, and
those not yet fsynced. Several workers may have one job: they share its staging
directory, and an open descriptor follows the directory through `os.replace`
(`open = "installed"`). `_prepare_partial` of a late worker creates the staging
directory again. Ranges of one file are written in any order and recorded one at
a time under the lock.

`Register` enters a run in the registries and `Leave` removes whatever the registry has
for the job. `Close` sets `_stop` and the shutdown events that are registered at that
moment, `CloseReturns` waits for the worker tasks, after which the manager is started again.
A run whose claim was in flight registers after that, is not told, and has no heartbeat,
as `_heartbeat` reads `_stop`. With the event "shutdown" all workers are one
process and crash together. `StoreFails` is an exception out of a store call: in
`_pull_job` it is a permanent failure, in `claim` and in the handlers it ends
the worker task.

The environment (`Events` selects) has: users who cancel, retry and dismiss;
workers that are late (their lease lapses while they run), crash, or are closed;
store calls that raise; requests that fail; deadline and no-progress timeouts; sources that serve
wrong bytes; partial files that vanish between two claims; power losses that
lose what no fsync covered; and power losses that undo a rename nobody fsynced.

### RangeTransfer

`call` is what `pull_file_with_state` awaits, `task[r]` what the task of a range awaits.
What lies between two awaits is one action, since all of them run on one event loop;
the body of a range arrives in `Blocks` blocks. Four things are modelled as the
code has them:

* `_blocking` (`Returns`, `WriteBlock`): a task that is cancelled during a system call
  performs it, then raises; an `OSError` of the call takes the place of the
  `CancelledError`, so the task goes on to retry.
* `_write_block` does not look at how many bytes `os.pwrite` has written. With a full
  disk (`Put`, event "full") the call may fail, or write the beginning of a block and succeed: the cell
  of the block is then "short", and the task goes on. Ranges recorded by earlier calls may have such cells.
* `gather` raises with the first failed task (`Gather`) and the `finally` clause closes the
  descriptor; the other tasks go on. Their system calls fail, or, after `ReuseDescriptor`,
  succeed on another file.
* `AccessProvider.get` (`GetAccess`) compares a refreshed access with the cached one; the
  server answers 412 to the URL of a replaced object. `remote` is the object now, `using[r]`
  the one behind the access and then the response of a task. A caller that does not
  verify checksums relies on `If-Match` among the required headers.

The caller is either kind of claim holder: `LoseClaim` makes the store refuse
`mark_complete` and `on_error`, and `CallerEnds` is the event that `_execute` sets when it ends,
which makes the tasks that outlived the call stop at their next `should_cancel`.

### Inventory, ModelDirectory, SyncDirectory

`Inventory` walks prefixes and pages, then reads SHA256SUMS, `.source.json` and one access
answer for each file, one request in each step; `PublisherStep` replaces the model
object by object, in any order, between any two of them. A cursor is the set of names
already returned; with the fault "repeat" the server may send a cursor again or list a prefix
under itself. `checksummed` says whether access answers carry a SHA-256.

`SyncDirectory` has the three directories of `sync_model`. A file is its content;
`linked` has the staged files that share an inode with the destination, so that
writing one without the `_remove` before it would change what readers see.
`Interrupted` ends a call at any step, as a failure, a cancellation or a crash would, and
leaves the directories as they are; `Call` starts the next one on them. `DownloadFails`
leaves a partial file. A backup beside a destination stops every call until
an operator removes it.

`ModelDirectory` has one variable, the directory readers see, and one step: for some
published version the directory becomes one with its SHA256SUMS, whose listed files are what that
manifest says or were kept since both manifests agree on them, and whose other
files are all kept or all gone. `Visible` maps to it: the destination, or the backup
while the destination is moved aside, which is also where the next call looks.

## Runs

| Run | Instance | Distinct states | What it shows |
|---|---|---|---|
| `queue_jobs` | two jobs, two models, one destination, two claims each | about 261,000 | `ClaimDiscipline`, `ClaimIsFresh`, `NoRevival`, `CancelCompletes`, and the refinement `ImplementsLifecycle` |
| `queue_files` | one job; files of 3 and 0 bytes; chunks of 1 or 2 bytes | about 57,000 | `TypeOK`, `CompletedIsWhole`, `CountersMatchRows`, `OwnerWritesRows` |
| `queue_retry` | as `queue_jobs` | violation | `OneActivePerDestination` |
| `pull_late` | two workers, one file of two chunks, two claims | about 621,000 | `PullTypeOK`, `RecordedIsDurable`, `CompletedIsInstalled`, `RetryIsExplained`, `RefusalMeansLost`, `VerifiedIsKept`, `FencedRunsWriteNothing`, and `Spec` of the store |
| `pull_faults` | one manager with one worker, a file of two chunks and an empty one, three claims, one close | about 271,000 | `PublishedIsVerified`, `RunEnds`, `CloseEnds` |
| `range_transfer` | two ranges of two blocks, two permits, two retries, every event | about 1,359,000 | `TransferTypeOK`, `RecordedUntilReuse`, `ReturnedIsWhole`, `CounterMatchesRecorded`, `TransferEnds` |
| `range_reuse` | three ranges of one block, two permits, no retry | violation | `RecordedIsWritten` |
| `sync_directory` | three names, one under a prefix; two versions of which the new one drops a file | about 488,000 | `SyncTypeOK`, `SnapshotIsOneManifest`, `RehashIsSound`, `ImplementsDirectory`, `SyncEnds` |
| `pull_recover` | one worker that may crash | violation | `RecoveredJobCanFinish` |
| `pull_torn` | two workers, late | violation | `PublishedHasSums` |
| `pull_cancel` | one worker, outage, cancel | violation | `CancelEndsCancelled` |
| `pull_dismiss` | two workers, late, cancel, dismiss | violation | `WorkersSurvive` |

Why the bounds are enough. Two jobs are the least that compete for a
destination and that one claim transaction can reap and take together. Two claims
of a job give one owner and one late owner; `pull_faults` has three, so that a run can
fail, recover and fail again. Three bytes in chunks of two give a full and a
short chunk; an empty file has no chunk. Two chunks are the least in which one is
recorded and the other is not.
`RunEnds` says of a corrupt source that each run that meets it ends; the bounds on claims and on integrity failures are
those of the instance, so that an endless sequence of such runs is not among its behaviours.

Two ranges are the least in which one task fails while the other is at
any of its steps, and two retries reach the attempt that refreshes the access. With two permits the
semaphore never makes a task wait; `range_reuse` has three ranges for two permits. Two
blocks put a write of a range before and after any event. In `sync_directory` one file
changes between the versions, one is the same and one is dropped; the first directory is sound or
has a changed file, with or without its SHA256SUMS. Any number of calls follow each other.

Deadlock checking is off: with bounded ids and
claims every instance ends in a state where all jobs are terminal, dismissed or
out of claims, a transfer ends, and a synchronisation that finds a backup waits for an operator.

### Fairness

`QueueStore`: workers poll for ever (`manager.py:1077`, with `poll_interval`
as the longest sleep), and the lease of a job in `cancel_requested` runs out, as
`heartbeat` refuses to renew it. Nothing is assumed of users or of the holders of
tokens. `PullJob`: an event loop runs every task that can run (`WorkerStep`,
`WorkerPoll`), and a lease that no running worker renews runs out. Crashes,
outages and users are never fair. Heartbeats are not assumed to happen either. `CloseReturns`
is the `gather` over worker tasks that have ended. `RangeTransfer`: the event loop runs
each task, every request is answered or reaches its timeout, and every thread returns.
`SyncDirectory`: the step a call awaits is taken; the publisher, interruptions, new calls and
the operator are not fair.

### Findings

The violation runs show places where the code and its documents or tests differ:

1. `queue_retry`: `retry` (`manager.py:880`) has no look at the destination.
   After a failed job, another model may take the destination, and a retry makes both active.
2. `pull_recover`: the branch for an existing destination returns without
   `mark_verifying` (`async_client.py:261`), so `finish("completed")` is refused and the
   job is released and claimed for ever.
3. `pull_torn`: the check of the claim and `os.replace` are two steps, and
   staging is shared; a late worker can publish a directory whose SHA256SUMS the
   new owner has just truncated.
4. `pull_cancel`: the handler settles a failure from a state it read before; a
   cancellation that comes between ends as `failed`.
5. `pull_dismiss`: `store.get` in the handlers raises for a dismissed job, and
   the exception ends the worker task.
6. `range_reuse`: when one range fails, its siblings outlive the call and the descriptor
   (`download.py:365`, `download.py:370`). Once the number is reused (the store opens SQLite for every
   call), a sibling writes and fsyncs the other file and records its chunk, though the range is
   not in the partial file. Until then the siblings are harmless (`RecordedUntilReuse`).

## What is proved

For every value of the constants, under the assumptions named in the modules: of `QueueStore` (job ids are
naturals, the set of files is finite and not empty, sizes are naturals, chunk sizes
are positive); of `PullJob` (its chunk size is one of those sizes, the events are among those
modelled, the number of retries is a natural number); of `RangeTransfer` (the set of ranges is finite, the
number of blocks is positive); of `Manifests`,
`Inventory` and `SyncDirectory` (manifests are functions from names to contents, "none" is
none of either, `.source.json` has a name, the two published versions exist, the first directory is one of
names, contents and versions).

| Theorem | Statement |
|---|---|
| `RangesPartition` | the ranges of `_ranges` lie in the file and cover each of its bytes exactly once, for every size and chunk size |
| `RangesAddUp` | the lengths of all ranges of a file add up to its size, those of a proper subset to less |
| `TypeCorrect` | `Spec => []TypeOK` |
| `ClaimDisciplined` | `Spec => []ClaimDiscipline` |
| `CompletedWhole` | `Spec => []CompletedIsWhole` |
| `CountersMatch` | `Spec => []CountersMatchRows` |
| `CountersDecide` | `Spec => []` of: `AllCounted(j)` exactly when the snapshot of `j` is saved and every file row is completed |
| `FreshClaims` | `Spec => ClaimIsFresh` |
| `NeverRevived` | `Spec => NoRevival` |
| `OwnerWrites` | `Spec => OwnerWritesRows` |
| `StoreImplementsLifecycle` | `Spec => ImplementsLifecycle` |
| `PullRefinesQueue` | `PullSpec => Spec` |
| `PullImplementsLifecycle` | `PullSpec => ImplementsLifecycle` |
| `PullTypeCorrect` | `PullSpec => []PullTypeOK` |
| `RetriesExplained` | `PullSpec => []RetryIsExplained` |
| `FencedWriteNothing` | `PullSpec => FencedRunsWriteNothing` |
| `RecordedDurable` | `PullSpec => []RecordedIsDurable`, if no rename is lost |
| `PublishedVerified` | `PullSpec /\ []Harmless => []PublishedIsVerified`, if no rename is lost |
| `CompletedInstalled` | `PullSpec /\ []Harmless => []CompletedIsInstalled`, if no rename is lost |
| `VerifiedKept` | `PullSpec /\ []Harmless => VerifiedIsKept`, if no rename is lost |
| `RunsAreSole` | `PullSpec => []SoleRuns`, if no lease runs out under a run that goes on |
| `VerifiedAndInstalled` | `PullSpec => [](PublishedIsVerified /\ CompletedIsInstalled)`, if no rename is lost, and the source serves the right bytes, or no lease runs out under a run, or there is one worker |
| `RefusalsExplained` | `PullSpec => []RefusalMeansLost` |
| `RecordedUntilReused` | `TransferSpec => []RecordedUntilReuse` |
| `ReturnedWhole` | `TransferSpec => []ReturnedIsWhole` |
| `TransferTypes` | `TransferSpec => []TransferTypeOK` |
| `CounterMatches` | `TransferSpec => []CounterMatchesRecorded` |
| `SyncTypes` | `SyncSpec => []SyncTypeOK` |
| `SnapshotsAreOne` | `SyncSpec => []SnapshotIsOneManifest` |
| `RehashSound` | `SyncSpec => []RehashIsSound` |
| `SyncImplementsDirectory` | `SyncSpec => ImplementsDirectory` |

The argument. `RangesPartition` is arithmetic: two multiples of the chunk size are at least one chunk
apart (`Multiples`), and every byte has one at or below it less than a chunk away (`Floor`). It is what lets
`PullJob` and `RangeTransfer` speak of a file as the set of its ranges. `ClaimDiscipline` is inductive once types are known. `CompletedIsWhole`
is not: `finish` compares the counter of the job row, so the invariant `QueueInv`
adds that the counter equals the number of completed rows. That in turn needs
that `save_snapshot`, which replaces the rows and leaves the counter as it is,
runs only in a job without rows (a job is `snapshotting` only without a
snapshot), and that a job that is completed has no token, so that no late call
reaches its rows. `FullCount` then turns "the counter is full" into "every file is
completed" with a fact about finite sets. `CountInv` adds the bytes: a job without a snapshot has none, so that
`save_snapshot` leaves nothing to recount, and no row has more bytes than its file. With it the two counters that
`finish` and `mark_verifying` compare are full exactly when all rows are completed (`CountersDecide`). Sums over sets are
what needs induction, which the provers do not do over an operator; `Sums` has the few facts by a least
counterexample on the cardinality instead (a sum changes by what changes at one element; equal sums of smaller
parts are equal part by part), and `RangesAddUp` by one on the size of the file. The action properties follow from
`QueueInv` and one step. The refinement maps states to phases and file
rows to the set of completed files; each action is a step of
`JobLifecycle` or a stutter, and a poll, which reaps any number of cancellations and starts
one job, is the abstract `Acknowledge`.

`PullInv` of `PullProofs` is about workers that read the queue, give up control and act on what they
read. `Rooted` and `OneRun`: a run's token was issued for its job, and two runs of one job have
different tokens, so that a token that was replaced never becomes current again. `Intact`: while
a token is current, nobody but its holder changes the rows of the job, except that a user asks for a
cancellation. `RunInv`: what a run carries in `todo`, `kept` and `have` is therefore what the rows say
as long as its claim is current; when it is not, the store refuses the call and nothing follows from
what the run carries (`FencedWriteNothing`). `Calls` lists the store calls that get through, and `StepIsQueueStep`
shows that each is one that `Next` allows: this is where the two rules that `QueueStore` leaves to its callers are
proved of the callers. With `PullSpec => Spec` every theorem about the store holds of the workers.

`DurableInv` of `DurableProofs` adds the disk. `TargetInv`: the destination and the model
a run was started with are those of its job as long as the job exists. `OpenInv`: the ranges a run found in the
queue are durable in the file it has open, and those it wrote are in that file; this holds under a claim
that is lost too, since late runs record nothing but go on writing. `StagedInv`: every chunk row
is durable in staging or in the installed directory. A file goes away only by the rename that publishes
it, or when no worker has the job (`StagedStep`). With a rename that is undone the staging directory
comes back as an older one, hence the condition.

`InstallInv` of `InstallProofs` goes on to files and jobs. A file that was verified is whole and durable
and stays so in staging; a run whose claim is current has settled every file it no longer has to do
(`RowInv`); once `mark_verifying` was accepted all files are settled, and stay so even when the run is late from
then on, which matters because the rename that follows asks nobody (`Ready`); a destination that exists
holds the whole model, with no byte that a power loss takes (`PlaceInv`).

The same invariant answers what may become of a completed file between the look at its copy and the reset of its row.
A file that is completed and has a copy in staging has a sound one (`RowInv`), so the look finds nothing wrong but
a missing copy, and it stays missing until the reset (`Missing`): a file that is completed is not transferred by any run
that goes on (`Present`), as one that would create it again came to it when it was not completed, and left it there.
This holds while the destination is free. Afterwards it does not, and the code does not either: when a late run has published
the directory, another late run can create the file again and write it, and the reset then takes a sound file back.
`VerifiedIsKept` therefore speaks of jobs whose destination is free. In the other case the job cannot publish any more, and
the files it downloads again are lost work only.

Bytes that are wrong are kept out by the hash alone, which is taken once, so a file that has hashed must not be
written again. `Harmless` is the condition for that: the source serves the snapshot's bytes, or no job has two
runs at once (`SoleRuns`), that is, no lease runs out under a run that goes on. With one run, a file is hashed when
its transfer is over (`Transferred`), which leaves it settled or gets it reset, and what that run will still
transfer is not completed and lies in a directory that is still in staging (`Unshared`); with the right bytes, a late
write puts the same bytes again. `Harmless` is a condition on the behaviour, not on the constants: late workers,
crashes and outages are all allowed under it. `VerifiedAndInstalled` names three kinds of instance that always
meet it: right bytes, a single worker, and, by `RunsAreSole`, workers that are never late.
`SoleInv` is the invariant of that last one. A run that goes on has its claim, unless its job was cancelled and perhaps
dismissed; it is told to stop by nothing but a cancellation or a `close`; and a lease runs out only under a run that was told, after
which no worker can claim the job: a cancelled job is not claimed, and a manager that closes does not poll. TLC
checked it with two workers on one job, with and without `close`.

Both conditions of the theorems are needed: TLC finds a violation without either. With two runs of one job and a source that serves wrong bytes, the late run overwrites
a range of a file that the new owner has hashed. With a lost rename, a completed job's
destination is gone; and a run of a dismissed job can publish a directory whose staged copy a second job for the
same model and destination adopts once the rename is undone: the copy counts as verified, is not
fsynced again, and a power loss after the second rename takes its bytes.
`pull_faults` checks `PublishedIsVerified` where the theorem says nothing, with wrong
bytes and lost renames together for a single worker.

`RefusalMeansLost` is about the other way a download can fail to end. The code takes every refused store call for a
lost lease ("download lease was lost") and releases the job at once, without an error row or a delay, so that a
refusal met by a run that still has its claim would be met again by the next one, for ever; this is what
finding 2 is. `AbreastInv` says that the row is where the run takes it to be: `downloading` from the rows read
to `mark_verifying`, with every file completed that the run does not have to transfer, and `verifying`, with all of
them, after it. It holds while the claim is current and no cancellation was requested, whatever earlier runs left and
late ones do (`Intact`). Then the counters that `mark_verifying` and `finish` compare are full
(`CountersDecide`), and the bytes of a `record_progress` fit the file (`RangesAddUp`).

`TransferInv` of `TransferProofs` says what each place of a task knows: a range that is
still being fetched is in no chunk row, so that a write never makes a recorded block
dirty again; a range that waits for the lock has all its blocks written; and the
descriptor is open exactly between `OpenPartial` and `CloseDescriptor`, so that fsync of
an open descriptor covers all of it. A block that was "written" is the object's, or short where the disk can be
full: of what a call returns without a hash no more is true than that, and `ReturnedIsWhole` says no more. That a call without a hash returns one object rests on the
cached access being the snapshot's from the first to the last request.
`RowsInv` adds what the lock gives: one task at a time counts the completed ranges and records, so the number
it counts is the number of chunk rows after its record. A range can be completed and not recorded only when its
task is still at it, the claim is lost, or every task that still runs is cancelled or finds the descriptor closed;
a later task then either is refused or does not reach its record.

`SyncInv` of `SyncProofs` has three parts: what the requests of the walk established so far;
which directories are there in which phase; and what each phase knows about the staging
directory (a listed file that was handled is `Good`: it has the manifest's bytes or was kept on the
word of both manifests; after pruning, unlisted files are all the old ones or all gone). Each lemma shows for one step
that the parts are kept and `Visible` does not change; `MovedIn` shows what the one visible step publishes.
TLC checked both invariants on the instances of the runs before they were proved.

Only model-checked: the liveness properties (`CancelCompletes`, `RunEnds`, `CloseEnds`,
`TransferEnds`, `SyncEnds`), since TLAPS proves no fairness; and `PublishedIsVerified` for one worker under lost renames.

## Abstractions

* All jobs have one file set; files lie at the top level of the model. Paths, symbolic links and
  hashes are not represented: a hash is right exactly when every range is.
* Checksums are verified, signatures are not (`verify_signatures=False`).
* The two hash passes after a transfer (`download.py:376`, `async_client.py:361`) are
  one step, and reads that follow each other with no write of the run between them are one step: the three of `ReadRows`,
  the two of `CheckDestination`, of `NextFile` (exists and size, hash) and of `ResumeChunks` (chunk rows, file). A hash is
  taken in one step, though other runs may write while it reads.
* In `PullJob` a range is whole or bad. One with a block cut off by a full disk is a bad range like one
  the source served wrong, so "badbytes" and the "right bytes" of `Harmless` exclude or include both;
  `RangeTransfer` tells them apart. What earlier calls recorded is on the disk when a call of
  `RangeTransfer` starts; `PullJob` is about that (`RecordedIsDurable`).
* `update_file` is called with `completed` and the expected size only, as its callers do.
* `consecutive_failures`, rates and timestamps only scale delays or inform; a delay
  is any time. `started_at` and `last_progress_at` become the events
  `deadline` and `stall`.
* A power loss loses all ranges no fsync covered, and never half of a range that was durable.
* In `PullJob` a worker is one sequence of steps: after a failed range its sibling tasks
  are not followed; `RangeTransfer` follows them, within one call.
* In `Inventory` all objects of one name have the same size, so that only hashes tell them
  apart (where access answers carry no SHA-256, `checksummed = FALSE`, they may belong to another version, and
  the property says so); checksums are verified, and version 2 of `.source.json` lists its files.
  In `SyncDirectory` the download of a file is one step that gets the file, or a failure that leaves
  a partial one; tasks that outlive a failed download are in `RangeTransfer`. Signatures are not verified
  and calls for one directory follow each other. The arguments `rehash` and `delete` are chosen when they are
  first read.
* `errors` is the set of runs that left a row.

Three effects the models show that no run states as a violation. A short `os.pwrite` on a disk that fills up is fsynced and
recorded as a whole chunk, which is not what `docs/requirements.md:118` says, and a caller that verifies no checksums
is given the file: with `Events = {"full"}`, `RangeTransfer` returns a file that does not hash after seven steps.
`RecordedUntilReuse` and `ReturnedIsWhole` say how far it goes, and a hash finds it. After a late run has published the
directory of a job, a completed file whose copy another late run has created again can be forgotten, against
the words of `docs/requirements.md:284`; this takes three claims of one job. And after `lostrename` a completed
job's destination is absent: `docs/requirements.md:374` asks to flush directory metadata only "as supported by the
platform", and once the destination is gone `PublishedIsVerified` has nothing to say of it.

Effects that no document speaks of: with `late` and `badbytes` together a late worker can overwrite a range
of a file the new owner has already published; a call of `pull_file_with_state` that is
cancelled while it opens its file never closes it; after a synchronisation that was cut short while it
linked extra files, every later one fails on them (`os.link` finds the name taken) until the
staging directory is removed; `close` waits for a run whose claim was in flight without telling it to
stop.

## Not modelled

* Two synchronisations of one directory at once: nothing in the code keeps them apart.
* Signatures (`signatures.py`, the branches of `snapshot.py:166` and `sync.py:224`): a call into a library.
* Parsing and validation of SHA256SUMS, `.source.json`, paths, URLs and headers
  (`metadata.py`, `client.py:84-121`): pure functions without state; unit tests reach them. One thing such a test
  should add: a path with U+0085, U+2028 or U+2029 is safe for `safe_relative_path` and rendered, but
  `parse_sha256sums` (`metadata.py:312`, `str.splitlines`) splits its line in two and refuses the document.
* The command line, which consumes the manager, and the redaction of error texts.

## Plan

Done: `QueueStore`, `JobLifecycle`, `PullJob` with the manager around its workers, `RangeTransfer`,
`Inventory`, `ModelDirectory`, `SyncDirectory`, their runs, and the proofs about the store, the workers, the
range transfer and the synchronisation.

Left, in this order:

1. `PublishedIsVerified` under lost renames: for which set of jobs and workers it holds, and why.
2. An instance of `PullJob` with two runs of one job under `close`.
3. Signatures in `SyncDirectory`: the old signature is linked or dropped with the manifest.
