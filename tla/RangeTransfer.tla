---------------------------- MODULE RangeTransfer ----------------------------
(***************************************************************************)
(* One call of pull_file_with_state of download.py: the ranges of one file *)
(* are fetched by concurrent tasks that share a descriptor, a semaphore, a *)
(* lock, an AccessProvider and the set of completed chunks.                *)
(*                                                                         *)
(* The tasks and the call are coroutines of one event loop: what lies      *)
(* between two awaits is one action.  _blocking runs a system call in a    *)
(* thread and, when its task is cancelled meanwhile, waits for it and then *)
(* raises, so a cancelled task still performs the call it is in.  When one *)
(* task fails, asyncio.gather raises at once and leaves the others         *)
(* running: the descriptor is closed under them, and the operating system  *)
(* may hand its number to the next file the process opens.                 *)
(***************************************************************************)
EXTENDS Naturals, FiniteSets

CONSTANTS
    Indexes,        \* the chunk indexes of the file
    Blocks,         \* blocks in which the body of one range arrives
    Permits,        \* workers: permits of the semaphore
    RequestRetries, \* request_retries
    Events          \* which of the environment's events this instance has

AllEvents == {"http", "full", "stop", "late", "settle", "cancelcall", "replace", "reuse"}

ASSUME IndexesAssumption  == IsFiniteSet(Indexes)
ASSUME BlocksAssumption   == Blocks \in Nat \ {0}
ASSUME PermitsAssumption  == Permits \in Nat \ {0}
ASSUME AttemptsAssumption == RequestRetries \in Nat
ASSUME EventsAssumption   == Events \subseteq AllEvents

VARIABLES
    call,      \* what pull_file_with_state awaits
    task,      \* what the transfer task of each range awaits
    attempt,   \* attempt of its _download_range
    block,     \* blocks written in this attempt
    using,     \* the object behind the access, then behind the response, of a task
    cancelled, \* tasks with a CancelledError that is not delivered yet
    descriptor,\* "none", "open", "closed", or "other": its number names another file
    cached,    \* the object behind AccessProvider._access
    remote,    \* the object the server has
    verify,    \* verify_checksum
    stop,      \* what should_cancel returns
    claim,     \* whether the store still accepts the claim of the caller
    content,   \* the bytes of each block of the partial file: of an object, or "short" when
               \* a write ended inside the block
    dirty,     \* blocks that no fsync has covered since they were written
    completed, \* completed_chunks
    bytes,     \* completed_bytes, as each task computed it
    recorded,  \* the chunk rows of the store
    counter    \* completed_bytes of the file row

taskVars   == <<task, attempt, block, using, cancelled>>
accessVars == <<cached, remote, verify>>
callerVars == <<stop, claim>>
fileVars   == <<content, dirty>>
rowVars    == <<completed, bytes, recorded, counter>>
transferVars == <<call, descriptor, taskVars, accessVars, callerVars, fileVars, rowVars>>

Cells == Indexes \X (1 .. Blocks)
BlocksOf(r) == {r} \X (1 .. Blocks)

Objects == {"v1", "v2"}         \* "v1" is the one of the snapshot
Ended   == {"none", "done", "failed"}
Inside(r)  == task[r] \notin Ended \cup {"wait"}
Locked(r)  == task[r] \in {"sync", "mark"}
Running(r) == task[r] \notin Ended

Step(r, label) == task' = [task EXCEPT ![r] = label]

TransferTypeOK ==
    /\ call \in {"access", "open", "gather", "sync", "close", "abort", "check",
                 "returned", "raised"}
    /\ task \in [Indexes -> Ended \cup {"wait", "begin", "request", "stream", "write",
                                        "retry", "lock", "sync", "mark"}]
    /\ attempt \in [Indexes -> 0 .. RequestRetries]
    /\ block \in [Indexes -> 0 .. Blocks]
    /\ using \in [Indexes -> Objects \cup {"none"}]
    /\ cancelled \subseteq Indexes
    /\ descriptor \in {"none", "open", "closed", "other"}
    /\ cached \in Objects \cup {"none"} /\ remote \in Objects
    /\ verify \in BOOLEAN /\ stop \in BOOLEAN /\ claim \in BOOLEAN
    /\ content \in [Cells -> Objects \cup {"zeros", "short"}] /\ dirty \subseteq Cells
    /\ completed \subseteq Indexes /\ recorded \subseteq Indexes
    /\ bytes \in [Indexes -> 0 .. Cardinality(Indexes)]
    /\ counter \in 0 .. Cardinality(Indexes)
    /\ Cardinality({r \in Indexes : Inside(r)}) <= Permits
    /\ Cardinality({r \in Indexes : Locked(r)}) <= 1

-----------------------------------------------------------------------------
(* pull_file_with_state, around the tasks.                                 *)

\* The first access must still be the object of the snapshot.
FirstAccess ==
    /\ call = "access"
    /\ \/ call' = (IF remote = "v1" THEN "open" ELSE "raised") /\ cached' = remote
       \/ "http" \in Events /\ call' = "raised" /\ UNCHANGED cached
    /\ UNCHANGED <<descriptor, taskVars, remote, verify, callerVars, fileVars, rowVars>>

\* _prepare_partial, and one task for each range that is not completed.  A call
\* cancelled meanwhile loses the descriptor it has opened.
OpenPartial ==
    /\ call = "open"
    /\ \/ /\ call' = "gather" /\ descriptor' = "open"
          /\ task' = [r \in Indexes |-> IF r \in completed THEN "done" ELSE "wait"]
       \/ /\ "cancelcall" \in Events /\ call' = "raised" /\ descriptor' = "open"
          /\ UNCHANGED task
       \/ /\ "full" \in Events /\ call' = "raised" /\ UNCHANGED <<descriptor, task>>
    /\ UNCHANGED <<attempt, block, using, cancelled, accessVars, callerVars, fileVars, rowVars>>

\* asyncio.gather: all tasks returned, or one of them raised.
Gather ==
    /\ call = "gather"
    /\ \/ (\A r \in Indexes : task[r] = "done") /\ call' = "sync"
       \/ (\E r \in Indexes : task[r] = "failed") /\ call' = "abort"
    /\ UNCHANGED <<descriptor, taskVars, accessVars, callerVars, fileVars, rowVars>>

FinalSync ==
    /\ call = "sync"
    /\ \/ call' = "close" /\ dirty' = {}
       \/ "full" \in Events /\ call' = "abort" /\ UNCHANGED dirty
    /\ UNCHANGED <<descriptor, taskVars, accessVars, callerVars, content, rowVars>>

\* The finally clause.
CloseDescriptor ==
    /\ call \in {"close", "abort"}
    /\ call' = IF call = "close" THEN "check" ELSE "raised"
    /\ descriptor' = "closed"
    /\ UNCHANGED <<taskVars, accessVars, callerVars, fileVars, rowVars>>

HashMatches == \A c \in Cells : content[c] = "v1"

FinalCheck ==
    /\ call = "check"
    /\ call' = IF verify => HashMatches THEN "returned" ELSE "raised"
    /\ UNCHANGED <<descriptor, taskVars, accessVars, callerVars, fileVars, rowVars>>

-----------------------------------------------------------------------------
(* transfer and _download_range, the task of range r.                      *)

\* _download_range is left, and its local variables are gone.
Left(r) ==
    /\ attempt' = [attempt EXCEPT ![r] = 0]
    /\ block' = [block EXCEPT ![r] = 0]
    /\ using' = [using EXCEPT ![r] = "none"]

\* Any exception that leaves _download_range or transfer.
Fail(r) == Step(r, "failed") /\ Left(r)

\* A CancelledError is delivered at an await that is not _blocking's; that of
\* mark_complete may drop the call of the store before its thread has begun.
Deliver(r) ==
    /\ r \in cancelled
    /\ task[r] \in {"wait", "begin", "request", "stream", "retry", "lock", "mark"}
    /\ cancelled' = cancelled \ {r}
    /\ Fail(r)
    /\ UNCHANGED <<call, descriptor, accessVars, callerVars, fileVars, rowVars>>

Enter(r) ==
    /\ task[r] = "wait"
    /\ Cardinality({s \in Indexes : Inside(s)}) < Permits
    /\ Step(r, "begin")
    /\ UNCHANGED <<call, descriptor, attempt, block, using, cancelled, accessVars,
                   callerVars, fileVars, rowVars>>

\* AccessProvider.get: the answer to a refresh must describe the same object.  Its
\* lock makes the whole of it one step.  A client.access that raises ends the task.
Mutant_NeverChanged(new) == FALSE
Changed(new) == cached # "none" /\ new # cached

GetAccess(r, refresh, next) ==
    IF ~ refresh
    THEN Step(r, next) /\ using' = [using EXCEPT ![r] = cached] /\ UNCHANGED <<cached, attempt, block>>
    ELSE \/ Changed(remote) /\ Fail(r) /\ UNCHANGED cached
         \/ /\ ~ Changed(remote)
            /\ cached' = remote
            /\ Step(r, next) /\ using' = [using EXCEPT ![r] = remote]
            /\ UNCHANGED <<attempt, block>>
         \/ "http" \in Events /\ Fail(r) /\ UNCHANGED cached

Begin(r) ==
    /\ task[r] = "begin"
    /\ IF stop THEN Fail(r) /\ UNCHANGED cached
       ELSE GetAccess(r, attempt[r] > 0 /\ attempt[r] % 2 = 0, "request")
    /\ UNCHANGED <<call, descriptor, cancelled, remote, verify, callerVars, fileVars, rowVars>>

\* The status line: 206; 412 when the object is no longer the one of the access;
\* another permanent status; 401 or 403, after which the access is refreshed; another
\* temporary status or a network failure.  A caller that does not verify relies on 412.
Request(r) ==
    /\ task[r] = "request"
    /\ \/ /\ using[r] = remote \/ verify
          /\ Step(r, "stream")
          /\ block' = [block EXCEPT ![r] = 0]
          /\ using' = [using EXCEPT ![r] = remote]
          /\ UNCHANGED <<attempt, cached>>
       \/ using[r] # remote /\ Fail(r) /\ UNCHANGED cached
       \/ /\ "http" \in Events
          /\ \/ Fail(r) /\ UNCHANGED cached
             \/ GetAccess(r, TRUE, "retry")
             \/ Step(r, "retry") /\ UNCHANGED <<attempt, block, using, cached>>
    /\ UNCHANGED <<call, descriptor, cancelled, remote, verify, callerVars, fileVars, rowVars>>

\* The next block of the body, or its end: should_cancel is asked for each block.
Receive(r) ==
    /\ task[r] = "stream"
    /\ \/ stop /\ block[r] < Blocks /\ Fail(r)
       \/ ~ stop /\ block[r] < Blocks /\ Step(r, "write") /\ UNCHANGED <<attempt, block, using>>
       \/ block[r] = Blocks /\ Step(r, "lock") /\ Left(r)
       \/ "http" \in Events /\ block[r] < Blocks
            /\ Step(r, "retry") /\ UNCHANGED <<attempt, block, using>>
    /\ UNCHANGED <<call, descriptor, cancelled, accessVars, callerVars, fileVars, rowVars>>

\* A system call of r that returned: the task goes on, or is cancelled now.
Returns(r, next) ==
    /\ IF r \in cancelled THEN Fail(r) ELSE next
    /\ cancelled' = cancelled \ {r}

\* What os.pwrite makes of a block: on a disk that fills up it writes the first bytes and
\* returns how many, which _write_block does not look at; the last bytes stay as they were.
Put(old, object) ==
    {object} \cup {cut \in {"short"} : "full" \in Events /\ old # object}

\* os.pwrite on the number of the descriptor.  Its OSError takes the place of the
\* CancelledError that _blocking was about to raise.
WriteBlock(r) ==
    LET cell == <<r, block[r] + 1>> IN
        /\ task[r] = "write"
        /\ \/ /\ descriptor \in {"open", "other"}
              /\ Returns(r, /\ Step(r, "stream") /\ block' = [block EXCEPT ![r] = @ + 1]
                            /\ UNCHANGED <<attempt, using>>)
              /\ IF descriptor = "open"
                 THEN /\ \E written \in Put(content[cell], using[r]) :
                            content' = [content EXCEPT ![cell] = written]
                      /\ dirty' = dirty \cup {cell}
                 ELSE UNCHANGED fileVars
           \/ /\ descriptor = "closed"
              /\ Step(r, "retry") /\ cancelled' = cancelled \ {r}
              /\ UNCHANGED <<attempt, block, using, fileVars>>
           \/ /\ "full" \in Events
              /\ Fail(r) /\ cancelled' = cancelled \ {r}
              /\ UNCHANGED fileVars
        /\ UNCHANGED <<call, descriptor, accessVars, callerVars, rowVars>>

\* on_error, then the backoff; a refused on_error raises DownloadCancelled.
Mutant_AttemptIsFree(r) == attempt
NextAttempt(r) == [attempt EXCEPT ![r] = @ + 1]

Retry(r) ==
    /\ task[r] = "retry"
    /\ IF claim /\ attempt[r] < RequestRetries
       THEN Step(r, "begin") /\ attempt' = NextAttempt(r) /\ UNCHANGED <<block, using>>
       ELSE Fail(r)
    /\ UNCHANGED <<call, descriptor, cancelled, accessVars, callerVars, fileVars, rowVars>>

Mutant_NoLock == TRUE
LockIsFree == \A s \in Indexes : ~ Locked(s)

Lock(r) ==
    /\ task[r] = "lock" /\ LockIsFree
    /\ Step(r, "sync")
    /\ UNCHANGED <<call, descriptor, attempt, block, using, cancelled, accessVars,
                   callerVars, fileVars, rowVars>>

\* os.fsync of what the number of the descriptor names, then completed_chunks.
Mutant_NothingSynced == UNCHANGED dirty
Flushed == IF descriptor = "open" THEN dirty' = {} ELSE UNCHANGED dirty

SyncFile(r) ==
    /\ task[r] = "sync"
    /\ \/ /\ descriptor = "closed" \/ "full" \in Events
          /\ Fail(r) /\ cancelled' = cancelled \ {r}
          /\ UNCHANGED <<dirty, completed, bytes>>
       \/ /\ descriptor # "closed"
          /\ Flushed
          /\ Returns(r, Step(r, "mark") /\ UNCHANGED <<attempt, block, using>>)
          /\ IF r \in cancelled THEN UNCHANGED <<completed, bytes>>
             ELSE /\ completed' = completed \cup {r}
                  /\ bytes' = [bytes EXCEPT ![r] = Cardinality(completed')]
    /\ UNCHANGED <<call, descriptor, accessVars, callerVars, content, recorded, counter>>

\* mark_complete: record_progress in a thread, refused when the claim is lost.
MarkComplete(r) ==
    /\ task[r] = "mark"
    /\ IF claim
       THEN /\ recorded' = recorded \cup {r} /\ counter' = bytes[r]
            /\ Returns(r, Step(r, "done") /\ UNCHANGED <<attempt, block, using>>)
       ELSE Fail(r) /\ cancelled' = cancelled \ {r} /\ UNCHANGED <<recorded, counter>>
    /\ UNCHANGED <<call, descriptor, accessVars, callerVars, fileVars, completed, bytes>>

-----------------------------------------------------------------------------
(* The caller, the server and the process.                                 *)

\* The host application cancels the coroutine; gather cancels every task.
CancelCall ==
    /\ "cancelcall" \in Events
    /\ \/ /\ call = "gather" /\ cancelled = {}
          /\ \A r \in Indexes : task[r] # "failed"
          /\ cancelled' = {r \in Indexes : Running(r)}
          /\ UNCHANGED call
       \/ /\ call \in {"access", "sync", "check"}
          /\ call' = IF call = "sync" THEN "abort" ELSE "raised"
          /\ UNCHANGED cancelled
    /\ UNCHANGED <<descriptor, task, attempt, block, using, accessVars, callerVars,
                   fileVars, rowVars>>

\* should_cancel turns true: a cancellation, a shutdown, a lost lease, a deadline.
AskToStop ==
    /\ "stop" \in Events /\ ~ stop /\ stop' = TRUE
    /\ UNCHANGED <<call, descriptor, taskVars, accessVars, claim, fileVars, rowVars>>

LoseClaim ==
    /\ claim /\ claim' = FALSE
    /\ "late" \in Events \/ ("settle" \in Events /\ call = "raised")
    /\ UNCHANGED <<call, descriptor, taskVars, accessVars, stop, fileVars, rowVars>>

\* _execute, once it has given up its claim, sets the event that should_cancel reads.
CallerEnds ==
    /\ "settle" \in Events /\ call = "raised" /\ ~ claim /\ ~ stop
    /\ stop' = TRUE
    /\ UNCHANGED <<call, descriptor, taskVars, accessVars, claim, fileVars, rowVars>>

ReplaceObject ==
    /\ "replace" \in Events /\ remote = "v1" /\ remote' = "v2"
    /\ UNCHANGED <<call, descriptor, taskVars, cached, verify, callerVars, fileVars, rowVars>>

\* The next open of the process takes the lowest free number.
ReuseDescriptor ==
    /\ "reuse" \in Events /\ descriptor = "closed"
    /\ descriptor' = "other"
    /\ UNCHANGED <<call, taskVars, accessVars, callerVars, fileVars, rowVars>>

-----------------------------------------------------------------------------
\* The ranges recorded by earlier calls are in the partial file, on the disk, as those calls
\* wrote them.
TransferInit ==
    /\ call = "access" /\ descriptor = "none"
    /\ task = [r \in Indexes |-> "none"]
    /\ attempt = [r \in Indexes |-> 0] /\ block = [r \in Indexes |-> 0]
    /\ using = [r \in Indexes |-> "none"] /\ cancelled = {}
    /\ cached = "none" /\ remote = "v1" /\ verify \in BOOLEAN
    /\ stop = FALSE /\ claim = TRUE
    /\ completed \in SUBSET Indexes /\ recorded = completed
    /\ counter = Cardinality(completed)
    /\ bytes = [r \in Indexes |-> 0]
    /\ content \in [Cells -> {"zeros", "v1", "short"}]
    /\ \A c \in Cells : content[c] \in IF c[1] \in completed THEN Put("zeros", "v1") ELSE {"zeros"}
    /\ dirty = {}

CallStep == FirstAccess \/ OpenPartial \/ Gather \/ FinalSync \/ CloseDescriptor \/ FinalCheck

TaskStep(r) ==
    \/ Deliver(r) \/ Enter(r) \/ Begin(r) \/ Request(r) \/ Receive(r) \/ WriteBlock(r)
    \/ Retry(r) \/ Lock(r) \/ SyncFile(r) \/ MarkComplete(r)

Environment ==
    CancelCall \/ AskToStop \/ LoseClaim \/ CallerEnds \/ ReplaceObject \/ ReuseDescriptor

TransferNext == CallStep \/ (\E r \in Indexes : TaskStep(r)) \/ Environment

TransferSpec == TransferInit /\ [][TransferNext]_transferVars

\* The event loop runs every task that can run, and every request is answered or
\* times out, every thread returns.
TransferFairness == WF_transferVars(CallStep) /\ \A r \in Indexes : WF_transferVars(TaskStep(r))

FairTransferSpec == TransferSpec /\ TransferFairness

-----------------------------------------------------------------------------
(* Properties.                                                             *)

\* docs/requirements.md:118: a chunk is recorded only after its range was written and
\* fsynced.  Every block of a range with a chunk row was written to the partial file and
\* is on the disk, also when its task outlived the call: all of the block, unless the disk
\* can be full.
Written(c) == content[c] \in Objects \/ ("full" \in Events /\ content[c] = "short")

RecordedIsWritten ==
    \A r \in recorded : \A c \in BlocksOf(r) : Written(c) /\ c \notin dirty

\* The same as long as the number of the descriptor names no other file: what tasks
\* that outlived a failed or cancelled call record was on the disk before the close.
RecordedUntilReuse == descriptor # "other" => RecordedIsWritten

\* pull_file_with_state returns a whole file when it hashes it, whatever the disk did.
\* When it does not, every byte is still the snapshot's object's, even when another object
\* took its place meanwhile, but for the ends of blocks that a full disk cut off.  In both
\* cases all that was written is on the disk and recorded, and no task works on it any more.
ReturnedIsWhole ==
    call = "returned" =>
        /\ IF verify \/ "full" \notin Events THEN HashMatches
           ELSE \A c \in Cells : content[c] \in {"v1", "short"}
        /\ dirty = {}
        /\ recorded = Indexes
        /\ descriptor # "open"
        /\ \A r \in Indexes : ~ Running(r)

\* The file row counts what the chunk rows say, in whatever order the tasks finish
\* and outlive the call (until the number of the descriptor names another file).
CounterMatchesRecorded == descriptor # "other" => counter = Cardinality(recorded)

\* The call and every task it started come to an end, whatever fails.
TransferEnds ==
    <>[](call \in {"returned", "raised"} /\ \A r \in Indexes : ~ Running(r))
=============================================================================
