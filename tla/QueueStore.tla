----------------------------- MODULE QueueStore -----------------------------
(***************************************************************************)
(* The durable download queue: SQLiteQueueStore of manager.py.             *)
(*                                                                         *)
(* Every public method of the store is one SQLite transaction taken under  *)
(* the writer lock (BEGIN IMMEDIATE, or a single UPDATE), so every method  *)
(* is one action.  A column of download_jobs, download_files and           *)
(* download_chunks that some guard reads is one variable, a function of    *)
(* the job (and of the file).  Callers are not modelled here: any claim    *)
(* token that was ever issued may be presented to any method at any time,  *)
(* which is what a paused, crashed or fenced worker can do.                *)
(*                                                                         *)
(* Job ids are naturals whose order is the order of created_at; enqueue    *)
(* stamps created_at before it takes the lock, so rows need not be         *)
(* inserted in that order.  A claim token is the run_count of its claim:   *)
(* the code draws a fresh uuid at every claim.                             *)
(*                                                                         *)
(* A definition named Mutant_X is a broken variant of the one below it.    *)
(* No specification uses it: a run with the two exchanged shows that the   *)
(* property it is listed with can fail.                                    *)
(***************************************************************************)
EXTENDS Naturals, FiniteSets, FiniteSetsExt

CONSTANTS
    JobIds,        \* ids of the rows that may be inserted, ordered by created_at
    Models,        \* model directory names
    Destinations,  \* final destination directories
    Files,         \* the files of a model snapshot
    Size,          \* expected_size of each file
    ChunkSizes,    \* the chunk_size settings managers on this queue may use
    MaxRuns,       \* bound: claims of one job
    MaxIntegrity   \* bound: integrity failures of one file

ASSUME JobIdsAssumption     == JobIds \subseteq Nat
ASSUME FilesAssumption      == IsFiniteSet(Files) /\ Files # {}
ASSUME SizeAssumption       == Size \in [Files -> Nat]
ASSUME ChunkSizesAssumption == ChunkSizes \subseteq Nat \ {0}
ASSUME BoundsAssumption     == MaxRuns \in Nat /\ MaxIntegrity \in Nat

VARIABLES
    \* download_jobs
    state, model, destination,
    token,         \* claim_token (with worker_id): 0 is NULL
    runs,          \* run_count
    lease,         \* lease_expires_at compared with the clock
    due,           \* next_retry_at <= now, for a job in retry_wait
    snapshot,      \* snapshot_sha256 is not NULL
    jobFiles,      \* completed_files
    jobBytes,      \* completed_bytes
    errors,        \* download_errors: the runs that left an error row
    \* download_files
    fstate, fbytes, integrity,
    \* download_chunks
    layout,        \* the byte ranges of the file's chunk rows
    done           \* the ranges whose row has completed=1

identity  == <<model, destination>>
claimVars == <<token, runs, lease, due>>
totals    == <<jobFiles, jobBytes>>
rows      == <<fstate, fbytes, integrity, layout, done>>
vars      == <<state, identity, claimVars, snapshot, totals, errors, rows>>

Held     == {"snapshotting", "downloading", "verifying"}
Running  == Held \cup {"retry_wait"}
Terminal == {"completed", "failed", "cancelled"}
Active   == Running \cup {"queued", "cancel_requested"}
NoRow    == {"none", "dismissed"}   \* never inserted, or deleted

Row(j) == state[j] \notin NoRow

Smaller(a, b) == IF a < b THEN a ELSE b

\* async_client and download.py cut a file into these ranges of chunk_size bytes.
Ranges(size, chunkSize) ==
    {<<s, Smaller(s + chunkSize, size) - 1>> :
        s \in {b \in 0 .. size - 1 : b % chunkSize = 0}}

Length(r)        == r[2] - r[1] + 1
BytesOf(ranges)  == MapThenSumSet(Length, ranges)
SumBytes(bytes)  == MapThenSumSet(LAMBDA f : bytes[f], Files)
TotalBytes       == SumBytes(Size)
Complete(fs)     == {f \in Files : fs[f] = "completed"}

NoFiles(x) == [f \in Files |-> x]

-----------------------------------------------------------------------------
TypeOK ==
    /\ state       \in [JobIds -> NoRow \cup Active \cup Terminal]
    /\ model       \in [JobIds -> Models \cup {"none"}]
    /\ destination \in [JobIds -> Destinations \cup {"none"}]
    /\ token       \in [JobIds -> Nat]
    /\ runs        \in [JobIds -> Nat]
    /\ lease       \in [JobIds -> {"none", "live", "expired"}]
    /\ due         \in [JobIds -> BOOLEAN]
    /\ snapshot    \in [JobIds -> BOOLEAN]
    /\ jobFiles    \in [JobIds -> Nat]
    /\ errors      \in [JobIds -> SUBSET Nat]
    /\ fstate      \in [JobIds -> [Files -> {"none", "queued", "downloading",
                                             "completed", "failed"}]]
    /\ fbytes      \in [JobIds -> [Files -> Nat]]
    /\ integrity   \in [JobIds -> [Files -> Nat]]
    /\ layout      \in [JobIds -> [Files -> SUBSET (Nat \X Int)]]
    /\ done        \in [JobIds -> [Files -> SUBSET (Nat \X Int)]]

Init ==
    /\ state = [j \in JobIds |-> "none"]
    /\ model = [j \in JobIds |-> "none"]
    /\ destination = [j \in JobIds |-> "none"]
    /\ token = [j \in JobIds |-> 0]
    /\ runs = [j \in JobIds |-> 0]
    /\ lease = [j \in JobIds |-> "none"]
    /\ due = [j \in JobIds |-> FALSE]
    /\ snapshot = [j \in JobIds |-> FALSE]
    /\ jobFiles = [j \in JobIds |-> 0]
    /\ jobBytes = [j \in JobIds |-> 0]
    /\ errors = [j \in JobIds |-> {}]
    /\ fstate = [j \in JobIds |-> NoFiles("none")]
    /\ fbytes = [j \in JobIds |-> NoFiles(0)]
    /\ integrity = [j \in JobIds |-> NoFiles(0)]
    /\ layout = [j \in JobIds |-> NoFiles({})]
    /\ done = [j \in JobIds |-> NoFiles({})]
\* worker_id, claim_token and lease_expires_at are set to NULL together.
Mutant_FreeClaimKeepsLease(j) ==
    /\ token' = [token EXCEPT ![j] = 0]
    /\ UNCHANGED lease
FreeClaim(j) ==
    /\ token' = [token EXCEPT ![j] = 0]
    /\ lease' = [lease EXCEPT ![j] = "none"]

-----------------------------------------------------------------------------
(* Submitting work.                                                        *)

\* The row enqueue compares with: the newest by created_at for a destination.
IsNewest(k, d) ==
    /\ Row(k) /\ destination[k] = d
    /\ \A i \in JobIds : Row(i) /\ destination[i] = d => i <= k

\* enqueue of the model whose newest job for this destination failed requeues it
\* (when that job is queued or running, enqueue returns it and changes nothing).
EnqueueRequeues(k, m, d) ==
    /\ IsNewest(k, d) /\ model[k] = m /\ state[k] = "failed"
    /\ state' = [state EXCEPT ![k] = "queued"]
    /\ due' = [due EXCEPT ![k] = FALSE]
    /\ UNCHANGED <<identity, token, runs, lease, snapshot, totals, errors, rows>>

\* The conflicting row, if any, is terminal, and not this model's failed job.
MayInsert(m, d) ==
    \A k \in JobIds : IsNewest(k, d) =>
        /\ state[k] \in Terminal
        /\ ~ (model[k] = m /\ state[k] = "failed")

EnqueueInserts(j, m, d) ==
    /\ state[j] = "none"
    /\ MayInsert(m, d)
    /\ state' = [state EXCEPT ![j] = "queued"]
    /\ model' = [model EXCEPT ![j] = m]
    /\ destination' = [destination EXCEPT ![j] = d]
    /\ UNCHANGED <<claimVars, snapshot, totals, errors, rows>>

Mutant_RetryableIfEnded(j) == state[j] \in {"failed", "cancelled"}
Retryable(j) == state[j] = "failed"

Retry(j) ==
    /\ Retryable(j)
    /\ state' = [state EXCEPT ![j] = "queued"]
    /\ FreeClaim(j)
    /\ due' = [due EXCEPT ![j] = FALSE]
    /\ UNCHANGED <<identity, runs, snapshot, totals, errors, rows>>

RequestCancel(j) ==
    /\ state[j] \in {"queued"} \cup Running
    /\ state' = [state EXCEPT ![j] = IF state[j] = "queued" THEN "cancelled"
                                     ELSE "cancel_requested"]
    /\ UNCHANGED <<identity, claimVars, snapshot, totals, errors, rows>>

\* The row goes, and with it its file, chunk and error rows (ON DELETE CASCADE).
Dismiss(j) ==
    /\ state[j] \in Terminal
    /\ state' = [state EXCEPT ![j] = "dismissed"]
    /\ model' = [model EXCEPT ![j] = "none"]
    /\ destination' = [destination EXCEPT ![j] = "none"]
    /\ token' = [token EXCEPT ![j] = 0]
    /\ runs' = [runs EXCEPT ![j] = 0]
    /\ lease' = [lease EXCEPT ![j] = "none"]
    /\ due' = [due EXCEPT ![j] = FALSE]
    /\ snapshot' = [snapshot EXCEPT ![j] = FALSE]
    /\ jobFiles' = [jobFiles EXCEPT ![j] = 0]
    /\ jobBytes' = [jobBytes EXCEPT ![j] = 0]
    /\ errors' = [errors EXCEPT ![j] = {}]
    /\ fstate' = [fstate EXCEPT ![j] = NoFiles("none")]
    /\ fbytes' = [fbytes EXCEPT ![j] = NoFiles(0)]
    /\ integrity' = [integrity EXCEPT ![j] = NoFiles(0)]
    /\ layout' = [layout EXCEPT ![j] = NoFiles({})]
    /\ done' = [done EXCEPT ![j] = NoFiles({})]

-----------------------------------------------------------------------------
(* Claiming.                                                               *)

\* A cancellation whose worker is gone: no owner, or a lapsed lease.
Reapable(j) ==
    /\ state[j] = "cancel_requested"
    /\ token[j] = 0 \/ lease[j] = "expired"

\* A held job whose lease has lapsed may be taken over.
Mutant_LapsedWhenHeld(j) == state[j] \in Held
Mutant_NeverLapsed(j) == FALSE
Lapsed(j) == state[j] \in Held /\ lease[j] = "expired"

Eligible(j) ==
    /\ \/ state[j] = "queued"
       \/ state[j] = "retry_wait" /\ due[j]
       \/ Lapsed(j)
    /\ runs[j] < MaxRuns

Oldest(k) == Eligible(k) /\ \A i \in JobIds : Eligible(i) => k <= i

Mutant_ClaimedUnlisted(k) == "running"
Claimed(k) == IF snapshot[k] THEN "downloading" ELSE "snapshotting"

\* One transaction: every reapable cancellation is finalised, then the oldest
\* eligible job is handed to the caller under a token nobody else has seen.
Claim(k) ==
    /\ Oldest(k)
    /\ state' = [j \in JobIds |-> IF j = k THEN Claimed(k)
                                  ELSE IF Reapable(j) THEN "cancelled" ELSE state[j]]
    /\ token' = [j \in JobIds |-> IF j = k THEN runs[k] + 1
                                  ELSE IF Reapable(j) THEN 0 ELSE token[j]]
    /\ lease' = [j \in JobIds |-> IF j = k THEN "live"
                                  ELSE IF Reapable(j) THEN "none" ELSE lease[j]]
    /\ runs' = [runs EXCEPT ![k] = runs[k] + 1]
    /\ due' = [due EXCEPT ![k] = FALSE]
    /\ UNCHANGED <<identity, snapshot, totals, errors, rows>>

\* claim returns None, having reaped.
ClaimNothing ==
    /\ \A j \in JobIds : ~ Eligible(j)
    /\ \E j \in JobIds : Reapable(j)
    /\ state' = [j \in JobIds |-> IF Reapable(j) THEN "cancelled" ELSE state[j]]
    /\ token' = [j \in JobIds |-> IF Reapable(j) THEN 0 ELSE token[j]]
    /\ lease' = [j \in JobIds |-> IF Reapable(j) THEN "none" ELSE lease[j]]
    /\ UNCHANGED <<identity, runs, due, snapshot, totals, errors, rows>>

Poll == ClaimNothing \/ \E k \in JobIds : Claim(k)

-----------------------------------------------------------------------------
(* What the holder of a claim token may do.                                *)

\* `claim_token=?`, which NULL never equals, and `... AND state IN (...)`.
Mutant_PresentsAny(j, t) == t # 0 /\ Row(j)
Presents(j, t)     == t # 0 /\ token[j] = t
Owns(j, t, states) == Presents(j, t) /\ state[j] \in states

Mutant_HeartbeatWhenCancelled == Held \cup {"cancel_requested"}
HeartbeatStates == Held

Heartbeat(j, t) ==
    /\ Owns(j, t, HeartbeatStates)
    /\ lease' = [lease EXCEPT ![j] = "live"]
    /\ UNCHANGED <<state, identity, token, runs, due, snapshot, totals, errors, rows>>

\* The rows of download_files are replaced; their chunks go with the old rows.
SaveSnapshot(j, t) ==
    /\ Owns(j, t, {"snapshotting"})
    /\ state' = [state EXCEPT ![j] = "downloading"]
    /\ snapshot' = [snapshot EXCEPT ![j] = TRUE]
    /\ fstate' = [fstate EXCEPT ![j] = NoFiles("queued")]
    /\ fbytes' = [fbytes EXCEPT ![j] = NoFiles(0)]
    /\ integrity' = [integrity EXCEPT ![j] = NoFiles(0)]
    /\ layout' = [layout EXCEPT ![j] = NoFiles({})]
    /\ done' = [done EXCEPT ![j] = NoFiles({})]
    /\ UNCHANGED <<identity, claimVars, totals, errors>>

LayoutFits(j, f, c) == layout[j][f] \in {{}, Ranges(Size[f], c)}

\* Raises JobConflictError, changing nothing, when rows of another layout exist.
PrepareChunks(j, f, t, c) ==
    /\ snapshot[j] /\ Owns(j, t, {"downloading", "verifying"})
    /\ LayoutFits(j, f, c)
    /\ layout' = [layout EXCEPT ![j][f] = Ranges(Size[f], c)]
    /\ UNCHANGED <<state, identity, claimVars, snapshot, totals, errors,
                   fstate, fbytes, integrity, done>>

Mutant_RecountBytesOnly(j) ==
    /\ jobBytes' = [jobBytes EXCEPT ![j] = SumBytes(fbytes'[j])]
    /\ UNCHANGED jobFiles
Recount(j) ==
    /\ jobFiles' = [jobFiles EXCEPT ![j] = Cardinality(Complete(fstate'[j]))]
    /\ jobBytes' = [jobBytes EXCEPT ![j] = SumBytes(fbytes'[j])]

\* Fenced by the token alone.  completed_bytes is recounted, completed_files is not.
CanRecordProgress(j, f, t, b) ==
    /\ snapshot[j] /\ Presents(j, t)
    /\ b \in 0 .. Size[f]

RecordProgress(j, f, t, b, r) ==
    /\ CanRecordProgress(j, f, t, b)
    /\ fstate' = [fstate EXCEPT ![j][f] = "downloading"]
    /\ fbytes' = [fbytes EXCEPT ![j][f] = b]
    /\ done' = [done EXCEPT ![j][f] = @ \cup ({r} \cap layout[j][f])]
    /\ jobBytes' = [jobBytes EXCEPT ![j] = SumBytes(fbytes'[j])]
    /\ UNCHANGED <<state, identity, claimVars, snapshot, jobFiles, errors,
                   integrity, layout>>

\* record_error inserts a row for a file of a downloading job.
CanRecordError(j, t) == snapshot[j] /\ Owns(j, t, {"downloading"})

RecordError(j, t) ==
    /\ CanRecordError(j, t)
    /\ errors' = [errors EXCEPT ![j] = @ \cup {runs[j]}]
    /\ UNCHANGED <<state, identity, claimVars, snapshot, totals, rows>>

CanRecordJobError(j, t) == Owns(j, t, Held)

RecordJobError(j, t) ==
    /\ CanRecordJobError(j, t)
    /\ errors' = [errors EXCEPT ![j] = @ \cup {runs[j]}]
    /\ UNCHANGED <<state, identity, claimVars, snapshot, totals, rows>>

\* `d` tells whether next_retry_at is already past when the row is written.
ScheduleRetry(j, t, d) ==
    /\ Owns(j, t, Held)
    /\ state' = [state EXCEPT ![j] = "retry_wait"]
    /\ FreeClaim(j)
    /\ due' = [due EXCEPT ![j] = d]
    /\ UNCHANGED <<identity, runs, snapshot, totals, errors, rows>>

Release(j, t) ==
    /\ Owns(j, t, Held)
    /\ state' = [state EXCEPT ![j] = "queued"]
    /\ FreeClaim(j)
    /\ due' = [due EXCEPT ![j] = FALSE]
    /\ UNCHANGED <<identity, runs, snapshot, totals, errors, rows>>

\* Fenced by the token alone; `bad` is the integrity_failure argument.
CanReset(j, t) == snapshot[j] /\ Presents(j, t)

ResetFile(j, f, t, bad) ==
    /\ CanReset(j, t)
    /\ bad => integrity[j][f] < MaxIntegrity
    /\ fstate' = [fstate EXCEPT ![j][f] = "failed"]
    /\ fbytes' = [fbytes EXCEPT ![j][f] = 0]
    /\ integrity' = [integrity EXCEPT ![j][f] = IF bad THEN @ + 1 ELSE @]
    /\ done' = [done EXCEPT ![j][f] = {}]
    /\ Recount(j)
    /\ UNCHANGED <<state, identity, claimVars, snapshot, errors, layout>>

\* Every caller passes state="completed" and the expected size.
UpdateFile(j, f, t) ==
    /\ snapshot[j] /\ Owns(j, t, {"downloading", "verifying"})
    /\ fstate' = [fstate EXCEPT ![j][f] = "completed"]
    /\ fbytes' = [fbytes EXCEPT ![j][f] = Size[f]]
    /\ Recount(j)
    /\ UNCHANGED <<state, identity, claimVars, snapshot, errors, integrity,
                   layout, done>>

Mutant_BytesCounted(j) == snapshot[j] /\ jobBytes[j] = TotalBytes
AllCounted(j) ==
    /\ snapshot[j]
    /\ jobFiles[j] = Cardinality(Files)
    /\ jobBytes[j] = TotalBytes

CanMarkVerifying(j, t) == Owns(j, t, {"downloading"}) /\ AllCounted(j)

MarkVerifying(j, t) ==
    /\ CanMarkVerifying(j, t)
    /\ state' = [state EXCEPT ![j] = "verifying"]
    /\ UNCHANGED <<identity, claimVars, snapshot, totals, errors, rows>>

CanFinish(j, t, s) ==
    IF s = "completed" THEN Owns(j, t, {"verifying"}) /\ AllCounted(j)
    ELSE Owns(j, t, Held \cup {"cancel_requested"})

Finish(j, t, s) ==
    /\ CanFinish(j, t, s)
    /\ state' = [state EXCEPT ![j] = s]
    /\ FreeClaim(j)
    /\ UNCHANGED <<identity, runs, due, snapshot, totals, errors, rows>>

CancellationRequested(j, t) ==
    \/ ~ Row(j) \/ token[j] # t \/ state[j] = "cancel_requested"

-----------------------------------------------------------------------------
(* Time.                                                                   *)

LeaseExpires(j) ==
    /\ lease[j] = "live"
    /\ lease' = [lease EXCEPT ![j] = "expired"]
    /\ UNCHANGED <<state, identity, token, runs, due, snapshot, totals, errors, rows>>

RetryDue(j) ==
    /\ state[j] = "retry_wait" /\ ~ due[j]
    /\ due' = [due EXCEPT ![j] = TRUE]
    /\ UNCHANGED <<state, identity, token, runs, lease, snapshot, totals, errors, rows>>

-----------------------------------------------------------------------------
Issued(j) == 1 .. runs[j]

Submit(j) ==
    \/ \E m \in Models, d \in Destinations :
           EnqueueRequeues(j, m, d) \/ EnqueueInserts(j, m, d)
    \/ Retry(j) \/ RequestCancel(j) \/ Dismiss(j)

\* Two rules the store leaves to its callers, which PullJob is checked to keep.
\* Progress is never recorded for a file that was completed under the presented token.  The
\* range need not have a row: _pull_job ignores a refused prepare_chunks.
Progress(j, f, t) ==
    /\ fstate[j][f] # "completed"
    /\ \E c \in ChunkSizes, b \in 0 .. Size[f] :
           \E r \in Ranges(Size[f], c) : RecordProgress(j, f, t, b, r)

\* Only a worker that has read cancel_requested finishes a job as cancelled.
Outcome(j, t) ==
    \E s \in Terminal :
        /\ s = "cancelled" => state[j] = "cancel_requested"
        /\ Finish(j, t, s)

FileStep(j, t) ==
    \E f \in Files :
        \/ \E c \in ChunkSizes : PrepareChunks(j, f, t, c)
        \/ Progress(j, f, t)
        \/ \E bad \in BOOLEAN : ResetFile(j, f, t, bad)
        \/ UpdateFile(j, f, t)

JobStep(j, t) ==
    \/ Heartbeat(j, t) \/ SaveSnapshot(j, t)
    \/ RecordError(j, t) \/ RecordJobError(j, t)
    \/ \E d \in BOOLEAN : ScheduleRetry(j, t, d)
    \/ Release(j, t) \/ MarkVerifying(j, t)
    \/ Outcome(j, t)

Tick(j) == LeaseExpires(j) \/ RetryDue(j)

Next ==
    \/ Poll
    \/ \E j \in JobIds :
           \/ Submit(j) \/ Tick(j)
           \/ \E t \in Issued(j) : JobStep(j, t) \/ FileStep(j, t)

Spec == Init /\ [][Next]_vars

\* Workers poll for ever, and a lease nobody can renew any more runs out.
Fairness ==
    /\ WF_vars(Poll)
    /\ \A j \in JobIds : WF_vars(state[j] = "cancel_requested" /\ LeaseExpires(j))

FairSpec == Spec /\ Fairness

-----------------------------------------------------------------------------
(* Properties.                                                             *)

\* Ownership: a job is held by at most one token, the one of its latest claim;
\* it is held exactly while a worker state says so (or while that worker has not
\* yet acknowledged a cancellation), and a held job always has a lease that can
\* run out.  claim, schedule_retry, release, finish and retry keep this together.
ClaimDiscipline ==
    \A j \in JobIds :
        /\ token[j] \in {0, runs[j]}
        /\ state[j] \in Held => token[j] # 0
        /\ token[j] # 0 => state[j] \in Held \cup {"cancel_requested"}
        /\ token[j] = 0 <=> lease[j] = "none"

\* A job is completed only when every one of its files is: the completed_files
\* counter that finish tests is never ahead of the rows, although progress and
\* resets arrive from workers in any state of the job.
CompletedIsWhole ==
    \A j \in JobIds : state[j] = "completed" =>
        \A f \in Files : fstate[j][f] = "completed" /\ fbytes[j][f] = Size[f]

\* The counters on the job row equal what the file rows add up to, although
\* record_progress recounts one of them only.
CountersMatchRows ==
    \A j \in JobIds :
        /\ jobFiles[j] = Cardinality(Complete(fstate[j]))
        /\ jobBytes[j] = SumBytes(fbytes[j])

\* Recorded progress is written only under the claim that is current before and
\* after the write: requeueing, reclaiming, retrying, cancelling and finishing a
\* job keep every file and chunk row as they were.
SameRows(j) ==
    /\ fstate'[j] = fstate[j] /\ fbytes'[j] = fbytes[j]
    /\ integrity'[j] = integrity[j]
    /\ layout'[j] = layout[j] /\ done'[j] = done[j]
OwnerWritesRows ==
    [][\A j \in JobIds :
          \/ SameRows(j)
          \/ token[j] # 0 /\ token'[j] = token[j]
          \/ state'[j] = "dismissed"]_vars

\* A claim takes a job only from nobody or from a lapsed lease, and under a token
\* that no earlier worker holds: what a fenced worker presents stays refused.
ClaimIsFresh ==
    [][\A j \in JobIds : token'[j] \notin {0, token[j]} =>
          /\ token[j] = 0 \/ lease[j] = "expired"
          /\ token'[j] \notin Issued(j)]_vars

\* A cancelled or completed job is over, a failed one is only ever requeued, and
\* a requested cancellation is never forgotten: the job does not run again.
NoRevival ==
    [][\A j \in JobIds :
          /\ state[j] \in {"completed", "cancelled"} => state'[j] \in {state[j], "dismissed"}
          /\ state[j] = "failed" => state'[j] \in {"failed", "queued", "dismissed"}
          /\ state[j] = "cancel_requested" =>
                 state'[j] \in {"cancel_requested", "cancelled", "failed"}]_vars

\* A cancellation whose worker is dead or stuck becomes final once the lease has
\* run out and some worker polls: heartbeats cannot keep it alive.
CancelCompletes ==
    \A j \in JobIds : state[j] = "cancel_requested" ~> state[j] \in Terminal

\* The store implements the lifecycle a client is promised (JobLifecycle): owners,
\* leases, retries and chunks are how, and completed means that every file is.
Phase(s) ==
    CASE s = "dismissed" -> "gone"
      [] s \in {"queued", "retry_wait"} -> "waiting"
      [] s \in Held -> "working"
      [] s = "cancel_requested" -> "cancelling"
      [] OTHER -> s
Lifecycle == INSTANCE JobLifecycle WITH
    Jobs <- JobIds,
    phase <- [j \in JobIds |-> Phase(state[j])],
    verified <- [j \in JobIds |-> Complete(fstate[j])]
ImplementsLifecycle == Lifecycle!LifecycleSpec

\* docs/requirements.md:289: another model directory for the same destination is
\* rejected, so no two live jobs ever target one destination.
OneActivePerDestination ==
    \A i, j \in JobIds :
        i # j /\ state[i] \in Active /\ state[j] \in Active
            => destination[i] # destination[j]
=============================================================================
