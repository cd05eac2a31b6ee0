------------------------------ MODULE PullJob -------------------------------
(***************************************************************************)
(* Workers that drain the queue: DownloadManager._worker, _execute and     *)
(* _heartbeat of manager.py, AsyncModelClient._pull_job of async_client.py *)
(* and pull_file_with_state of download.py, over the store of QueueStore   *)
(* and a file system.                                                      *)
(*                                                                         *)
(* A worker gives up control at every await, so each awaited store call,   *)
(* file-system call or request that writes is one action, and a read that  *)
(* decides about a write is a step before it; reads that follow each other *)
(* are one step.  The program counter of a worker names the call it is     *)
(* about to make.  A worker whose lease has lapsed keeps running: it is    *)
(* merely late.  The staging directory is named after the job, not after   *)
(* the claim, so two claims of one job share it; an open file descriptor   *)
(* follows the directory when os.replace moves it.                         *)
(*                                                                         *)
(* Instances with the event "shutdown" have one DownloadManager, whose     *)
(* close tells the runs in its registry to stop; the registry is keyed by  *)
(* job, so of two runs of one job it knows the later one, until either     *)
(* ends.                                                                   *)
(***************************************************************************)
EXTENDS QueueStore

CONSTANTS
    Workers,          \* worker tasks, in one or several processes
    ChunkSize,        \* chunk_size of their managers
    IntegrityRetries, \* integrity_retries of their managers
    Events            \* which of the environment's events this instance has

AllEvents == {"cancel", "retry", "dismiss", "late", "crash", "shutdown", "offline",
              "deadline", "stall", "powerloss", "lostrename", "badbytes", "lostcopy", "busy"}

ASSUME ChunkSizeAssumption == ChunkSize \in ChunkSizes
ASSUME EventsAssumption    == Events \subseteq AllEvents
ASSUME RetriesAssumption   == IntegrityRetries \in Nat

VARIABLES
    pc,        \* the call each worker is about to make
    local,     \* the local variables of its _execute
    staging,   \* the staging directory of each job
    installed, \* the directory at each destination
    manager    \* "running", "closing" (_stop is set), "restarted" (it closes once)

pullVars == <<vars, pc, local, staging, installed, manager>>
disk     == <<staging, installed>>

Chunks(f) == Ranges(Size[f], ChunkSize)

\* A file: which of its ranges hold the source's bytes, which hold other bytes, and
\* which of them no fsync has covered since they were zeros, as the others are.
\* (Bytes written over durable ones are not dirty: a power loss leaves old or new
\* bytes there, never zeros.)
NoFile   == [exists |-> FALSE, good |-> {}, bad |-> {}, dirty |-> {}]
NewFile  == [NoFile EXCEPT !.exists = TRUE]
Sound(f, file) == file.exists /\ file.good = Chunks(f)

\* A directory with its SHA256SUMS: "none", "torn" (truncated, not yet rewritten), "ok".
NoTree  == [exists |-> FALSE, files |-> [f \in Files |-> NoFile], sums |-> "none"]
Verified(tree) == tree.exists /\ \A f \in Files : Sound(f, tree.files[f])

\* What stands at a destination: the directory, its model, the job whose staging
\* directory it was, and whether that rename would survive a power loss.
Nothing == [tree |-> NoTree, model |-> "none", job |-> 0, settled |-> TRUE]

Idle == [job |-> 0, tok |-> 0, model |-> "none", dest |-> "none", kept |-> {}, todo |-> {}, file |-> "none", have |-> {},
         wrote |-> {}, range |-> <<>>, exc |-> "none", seen |-> "none",
         shutdown |-> FALSE, registered |-> FALSE, stop |-> FALSE, open |-> "none"]

J(w) == local[w].job
T(w) == local[w].tok
F(w) == local[w].file
D(w) == local[w].dest

Goto(w, label) == pc' = [pc EXCEPT ![w] = label]

Working(w) == pc[w] \notin {"idle", "dead", "exited"}

\* The end of _execute, whose finally clause takes the job's events out of the
\* registry, whichever run of the job they belong to.
Leave(w, label) ==
    /\ Goto(w, label)
    /\ local' = [v \in Workers |->
                   IF v = w THEN Idle
                   ELSE IF J(v) = J(w) THEN [local[v] EXCEPT !.registered = FALSE]
                   ELSE local[v]]

\* DownloadCancelled, a retryable error, a permanent one, ChecksumMismatchError leaves
\* _pull_job and its local variables.
Raise(w, exc) ==
    /\ pc' = [pc EXCEPT ![w] = "handler"]
    /\ local' = [local EXCEPT ![w] =
                   [@ EXCEPT !.exc = exc, !.open = "none", !.kept = {}, !.todo = {},
                             !.file = "none", !.have = {}, !.wrote = {}, !.range = <<>>]]

\* A store call whose False result the caller turns into DownloadCancelled.
Fenced(w, allowed, op, next) ==
    IF allowed THEN op /\ next
    ELSE Raise(w, "cancelled") /\ UNCHANGED vars

PullTypeOK ==
    /\ TypeOK
    /\ manager \in {"running", "closing", "restarted"}
    /\ pc \in [Workers -> {"idle", "dead", "exited", "claimed", "inventory", "save", "rows", "dest", "adopt",
                           "stage", "next", "forget", "chunks", "resume", "discard", "open",
                           "fetch", "record", "verify", "mismatch", "reset", "update", "mark", "sums", "sums2",
                           "check", "rename", "finish", "handler", "settle", "report",
                           "schedule", "fail"}]
    /\ \A w \in Workers :
           /\ Working(w) => J(w) \in JobIds /\ T(w) \in Nat \ {0}
           /\ local[w].have \subseteq UNION {Chunks(f) : f \in Files}
           /\ local[w].open \in {"none", "staging", "installed"}

-----------------------------------------------------------------------------
(* _worker and the start of _execute.                                      *)

\* What _execute starts with: the row claim returned, and the token of that claim.
Mutant_StartWithOldToken(k) ==
    [Idle EXCEPT !.job = k, !.tok = token[k], !.model = model[k], !.dest = destination[k]]
Start(k) ==
    [Idle EXCEPT !.job = k, !.tok = token'[k], !.model = model[k], !.dest = destination[k]]

\* A worker polls until _stop is set; a claim that is in flight then is still run.
Polls(w) == pc[w] = "idle" /\ manager # "closing"

WorkerClaims(w, k) ==
    /\ Polls(w)
    /\ Claim(k)
    /\ Goto(w, "claimed")
    /\ local' = [local EXCEPT ![w] = Start(k)]
    /\ UNCHANGED disk

\* _execute enters its events under the job, in place of those of another run of it.
Register(w) ==
    /\ pc[w] = "claimed"
    /\ Goto(w, IF snapshot[J(w)] THEN "rows" ELSE "inventory")
    /\ local' = [v \in Workers |->
                   IF J(v) = J(w) /\ "shutdown" \in Events
                   THEN [local[v] EXCEPT !.registered = (v = w)] ELSE local[v]]
    /\ UNCHANGED <<vars, disk>>

Mutant_NeverLeaves == FALSE
LoopEnds == manager = "closing"

WorkerExits(w) ==
    /\ pc[w] = "idle" /\ LoopEnds
    /\ Goto(w, "exited")
    /\ UNCHANGED <<vars, local, disk>>

WorkerFindsNothing(w) ==
    /\ Polls(w)
    /\ ClaimNothing
    /\ UNCHANGED <<pc, local, disk>>

\* _heartbeat: renew the lease, or tell the download to stop when that is refused.
HeartbeatTask(w) ==
    /\ Working(w) /\ pc[w] # "claimed" /\ manager # "closing"
    /\ ~ local[w].stop /\ ~ local[w].shutdown
    /\ IF Owns(J(w), T(w), HeartbeatStates)
       THEN lease[J(w)] # "live" /\ Heartbeat(J(w), T(w)) /\ UNCHANGED local
       ELSE local' = [local EXCEPT ![w].stop = TRUE] /\ UNCHANGED vars
    /\ UNCHANGED <<pc, disk>>

\* snapshot_model: list and read the model's metadata over the network.
Inventory(w) ==
    /\ pc[w] = "inventory"
    /\ \/ Goto(w, "save") /\ UNCHANGED local
       \/ "offline" \in Events /\ \E e \in {"retryable", "permanent"} : Raise(w, e)
    /\ UNCHANGED <<vars, disk>>

\* A refused snapshot makes _execute return: nothing is released or finished.
Save(w) ==
    /\ pc[w] = "save"
    /\ IF Owns(J(w), T(w), {"snapshotting"})
       THEN SaveSnapshot(J(w), T(w)) /\ Goto(w, "rows") /\ UNCHANGED local
       ELSE Leave(w, "idle") /\ UNCHANGED vars
    /\ UNCHANGED disk

-----------------------------------------------------------------------------
(* _pull_job up to the transfer of the files.                              *)

\* get, files and source of the job; get raises JobNotFoundError for a deleted row.
ReadRows(w) ==
    /\ pc[w] = "rows"
    /\ IF Row(J(w)) /\ snapshot[J(w)]
       THEN /\ Goto(w, "dest")
            /\ local' = [local EXCEPT ![w] =
                            [@ EXCEPT !.kept = Complete(fstate[J(w)]), !.todo = Files]]
       ELSE Raise(w, "permanent")
    /\ UNCHANGED <<vars, disk>>

\* _completed_directory_matches: same provenance, same manifest, all content sound.
Matches(w) ==
    LET there == installed[D(w)] IN
        /\ there.model = local[w].model /\ there.tree.sums = "ok"
        /\ Verified(there.tree)

CheckDestination(w) ==
    /\ pc[w] = "dest"
    /\ IF ~ installed[D(w)].tree.exists THEN Goto(w, "stage") /\ UNCHANGED local
       ELSE IF Matches(w) THEN Goto(w, "adopt") /\ UNCHANGED local
       ELSE Raise(w, "permanent")
    /\ UNCHANGED <<vars, disk>>

\* The destination is already this snapshot: every file row is completed, and
\* _pull_job returns without mark_verifying.
Adopt(w) ==
    /\ pc[w] = "adopt"
    /\ IF local[w].todo \subseteq local[w].kept
       THEN Goto(w, "finish") /\ UNCHANGED <<vars, local>>
       ELSE \E f \in local[w].todo \ local[w].kept :
              Fenced(w, Owns(J(w), T(w), {"downloading", "verifying"}),
                     UpdateFile(J(w), f, T(w)),
                     /\ UNCHANGED pc
                     /\ local' = [local EXCEPT ![w].kept = @ \cup {f}])
    /\ UNCHANGED disk

PrepareStaging(w) ==
    /\ pc[w] = "stage"
    /\ staging' = [staging EXCEPT ![J(w)].exists = TRUE]
    /\ Goto(w, "next")
    /\ UNCHANGED <<vars, local, installed>>

-----------------------------------------------------------------------------
(* transfer of one file.                                                   *)

Take(w, f, label) ==
    /\ Goto(w, label)
    /\ local' = [local EXCEPT ![w] = [@ EXCEPT !.file = f, !.have = {}]]

Skip(w, f) ==
    /\ UNCHANGED pc
    /\ local' = [local EXCEPT ![w].todo = @ \ {f}]

Mutant_NeverReusable(w, f) == FALSE
Reusable(w, f) == Sound(f, staging[J(w)].files[f])

\* A file completed in an earlier claim is kept only when its bytes still hash.
NextFile(w) ==
    /\ pc[w] = "next"
    /\ \/ local[w].todo = {} /\ Goto(w, "mark") /\ UNCHANGED local
       \/ \E f \in local[w].todo :
            IF f \notin local[w].kept THEN Take(w, f, "chunks")
            ELSE IF Reusable(w, f) THEN Skip(w, f)
            ELSE Take(w, f, "forget")
    /\ UNCHANGED <<vars, disk>>

\* The row of a completed file whose copy was missing or wrong goes back, whatever became
\* of that copy since.
Forget(w) ==
    /\ pc[w] = "forget"
    /\ Fenced(w, CanReset(J(w), T(w)), ResetFile(J(w), F(w), T(w), FALSE),
              Goto(w, "chunks") /\ UNCHANGED local)
    /\ UNCHANGED disk

\* The False of a lost claim is ignored here; a layout conflict raises.
PrepareChunksOf(w) ==
    /\ pc[w] = "chunks"
    /\ IF ~ Owns(J(w), T(w), {"downloading", "verifying"})
       THEN Goto(w, "resume") /\ UNCHANGED <<vars, local>>
       ELSE IF LayoutFits(J(w), F(w), ChunkSize)
       THEN PrepareChunks(J(w), F(w), T(w), ChunkSize) /\ Goto(w, "resume") /\ UNCHANGED local
       ELSE Raise(w, "permanent") /\ UNCHANGED vars
    /\ UNCHANGED disk

\* Which chunks to trust; those of a file that is not there are discarded.
ResumeChunks(w) ==
    /\ pc[w] = "resume"
    /\ IF done[J(w)][F(w)] # {} /\ ~ staging[J(w)].files[F(w)].exists
       THEN Goto(w, "discard") /\ UNCHANGED local
       ELSE /\ Goto(w, "open")
            /\ local' = [local EXCEPT ![w].have = done[J(w)][F(w)]]
    /\ UNCHANGED <<vars, disk>>

DiscardChunks(w) ==
    /\ pc[w] = "discard"
    /\ Fenced(w, CanReset(J(w), T(w)), ResetFile(J(w), F(w), T(w), FALSE),
              Goto(w, "open") /\ UNCHANGED local)
    /\ UNCHANGED disk

\* The access check, then _prepare_partial, which creates a missing directory again.
OpenFile(w) ==
    /\ pc[w] = "open"
    /\ \/ /\ staging' = [staging EXCEPT ![J(w)].exists = TRUE,
                                        ![J(w)].files[F(w)].exists = TRUE]
          /\ Goto(w, "fetch")
          /\ local' = [local EXCEPT ![w].open = "staging"]
       \/ /\ "offline" \in Events
          /\ \E e \in {"retryable", "permanent"} : Raise(w, e)
          /\ UNCHANGED staging
    /\ UNCHANGED <<vars, installed>>

\* The file behind the open descriptor of w becomes g(file).
Through(w, file) ==
    IF local[w].open = "staging"
    THEN /\ staging' = [staging EXCEPT ![J(w)].files[F(w)] = file]
         /\ UNCHANGED installed
    ELSE /\ installed' = [installed EXCEPT ![D(w)].tree.files[F(w)] = file]
         /\ UNCHANGED staging

Opened(w) ==
    IF local[w].open = "staging" THEN staging[J(w)].files[F(w)]
    ELSE installed[D(w)].tree.files[F(w)]

Stopping(w) == local[w].stop \/ local[w].shutdown

Written(file, r, served) ==
    [file EXCEPT !.good  = IF served = "good" THEN @ \cup {r} ELSE @ \ {r},
                 !.bad   = IF served = "bad" THEN @ \cup {r} ELSE @ \ {r},
                 !.dirty = IF r \in file.good \cup file.bad THEN @ ELSE @ \cup {r}]

\* A range is written block by block; should_cancel is asked before every block.  A range
\* is bad when the source served other bytes, or when the disk was full in the middle of a
\* block: _write_block does not look at how much os.pwrite wrote.
WriteRange(w, r) ==
    /\ pc[w] \in {"fetch", "record"}
    /\ ~ Stopping(w)
    /\ r \in Chunks(F(w)) \ (local[w].have \cup local[w].wrote)
    /\ \E served \in {"good", "bad"} :
          /\ served = "bad" =>
                "badbytes" \in Events /\ integrity[J(w)][F(w)] < MaxIntegrity
          /\ Through(w, Written(Opened(w), r, served))
    /\ local' = [local EXCEPT ![w].wrote = @ \cup {r}]
    /\ UNCHANGED <<vars, pc>>

StopFetching(w) ==
    /\ pc[w] = "fetch" /\ local[w].have # Chunks(F(w))
    /\ \/ Stopping(w) /\ Raise(w, "cancelled")
       \/ "deadline" \in Events /\ Raise(w, "deadline")
    /\ UNCHANGED <<vars, disk>>

Mutant_NotSynced(file) == file
Synced(file) == [file EXCEPT !.dirty = {}]

\* Under pull_file_with_state's lock: fsync of the whole file, then mark_complete.
SyncRange(w, r) ==
    /\ pc[w] = "fetch" /\ r \in local[w].wrote
    /\ Through(w, Synced(Opened(w)))
    /\ local' = [local EXCEPT ![w].range = r]
    /\ Goto(w, "record")
    /\ UNCHANGED vars

RecordChunk(w) ==
    LET r == local[w].range
        have == local[w].have \cup {r}
    IN  /\ pc[w] = "record"
        /\ Fenced(w, CanRecordProgress(J(w), F(w), T(w), BytesOf(have)),
                  RecordProgress(J(w), F(w), T(w), BytesOf(have), r),
                  /\ Goto(w, "fetch")
                  /\ local' = [local EXCEPT ![w] =
                               [@ EXCEPT !.have = have, !.wrote = local[w].wrote \ {r},
                                         !.range = <<>>]])
        /\ UNCHANGED disk

\* A failed attempt leaves an error row; the range is tried again, or gives up.
RangeFails(w) ==
    /\ pc[w] = "fetch" /\ "offline" \in Events
    /\ local[w].have \cup local[w].wrote # Chunks(F(w))
    /\ Fenced(w, CanRecordError(J(w), T(w)), RecordError(J(w), T(w)),
              \/ UNCHANGED <<pc, local>>
              \/ \E e \in {"retryable", "permanent"} : Raise(w, e))
    /\ UNCHANGED disk

FetchDone(w) ==
    /\ pc[w] = "fetch" /\ local[w].have = Chunks(F(w))
    /\ Through(w, Synced(Opened(w)))
    /\ Goto(w, "verify")
    /\ local' = [local EXCEPT ![w].open = "none"]
    /\ UNCHANGED vars

Mutant_SizeIsEnough(w) == TRUE
Hashes(w) == Sound(F(w), staging[J(w)].files[F(w)])

\* The size check and both hashes read the file by its name in staging.
VerifyFile(w) ==
    /\ pc[w] = "verify"
    /\ IF ~ staging[J(w)].files[F(w)].exists THEN Raise(w, "permanent")
       ELSE /\ Goto(w, IF Hashes(w) THEN "update" ELSE "mismatch")
            /\ UNCHANGED local
    /\ UNCHANGED <<vars, disk>>

\* record_error, then reset_file; the result of neither is looked at.
Mismatch(w) ==
    /\ pc[w] = "mismatch"
    /\ IF CanRecordError(J(w), T(w)) THEN RecordError(J(w), T(w)) ELSE UNCHANGED vars
    /\ Goto(w, "reset")
    /\ UNCHANGED <<local, disk>>

ResetCorrupt(w) ==
    /\ pc[w] = "reset"
    /\ IF CanReset(J(w), T(w)) THEN ResetFile(J(w), F(w), T(w), TRUE) ELSE UNCHANGED vars
    /\ Raise(w, "mismatch")
    /\ UNCHANGED disk

CompleteFile(w) ==
    /\ pc[w] = "update"
    /\ Fenced(w, Owns(J(w), T(w), {"downloading", "verifying"}),
              UpdateFile(J(w), F(w), T(w)),
              /\ Goto(w, "next")
              /\ local' = [local EXCEPT ![w] =
                               [@ EXCEPT !.todo = local[w].todo \ {F(w)}, !.file = "none",
                                         !.have = {}]])
    /\ UNCHANGED disk

-----------------------------------------------------------------------------
(* _pull_job after the files, and the end of _execute.                     *)

Mark(w) ==
    /\ pc[w] = "mark"
    /\ Fenced(w, CanMarkVerifying(J(w), T(w)), MarkVerifying(J(w), T(w)),
              Goto(w, "sums") /\ local' = [local EXCEPT ![w].kept = {}])
    /\ UNCHANGED disk

\* _write_bytes opens SHA256SUMS with O_TRUNC ...
OpenSums(w) ==
    /\ pc[w] = "sums"
    /\ IF staging[J(w)].exists
       THEN /\ staging' = [staging EXCEPT ![J(w)].sums = "torn"]
            /\ Goto(w, "sums2")
            /\ local' = [local EXCEPT ![w].open = "staging"]
       ELSE Raise(w, "permanent") /\ UNCHANGED staging
    /\ UNCHANGED <<vars, installed>>

\* ... then writes and fsyncs it.
WriteSums(w) ==
    /\ pc[w] = "sums2"
    /\ IF local[w].open = "staging"
       THEN staging' = [staging EXCEPT ![J(w)].sums = "ok"] /\ UNCHANGED installed
       ELSE installed' = [installed EXCEPT ![D(w)].tree.sums = "ok"] /\ UNCHANGED staging
    /\ Goto(w, "check")
    /\ local' = [local EXCEPT ![w].open = "none"]
    /\ UNCHANGED vars

Mutant_FinishBeforeRename(w) ==
    /\ pc[w] = "check"
    /\ Goto(w, "finish")
    /\ UNCHANGED <<vars, local, disk>>
LastCheck(w) ==
    /\ pc[w] = "check"
    /\ IF CancellationRequested(J(w), T(w)) THEN Raise(w, "cancelled")
       ELSE Goto(w, "rename") /\ UNCHANGED local
    /\ UNCHANGED <<vars, disk>>

\* os.replace: fails without a source, and onto a directory that is not empty.
Publish(w) ==
    /\ pc[w] = "rename"
    /\ IF staging[J(w)].exists /\ ~ installed[D(w)].tree.exists
       THEN /\ installed' = [installed EXCEPT ![D(w)] =
                   [tree |-> staging[J(w)], model |-> local[w].model, job |-> J(w),
                    settled |-> "lostrename" \notin Events]]
            /\ staging' = [staging EXCEPT ![J(w)] = NoTree]
            /\ local' = [v \in Workers |->
                   IF J(v) = J(w) /\ local[v].open = "staging"
                   THEN [local[v] EXCEPT !.open = "installed"] ELSE local[v]]
            /\ Goto(w, "finish")
       ELSE Raise(w, "permanent") /\ UNCHANGED disk
    /\ UNCHANGED vars

\* The worker polls again.
End(w) == Leave(w, "idle")

FinishCompleted(w) ==
    /\ pc[w] = "finish"
    /\ Fenced(w, CanFinish(J(w), T(w), "completed"), Finish(J(w), T(w), "completed"), End(w))
    /\ UNCHANGED disk

-----------------------------------------------------------------------------
(* The except clauses of _execute.                                         *)

\* Both clauses first read the job.  A missing row raises JobNotFoundError out of
\* the handler, out of _execute and out of _worker: the task is gone.
ReadForHandler(w) ==
    /\ pc[w] = "handler"
    /\ IF Row(J(w))
       THEN /\ Goto(w, "settle")
            /\ local' = [local EXCEPT ![w].seen = state[J(w)]]
       ELSE Leave(w, "dead")
    /\ UNCHANGED <<vars, disk>>

\* A store call raises (a busy timeout, a full disk).  In _pull_job that is a permanent
\* failure of the run; in claim or in a handler nothing catches it.
StoreCalls == {"save", "rows", "adopt", "forget", "chunks", "resume", "discard", "record",
               "mismatch", "reset", "update", "mark", "check", "finish"}
HandlerCalls == {"handler", "settle", "report", "schedule", "fail"}

StoreFails(w) ==
    /\ "busy" \in Events
    /\ \/ pc[w] \in StoreCalls /\ Raise(w, "permanent")
       \/ Polls(w) /\ Goto(w, "dead") /\ UNCHANGED local
       \/ pc[w] \in HandlerCalls /\ Leave(w, "dead")
    /\ UNCHANGED <<vars, disk>>

\* A last store call whose result is not looked at.
Closing(w, allowed, op) ==
    /\ IF allowed THEN op ELSE UNCHANGED vars
    /\ End(w)
    /\ UNCHANGED disk

CanRelease(w) == Owns(J(w), T(w), Held)

SettleCancelled(w) ==
    /\ pc[w] = "settle" /\ local[w].exc \in {"cancelled", "deadline"}
    /\ \/ local[w].shutdown
       \/ local[w].exc = "cancelled" /\ local[w].seen # "cancel_requested"
    /\ Closing(w, CanRelease(w), Release(J(w), T(w)))

\* DownloadCancelled stands for a lost claim as well as for a cancellation.
Mutant_SettleAnyCancelled(w) ==
    /\ pc[w] = "settle"
    /\ local[w].seen = "cancel_requested" \/ local[w].exc = "cancelled"
    /\ local[w].exc # "deadline"
    /\ local[w].exc = "cancelled" => ~ local[w].shutdown
    /\ Closing(w, CanFinish(J(w), T(w), "cancelled"), Finish(J(w), T(w), "cancelled"))
SettleCancelRequested(w) ==
    /\ pc[w] = "settle" /\ local[w].seen = "cancel_requested"
    /\ local[w].exc # "deadline"
    /\ local[w].exc = "cancelled" => ~ local[w].shutdown
    /\ Closing(w, CanFinish(J(w), T(w), "cancelled"), Finish(J(w), T(w), "cancelled"))

IntegrityExhausted(w) == \E f \in Files : integrity[J(w)][f] > IntegrityRetries

\* Whether the failure is scheduled for a retry; stalled stands for no_progress_timeout.
SettleFailure(w) ==
    /\ pc[w] = "settle"
    /\ \/ local[w].exc = "deadline" /\ ~ local[w].shutdown
       \/ local[w].exc \notin {"cancelled", "deadline"}
            /\ local[w].seen # "cancel_requested"
    /\ \E stalled \in IF "stall" \in Events THEN BOOLEAN ELSE {FALSE} :
          LET retryable == /\ local[w].exc \in {"retryable", "mismatch"}
                           /\ ~ stalled
                           /\ local[w].exc = "mismatch" => ~ IntegrityExhausted(w)
          IN  local' = [local EXCEPT ![w].exc = IF retryable THEN "retry" ELSE "fail"]
    /\ Goto(w, "report")
    /\ UNCHANGED <<vars, disk>>

Mutant_ReportNothing(w) ==
    /\ pc[w] = "report"
    /\ Goto(w, IF local[w].exc = "retry" THEN "schedule" ELSE "fail")
    /\ UNCHANGED <<vars, local, disk>>
Report(w) ==
    /\ pc[w] = "report"
    /\ IF CanRecordJobError(J(w), T(w)) THEN RecordJobError(J(w), T(w)) ELSE UNCHANGED vars
    /\ Goto(w, IF local[w].exc = "retry" THEN "schedule" ELSE "fail")
    /\ UNCHANGED <<local, disk>>

Schedule(w) ==
    /\ pc[w] = "schedule"
    /\ \E d \in BOOLEAN : Closing(w, CanRelease(w), ScheduleRetry(J(w), T(w), d))

Fail(w) ==
    /\ pc[w] = "fail"
    /\ Closing(w, CanFinish(J(w), T(w), "failed"), Finish(J(w), T(w), "failed"))

-----------------------------------------------------------------------------
(* The environment.                                                        *)

\* Users of the queue; the in-process cancel event only hastens the heartbeat.
UserStep(j) ==
    /\ \/ \E m \in Models, d \in Destinations :
             EnqueueInserts(j, m, d) \/ ("retry" \in Events /\ EnqueueRequeues(j, m, d))
       \/ "retry" \in Events /\ Retry(j)
       \/ "cancel" \in Events /\ RequestCancel(j)
       \/ "dismiss" \in Events /\ Dismiss(j)
    /\ UNCHANGED <<pc, local, disk>>

\* No running worker still renews the lease.
Abandoned(j) ==
    ~ \E w \in Workers : /\ Working(w) /\ J(w) = j /\ T(w) = token[j]
                         /\ manager # "closing"
                         /\ ~ local[w].stop /\ ~ local[w].shutdown

\* A lease outlives its worker, or a worker that is late ("late") its lease.
LeaseRunsOut(j) ==
    /\ "late" \in Events \/ Abandoned(j)
    /\ LeaseExpires(j)
    /\ UNCHANGED <<pc, local, disk>>

BackoffElapses(j) == RetryDue(j) /\ UNCHANGED <<pc, local, disk>>

\* close: _stop, and the shutdown event of every run in the registry; then it waits for
\* the worker tasks.  A closed manager is started again (one close in each behaviour).
Close ==
    /\ "shutdown" \in Events /\ manager = "running"
    /\ manager' = "closing"
    /\ local' = [w \in Workers |-> [local[w] EXCEPT !.shutdown = local[w].registered]]
    /\ UNCHANGED <<vars, pc, disk>>

CloseReturns ==
    /\ manager = "closing"
    /\ \A w \in Workers : pc[w] \in {"exited", "dead"}
    /\ manager' = "restarted"
    /\ pc' = [w \in Workers |-> "idle"]
    /\ UNCHANGED <<vars, local, disk>>

NextProcess == manager' = IF manager = "closing" THEN "restarted" ELSE manager

AllDown ==
    /\ pc' = [w \in Workers |-> "idle"] /\ local' = [w \in Workers |-> Idle]
    /\ NextProcess

\* A process dies: that of the one manager, or that of one worker among several.
Crash(w) ==
    /\ "crash" \in Events /\ pc[w] # "idle"
    /\ IF "shutdown" \in Events THEN AllDown ELSE End(w) /\ NextProcess
    /\ UNCHANGED <<vars, disk>>

\* What no fsync covered reads back as zeros.
Unsynced(file) == [file EXCEPT !.good = @ \ file.dirty, !.bad = @ \ file.dirty, !.dirty = {}]
AfterPowerLoss(tree) == [tree EXCEPT !.files = [f \in Files |-> Unsynced(@[f])]]

PowerLoss ==
    /\ "powerloss" \in Events /\ \E w \in Workers : Working(w)
    /\ AllDown
    /\ staging' = [j \in JobIds |-> AfterPowerLoss(staging[j])]
    /\ installed' = [d \in Destinations |->
                       [installed[d] EXCEPT !.tree = AfterPowerLoss(@)]]
    /\ UNCHANGED vars

\* The directory was not fsynced after os.replace: a power loss undoes the rename.
LoseRename(d) ==
    /\ "lostrename" \in Events /\ ~ installed[d].settled
    /\ AllDown
    /\ staging' = [staging EXCEPT ![installed[d].job] = installed[d].tree]
    /\ installed' = [installed EXCEPT ![d] = Nothing]
    /\ UNCHANGED vars

\* A partial file is removed by hand while no worker has the job.
Quiet(j) == ~ \E w \in Workers : Working(w) /\ J(w) = j
LoseCopy(j, f) ==
    /\ "lostcopy" \in Events /\ Quiet(j)
    /\ staging[j].files[f].exists
    /\ staging' = [staging EXCEPT ![j].files[f] = NoFile]
    /\ UNCHANGED <<vars, pc, local, installed>>

RenameSettles(d) ==
    /\ ~ installed[d].settled
    /\ installed' = [installed EXCEPT ![d].settled = TRUE]
    /\ UNCHANGED <<vars, pc, local, staging>>

-----------------------------------------------------------------------------
PullInit ==
    /\ Init
    /\ pc = [w \in Workers |-> "idle"]
    /\ local = [w \in Workers |-> Idle]
    /\ staging = [j \in JobIds |-> NoTree]
    /\ installed = [d \in Destinations |-> Nothing]
    /\ manager = "running"

TransferStep(w) ==
    \/ NextFile(w) \/ Forget(w) \/ PrepareChunksOf(w) \/ ResumeChunks(w) \/ DiscardChunks(w)
    \/ OpenFile(w)
    \/ /\ pc[w] \in {"fetch", "record"}
       /\ \E r \in Chunks(F(w)) : WriteRange(w, r) \/ SyncRange(w, r)
    \/ StopFetching(w) \/ RecordChunk(w) \/ RangeFails(w) \/ FetchDone(w)
    \/ VerifyFile(w) \/ Mismatch(w) \/ ResetCorrupt(w) \/ CompleteFile(w)

RunStep(w) ==
    \/ Register(w) \/ WorkerExits(w) \/ StoreFails(w)
    \/ Inventory(w) \/ Save(w)
    \/ ReadRows(w) \/ CheckDestination(w) \/ Adopt(w) \/ PrepareStaging(w)
    \/ TransferStep(w)
    \/ Mark(w) \/ OpenSums(w) \/ WriteSums(w) \/ LastCheck(w) \/ Publish(w)
    \/ FinishCompleted(w)
    \/ ReadForHandler(w) \/ SettleCancelled(w) \/ SettleCancelRequested(w)
    \/ SettleFailure(w) \/ Report(w) \/ Schedule(w) \/ Fail(w)

WorkerStep(w) == RunStep(w) /\ UNCHANGED manager

WorkerPoll(w) ==
    /\ WorkerFindsNothing(w) \/ \E k \in JobIds : WorkerClaims(w, k)
    /\ UNCHANGED manager

Around ==
    /\ \/ \E w \in Workers : HeartbeatTask(w)
       \/ \E j \in JobIds : \/ UserStep(j) \/ LeaseRunsOut(j) \/ BackoffElapses(j)
                            \/ \E f \in Files : LoseCopy(j, f)
       \/ \E d \in Destinations : RenameSettles(d)
    /\ UNCHANGED manager

PullNext ==
    \/ \E w \in Workers : WorkerPoll(w) \/ WorkerStep(w) \/ Crash(w)
    \/ Around
    \/ Close \/ CloseReturns
    \/ PowerLoss \/ \E d \in Destinations : LoseRename(d)

PullSpec == PullInit /\ [][PullNext]_pullVars

\* Event loops run their tasks, and the lease of a worker that is gone runs out.
PullFairness ==
    /\ \A w \in Workers : WF_pullVars(WorkerStep(w)) /\ WF_pullVars(WorkerPoll(w))
    /\ WF_pullVars(CloseReturns)
    /\ \A j \in JobIds : WF_pullVars(Abandoned(j) /\ LeaseRunsOut(j) /\ UNCHANGED manager)

FairPullSpec == PullSpec /\ PullFairness

-----------------------------------------------------------------------------
(* Properties.                                                             *)

\* docs/requirements.md:118: a chunk is recorded only after its range was written
\* and fsynced.  When the next claim of an unpublished job finds a file in staging,
\* every chunk recorded for it is there and survives a power loss, whoever wrote it.
Published(j) == \E d \in Destinations : installed[d].job = j
RecordedIsDurable ==
    \A j \in JobIds, f \in Files :
        Quiet(j) /\ ~ Published(j) /\ staging[j].files[f].exists =>
        LET file == staging[j].files[f] IN
            done[j][f] \subseteq (file.good \cup file.bad) \ file.dirty

\* Nothing is published but a complete model: every file hashes to the snapshot.
PublishedIsVerified ==
    \A d \in Destinations :
        installed[d].tree.exists => Verified(installed[d].tree)

\* Publication is atomic: a published directory has its whole SHA256SUMS.
PublishedHasSums ==
    \A d \in Destinations :
        installed[d].tree.exists => installed[d].tree.sums = "ok"

\* A completed job's model stands at its destination.
CompletedIsInstalled ==
    \A j \in JobIds : state[j] = "completed" =>
        /\ installed[destination[j]].model = model[j]
        /\ Verified(installed[destination[j]].tree)

\* A job that waits for a retry has an error row that says why.
RetryIsExplained ==
    \A j \in JobIds : state[j] = "retry_wait" => runs[j] \in errors[j]

\* docs/requirements.md:284: what was verified is not downloaded again.  A completed
\* file goes back only while its copy in staging does not hash to the snapshot, although the
\* look at the copy and the reset are two steps and late runs write between them.  The code
\* does not keep that once the destination has been taken meanwhile (a late run of the job
\* published the directory and another one writes a new copy): this run cannot publish then.
VerifiedIsKept ==
    [][\A j \in JobIds, f \in Files :
          (fstate[j][f] = "completed" /\ fstate'[j][f] # "completed"
             /\ state'[j] # "dismissed")
             => \/ ~ Sound(f, staging[j].files[f])
                \/ installed[destination[j]].tree.exists]_pullVars

\* docs/requirements.md:306: a stale worker is unable to mutate the job.  A run whose job was
\* requeued, cancelled or claimed by another worker changes no file or chunk row of it
\* from then on, whichever call it is at: record_progress and reset_file (manager.py:600
\* and 738) do not look at the state of the job, only at the token.
FencedRunsWriteNothing ==
    [][\A w \in Workers :
          Working(w) /\ token[J(w)] # T(w)
             /\ <<pc[w], local[w].kept>>' # <<pc[w], local[w].kept>>
             => SameRows(J(w))]_pullVars

\* Every run of a job comes to an end: its worker finishes or gives it up, or dies
\* and the lapsed lease lets another worker claim it (up to the bound on runs).
RunEnds ==
    \A j \in JobIds, t \in 1 .. MaxRuns - 1 : token[j] = t ~> token[j] # t

\* tests/test_directory_download.py:341 and docs/requirements.md:514: a worker that
\* took over after a crash between the rename and finish, and still holds its
\* claim, can complete the job.
RecoveredJobCanFinish ==
    \A w \in Workers :
        pc[w] = "finish" /\ Owns(J(w), T(w), Held) => CanFinish(J(w), T(w), "completed")

\* The store refuses the call that w is about to make, and DownloadCancelled("download lease was
\* lost") is raised, or the refusal ignored.  (With no file in kept, w came past mark_verifying;
\* what finish says to a run that adopted its destination is RecoveredJobCanFinish.)
Refused(w) ==
    \/ pc[w] = "save" /\ ~ Owns(J(w), T(w), {"snapshotting"})
    \/ pc[w] \in {"adopt", "chunks", "update"} /\ ~ Owns(J(w), T(w), {"downloading", "verifying"})
    \/ pc[w] \in {"forget", "discard", "reset"} /\ ~ CanReset(J(w), T(w))
    \/ pc[w] \in {"fetch", "mismatch"} /\ ~ CanRecordError(J(w), T(w))
    \/ /\ pc[w] = "record"
       /\ ~ CanRecordProgress(J(w), F(w), T(w), BytesOf(local[w].have \cup {local[w].range}))
    \/ pc[w] = "mark" /\ ~ CanMarkVerifying(J(w), T(w))
    \/ pc[w] = "check" /\ CancellationRequested(J(w), T(w))
    \/ pc[w] = "finish" /\ local[w].kept = {} /\ ~ CanFinish(J(w), T(w), "completed")

\* async_client.py:260 to 431 say "download lease was lost" of every refused call, and
\* manager.py:1162 then puts the job back in the queue with no error row and no delay: a refusal
\* of a claim that is current would be met again at once, for ever.  The store's guards (states,
\* counters of files and bytes, sizes) refuse a run nothing until its claim is lost or a user
\* cancels, whatever earlier and late runs left in the rows.
RefusalMeansLost ==
    \A w \in Workers : Working(w) /\ Refused(w) =>
        token[J(w)] # T(w) \/ state[J(w)] = "cancel_requested"

\* docs/requirements.md:275: workers finalise a requested cancellation as cancelled.
CancelEndsCancelled ==
    [][\A j \in JobIds : state[j] = "cancel_requested" =>
          state'[j] \in {"cancel_requested", "cancelled"}]_pullVars

\* close returns, whatever the worker tasks are doing when it is called, the claims in
\* flight that it cannot tell to stop included.
CloseEnds == manager = "closing" ~> manager # "closing"

\* docs/requirements.md:311: polling is the reliable wake-up mechanism, so a worker
\* task goes on polling whatever happens to the jobs it ran.
WorkersSurvive == \A w \in Workers : pc[w] # "dead"
=============================================================================
