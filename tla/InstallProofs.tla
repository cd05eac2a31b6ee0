---------------------------- MODULE InstallProofs ----------------------------
(***************************************************************************)
(* What is published is the whole model, and what is completed is          *)
(* published, for every number of workers, jobs and destinations, as long  *)
(* as no power loss undoes a rename, and either the source serves the      *)
(* snapshot's bytes or no job ever has two runs at once (Harmless).        *)
(*                                                                         *)
(* The argument.  A file that hashed after its transfer is whole and       *)
(* durable (Settled), and stays so while its directory is in staging: late *)
(* workers only write the same bytes again, and the only run of a job is   *)
(* done with the file (Unshared).  A run whose claim is current has        *)
(* settled every file it no longer has to do (Planned); once the queue has *)
(* let it mark the job as verifying, all files are, and it may be late     *)
(* from then on (Prepared).  All this holds unless something stands at the *)
(* destination already, when the run can publish nothing.  A completed     *)
(* file that a run has found missing is still missing when the run resets  *)
(* its row (Missing): no run that goes on creates it again (VerifiedKept). *)
(*                                                                         *)
(* Then, how many runs a job may have at once (RunsAreSole), and what it   *)
(* means that the store refuses a call of a run (RefusalsExplained).       *)
(***************************************************************************)
EXTENDS DurableProofs

-----------------------------------------------------------------------------
(* How a file becomes completed, and a job.                                *)

\* A run says that the file f of j is completed, having adopted what stands at the
\* destination, or transferred f.
Completes(w, j, f) ==
    /\ Working(w) /\ J(w) = j /\ Current(w)
    /\ pc[w] = "adopt" \/ (pc[w] = "update" /\ F(w) = f)

LEMMA CompletedStep ==
    ASSUME PullInv, [PullNext]_pullVars, NEW j \in JobIds, NEW f \in Files,
           fstate'[j][f] = "completed"
    PROVE  \/ fstate[j][f] = "completed" /\ state'[j] # "dismissed"
           \/ fstate[j][f] = "completed" /\ ~ Row(j)
           \/ /\ state'[j] = state[j]
              /\ \E w \in Workers : RunStep(w) /\ Completes(w, j, f)
  <1>q. QueueInv /\ TypeOK /\ Shape
    BY DEF PullInv, QueueInv
  <1> DEFINE Before == fstate[j][f] = "completed" /\ (state'[j] # "dismissed" \/ ~ Row(j))
  <1>v. fstate'[j] = fstate[j] /\ state'[j] # "dismissed" => Before
    OBVIOUS
  <1>u. UNCHANGED <<fstate, state>> => Before
    BY DEF Row, NoRow
  <1>1. CASE Apart
    <2>1. CASE ClaimNothing
      BY <2>1 DEF ClaimNothing, rows, Reapable, Row, NoRow
    <2>2. ASSUME NEW i \in JobIds, Dismiss(i)
          PROVE  Before
      <3>1. i # j
        BY <1>q, <2>2 DEF Dismiss, NoFiles, TypeOK
      <3> QED
        BY <1>q, <1>u, <2>2, <3>1 DEF Dismiss, TypeOK, Row, NoRow
    <2>3. ASSUME NEW i \in JobIds, Submit(i) \/ Tick(i), ~ Dismiss(i)
          PROVE  Before
      <3>1. fstate' = fstate /\ (state'[j] = "dismissed" => state[j] = "dismissed")
        BY <1>q, <2>3 DEF Submit, Tick, EnqueueRequeues, EnqueueInserts, Retry, RequestCancel,
                    LeaseExpires, RetryDue, rows, TypeOK
      <3> QED
        BY <3>1 DEF Row, NoRow
    <2>4. CASE UNCHANGED vars
      BY <1>u, <2>4 DEF vars, rows
    <2> QED
      BY <1>1, <2>1, <2>2, <2>3, <2>4 DEF Apart
  <1>2. CASE Outside
    BY <1>2, <1>u DEF Outside, vars, rows
  <1>3. ASSUME NEW w \in Workers, Beats(w)
        PROVE  Before
    BY <1>3, <1>u DEF Beats, Heartbeat, rows
  <1>4. ASSUME NEW w \in Workers, RunStep(w)
        PROVE  Before \/ (state'[j] = state[j] /\ Completes(w, j, f))
    <2>1. CASE ~ Working(w)
      BY <1>4, <1>u, <2>1, RestingCalls DEF vars, rows
    <2>2. CASE Working(w)
      <3>1. RunInv(w) /\ TypedRun(w) /\ J(w) \in JobIds /\ Calls(w)
        BY <1>4, <2>2, <1>q, RunCalls DEF PullInv, RunInv, TypedRun
      <3>2. ASSUME NEW g \in Files, UpdateFile(J(w), g, T(w)),
                   pc[w] = "adopt" \/ (pc[w] = "update" /\ g = F(w))
            PROVE  Before \/ (state'[j] = state[j] /\ Completes(w, j, f))
        <4>1. j = J(w) /\ f = g => state' = state /\ Completes(w, j, f)
          BY <2>2, <3>2 DEF UpdateFile, Owns, Presents, Completes, Current
        <4>2. ~ (j = J(w) /\ f = g) => UNCHANGED state /\ fstate'[j][f] = fstate[j][f]
          BY <1>q, <3>1, <3>2 DEF UpdateFile, TypeOK
        <4> QED
          BY <4>1, <4>2 DEF Row, NoRow
      <3>3. CASE SaveSnapshot(J(w), T(w))
        <4>1. fstate'[j] = fstate[j] \/ fstate'[j] = NoFiles("queued")
          BY <1>q, <3>1, <3>3 DEF SaveSnapshot, TypeOK
        <4>2. state'[j] \in {state[j], "downloading"}
          BY <1>q, <3>1, <3>3 DEF SaveSnapshot, TypeOK
        <4> QED
          BY <4>1, <4>2 DEF Row, NoRow, NoFiles
      <3>4. CASE \/ RecordProgress(J(w), F(w), T(w),
                         BytesOf(local[w].have \cup {local[w].range}), local[w].range)
                 \/ \E g \in Files, bad \in BOOLEAN : ResetFile(J(w), g, T(w), bad)
        <4>1. state' = state
          BY <3>4 DEF RecordProgress, ResetFile
        <4>2. fstate'[j][f] \in {fstate[j][f], "downloading", "failed"}
          <5>1. ASSUME NEW g \in Files, NEW bad \in BOOLEAN, ResetFile(J(w), g, T(w), bad)
                PROVE  fstate'[j][f] \in {fstate[j][f], "failed"}
            BY <1>q, <3>1, <5>1 DEF ResetFile, TypeOK
          <5>2. ASSUME NEW b, NEW r, RecordProgress(J(w), F(w), T(w), b, r)
                PROVE  fstate'[j][f] \in {fstate[j][f], "downloading"}
            BY <1>q, <3>1, <5>2 DEF RecordProgress, TypeOK
          <5> QED
            BY <3>4, <5>1, <5>2
        <4> QED
          BY <4>1, <4>2 DEF Row, NoRow
      <3>5. CASE fstate' = fstate /\ state'[j] \in {state[j], "verifying", "completed", "failed",
                                                    "cancelled", "queued", "retry_wait"}
        BY <3>5 DEF Row, NoRow
      <3>6. \/ UNCHANGED vars \/ PrepareChunks(J(w), F(w), T(w), ChunkSize)
            \/ RecordError(J(w), T(w)) \/ RecordJobError(J(w), T(w)) \/ MarkVerifying(J(w), T(w))
            \/ Release(J(w), T(w)) \/ (\E d \in BOOLEAN : ScheduleRetry(J(w), T(w), d))
            \/ (\E s \in Terminal : Finish(J(w), T(w), s))
            => fstate' = fstate /\ state'[j] \in {state[j], "verifying", "completed", "failed",
                                                  "cancelled", "queued", "retry_wait"}
        BY <1>q, <3>1 DEF vars, rows, PrepareChunks, RecordError, RecordJobError, MarkVerifying,
           Release, ScheduleRetry, Finish, Terminal, TypeOK
      <3> QED
        BY <3>1, <3>2, <3>3, <3>4, <3>5, <3>6 DEF Calls, Terminal
    <2> QED
      BY <2>1, <2>2
  <1>5. ASSUME NEW w \in Workers, NEW k \in JobIds, WorkerClaims(w, k)
        PROVE  Before
    <2>1. fstate' = fstate /\ (state'[j] = "dismissed" => state[j] = "dismissed")
      BY <1>5 DEF WorkerClaims, Claim, Claimed, rows
    <2> QED
      BY <2>1 DEF Row, NoRow
  <1> QED
    BY <1>q, <1>1, <1>2, <1>3, <1>4, <1>5, Kinds

\* Only a run at its last call completes a job.
LEMMA FinishedStep ==
    ASSUME PullInv, [PullNext]_pullVars, NEW j \in JobIds, state'[j] = "completed"
    PROVE  \/ state[j] = "completed"
           \/ Row(j) /\ \E w \in Workers : Working(w) /\ J(w) = j /\ pc[w] = "finish"
  <1>q. QueueInv /\ TypeOK /\ Shape
    BY DEF PullInv, QueueInv
  <1>1. CASE Apart
    <2>1. CASE ClaimNothing
      BY <2>1 DEF ClaimNothing
    <2>2. ASSUME NEW i \in JobIds, Submit(i) \/ Tick(i)
          PROVE  state[j] = "completed"
      BY <1>q, <2>2 DEF Submit, Tick, EnqueueRequeues, EnqueueInserts, Retry, RequestCancel,
                  Dismiss, LeaseExpires, RetryDue, TypeOK
    <2> QED
      BY <1>1, <2>1, <2>2 DEF Apart, vars
  <1>2. CASE Outside
    BY <1>2 DEF Outside, vars
  <1>3. ASSUME NEW w \in Workers, Beats(w)
        PROVE  state[j] = "completed"
    BY <1>3 DEF Beats, Heartbeat
  <1>4. ASSUME NEW w \in Workers, RunStep(w)
        PROVE  \/ state[j] = "completed"
               \/ Row(j) /\ Working(w) /\ J(w) = j /\ pc[w] = "finish"
    <2>1. CASE ~ Working(w)
      BY <1>4, <2>1, RestingCalls DEF vars
    <2>2. CASE Working(w)
      <3>1. J(w) \in JobIds /\ Calls(w)
        BY <1>4, <2>2, <1>q, RunCalls DEF PullInv, RunInv, TypedRun
      <3>2. CASE pc[w] = "finish" /\ Finish(J(w), T(w), "completed")
        <4>1. state[J(w)] = "verifying"
          BY <3>2 DEF Finish, CanFinish, Owns
        <4>2. j # J(w) => state'[j] = state[j]
          BY <1>q, <3>1, <3>2 DEF Finish, TypeOK
        <4> QED
          BY <2>2, <3>2, <4>1, <4>2 DEF Row, NoRow
      <3>3. CASE ~ (pc[w] = "finish" /\ Finish(J(w), T(w), "completed"))
        BY <1>q, <3>1, <3>3 DEF Calls, vars, SaveSnapshot, PrepareChunks, RecordProgress,
           RecordError, RecordJobError, ResetFile, UpdateFile, MarkVerifying, Finish, Release,
           ScheduleRetry, TypeOK
      <3> QED
        BY <3>2, <3>3
    <2> QED
      BY <2>1, <2>2
  <1>5. ASSUME NEW w \in Workers, NEW k \in JobIds, WorkerClaims(w, k)
        PROVE  state[j] = "completed"
    BY <1>5 DEF WorkerClaims, Claim, Claimed
  <1> QED
    BY <1>q, <1>1, <1>2, <1>3, <1>4, <1>5, Kinds

-----------------------------------------------------------------------------
(* Settled files.                                                          *)

\* A file that hashes to the snapshot and survives a power loss.
Settled(f, file) == Sound(f, file) /\ file.dirty = {}
Settle(j, s)     == \A f \in s : Settled(f, staging[j].files[f])

\* A job has one run at a time: leases do not run out under a worker.
SoleRuns == \A v, w \in Workers : Working(v) /\ Working(w) /\ J(v) = J(w) => v = w

\* If the source may serve other bytes than the snapshot's, runs of one job do not overlap.
Harmless == "badbytes" \in Events => SoleRuns

\* What a file in staging may hold.
CleanFile(f, file) == file.good \subseteq Chunks(f) /\ file.dirty \subseteq Chunks(f)
Clean == \A j \in JobIds, f \in Files : CleanFile(f, staging[j].files[f])

\* A file that was transferred, with the right bytes or others.
Transferred(f, file) == Chunks(f) \subseteq Durable(file)

LEMMA RewritesClean ==
    ASSUME NEW f \in Files, NEW a \in FileType, NEW b, Rewrites(f, a, b), CleanFile(f, a)
    PROVE  CleanFile(f, b)
  <1>1. CASE b = Synced(a)
    BY <1>1 DEF Synced, CleanFile, FileType
  <1>2. ASSUME NEW r \in Chunks(f), NEW s \in {"good", "bad"}, b = Written(a, r, s)
        PROVE  CleanFile(f, b)
    BY <1>2 DEF Written, CleanFile, FileType
  <1> QED
    BY <1>1, <1>2 DEF Rewrites

\* The source's bytes, and an fsync, do a file that was verified no harm.
LEMMA RewritesSettled ==
    ASSUME "badbytes" \notin Events, NEW f \in Files, NEW a \in FileType, NEW b,
           Rewrites(f, a, b), Settled(f, a)
    PROVE  Settled(f, b)
  <1>1. CASE b = Synced(a)
    BY <1>1 DEF Synced, Settled, Sound, FileType
  <1>2. ASSUME NEW r \in Chunks(f), b = Written(a, r, "good")
        PROVE  Settled(f, b)
    <2>1. /\ b.exists = a.exists /\ b.good = a.good \cup {r}
          /\ b.dirty = IF r \in a.good \cup a.bad THEN a.dirty ELSE a.dirty \cup {r}
      BY <1>2 DEF Written, FileType
    <2> QED
      BY <2>1 DEF Settled, Sound
  <1> QED
    BY <1>1, <1>2 DEF Rewrites

LEMMA UnsyncedSettled ==
    ASSUME NEW f \in Files, NEW a \in FileType
    PROVE  /\ Unsynced(a).exists = a.exists
           /\ CleanFile(f, a) => CleanFile(f, Unsynced(a))
           /\ Settled(f, a) => Settled(f, Unsynced(a))
           /\ Durable(Unsynced(a)) = Durable(a)
  BY DEF Unsynced, CleanFile, Settled, Sound, FileType, Durable, Filled

Occupied(d) == installed[d].tree.exists

\* What stands at d stays there.
LEMMA OccupiedKept ==
    ASSUME DiskStep, NEW d \in Destinations, Occupied(d)
    PROVE  /\ Occupied(d)' /\ PlaceStep(d)
           /\ installed'[d].model = installed[d].model /\ installed'[d].job = installed[d].job
  <1>1. PlaceStep(d)
    BY DEF DiskStep, Installs, Occupied
  <1> QED
    BY <1>1 DEF PlaceStep, Occupied

LEMMA InstallsOccupy ==
    ASSUME NEW w \in Workers, Installs(w), NEW d \in Destinations, D(w) = d
    PROVE  Occupied(d)' /\ ~ Occupied(d) /\ pc[w] = "rename"
  BY DEF Installs, Publish, Occupied

\* A directory at a destination is whole and durable; it is there for the runs of the job
\* that installed it, and for that job as long as it has a row.
PlaceInv(d) ==
    Occupied(d) =>
        /\ installed[d].job \in JobIds /\ state[installed[d].job] # "none"
        /\ \A f \in Files : Settled(f, installed[d].tree.files[f])
        /\ Row(installed[d].job) => destination[installed[d].job] = d
        /\ \A w \in Workers : Working(w) /\ J(w) = installed[d].job => D(w) = d

\* The copies in staging of completed files are settled, unless something stands at the
\* destination; a completed job's model stands there.
RowInv(j) ==
    /\ \A f \in Files : fstate[j][f] = "completed" =>
          /\ Row(j)
          /\ ~ Occupied(destination[j]) /\ staging[j].files[f].exists =>
                Settled(f, staging[j].files[f])
    /\ state[j] = "completed" => /\ Occupied(destination[j])
                                 /\ installed[destination[j]].model = model[j]

\* A completed file that has no copy in staging.
Missing(j, f) == fstate[j][f] = "completed" /\ ~ staging[j].files[f].exists

\* A run whose claim is current has settled the files it no longer has to do, and those
\* of earlier claims that it keeps are still completed; the copy of a file that it is
\* about to forget is still missing.
Planned(w) ==
    /\ pc[w] \in PlanPcs \ {"adopt"} => Settle(J(w), Files \ local[w].todo)
    /\ pc[w] = "mark" => Settle(J(w), Files)
    /\ pc[w] \in {"stage", "next", "forget"} \cup FilePcs =>
          \A f \in local[w].todo \cap local[w].kept :
              fstate[J(w)][f] = "completed" \/ (pc[w] \in FilePcs /\ f = F(w))
    /\ pc[w] = "forget" => Missing(J(w), F(w))
    /\ pc[w] = "dest" => \A f \in local[w].kept : fstate[J(w)][f] = "completed"

\* A file that is completed has its copy in staging.
Present(j, f) == fstate[j][f] = "completed" => staging[j].files[f].exists

\* Where a run is going to publish, its file, or all files, are settled; and a file that
\* another run completed meanwhile is there.
Prepared(w) ==
    /\ pc[w] = "verify" => Transferred(F(w), staging[J(w)].files[F(w)])
    /\ pc[w] = "update" => Settle(J(w), {F(w)})
    /\ pc[w] \in {"sums", "sums2", "check", "rename"} => Settle(J(w), Files)
    /\ pc[w] \in PlanPcs => \A f \in local[w].todo \ local[w].kept : Present(J(w), f)
    /\ pc[w] \in FilePcs => Present(J(w), F(w))
    /\ Current(w) => Planned(w)

\* A run that adopts what it found, or has published, sees its model there.
Finds(w) == pc[w] \in {"adopt", "finish"} =>
                Occupied(D(w)) /\ installed[D(w)].model = local[w].model

Ready(w) == Finds(w) /\ (~ Occupied(D(w)) => Prepared(w))

\* What a run is going to transfer is not completed yet.
Ahead(w) ==
    /\ pc[w] \in PlanPcs =>
          \A f \in local[w].todo \ local[w].kept : fstate[J(w)][f] # "completed"
    /\ pc[w] \in FilePcs => fstate[J(w)][F(w)] # "completed"

\* So it is for the only run of a job even when its token was replaced, and the directory that
\* it writes in is in staging.
Unshared(w) ==
    /\ Ahead(w)
    /\ pc[w] \in {"stage", "next", "forget"} \cup FilePcs => ~ Stood(J(w))

InstallInv ==
    /\ Clean
    /\ \A d \in Destinations : PlaceInv(d)
    /\ \A j \in JobIds : RowInv(j)
    /\ \A w \in Workers : Working(w) => Ready(w)
    /\ "badbytes" \in Events => \A w \in Workers : Working(w) => Unshared(w)

LEMMA CleanNext ==
    ASSUME DiskTyped, DiskStep, Clean
    PROVE  Clean'
  <1> SUFFICES ASSUME NEW j \in JobIds, NEW f \in Files
               PROVE  CleanFile(f, staging'[j].files[f])
    BY DEF Clean, CleanFile, Chunks
  <1>1. staging[j].files[f] \in FileType /\ CleanFile(f, staging[j].files[f])
    BY DEF DiskTyped, TreeType, Clean
  <1>2. CASE StagedStep(j, f)
    <2>1. CleanFile(f, NoFile)
      BY DEF CleanFile, NoFile
    <2>2. CleanFile(f, [staging[j].files[f] EXCEPT !.exists = TRUE])
      BY <1>1 DEF CleanFile, FileType
    <2> QED
      BY <1>1, <1>2, <2>1, <2>2, RewritesClean, UnsyncedSettled DEF StagedStep
  <1>3. ASSUME NEW w \in Workers, Installs(w), J(w) = j
        PROVE  CleanFile(f, staging'[j].files[f])
    <2>1. staging' = [staging EXCEPT ![J(w)] = NoTree]
      BY <1>3 DEF Installs, Publish
    <2>2. staging'[j].files[f] = NoFile
      BY <1>3, <2>1 DEF DiskTyped, NoTree
    <2> QED
      BY <2>2 DEF CleanFile, NoFile
  <1> QED
    BY <1>2, <1>3 DEF DiskStep

\* The run w may write other bytes into f.
Spoils(w, f) == "badbytes" \in Events /\ pc[w] \in {"fetch", "record"} /\ F(w) = f

\* A step in which the settled files of the job of w stay settled, unless w is at them, what
\* is durable stays so, no copy disappears, the copy of a file that some run completes is
\* there, and that of a completed file is not made again.
Steady(w, j) ==
    \A f \in Files :
        LET a == staging[j].files[f]
            b == staging'[j].files[f]
        IN  /\ Settled(f, a) => Settled(f, b) \/ Spoils(w, f)
            /\ Durable(a) \subseteq Durable(b)
            /\ a.exists => b.exists
            /\ fstate'[j][f] = "completed" => fstate[j][f] = "completed" \/ b.exists
            /\ Missing(j, f) => ~ b.exists

LEMMA SteadyKeeps ==
    ASSUME NEW w \in Workers, NEW j \in JobIds, Steady(w, j)
    PROVE  /\ \A s \in SUBSET Files :
                 Settle(j, s) /\ (pc[w] \in {"fetch", "record"} => F(w) \notin s) => Settle(j, s)'
           /\ \A f \in Files : /\ Present(j, f) => Present(j, f)'
                               /\ Transferred(f, staging[j].files[f]) =>
                                     Transferred(f, staging'[j].files[f])
                               /\ Missing(j, f) /\ fstate'[j][f] = fstate[j][f] => Missing(j, f)'
  <1>1. ASSUME NEW s \in SUBSET Files, Settle(j, s),
               pc[w] \in {"fetch", "record"} => F(w) \notin s
        PROVE  Settle(j, s)'
    BY <1>1 DEF Settle, Steady, Spoils, Settled, Sound, Chunks
  <1>2. ASSUME NEW f \in Files, Present(j, f)
        PROVE  Present(j, f)'
    BY <1>2 DEF Present, Steady
  <1>3. ASSUME NEW f \in Files, Transferred(f, staging[j].files[f])
        PROVE  Transferred(f, staging'[j].files[f])
    BY <1>3 DEF Transferred, Steady
  <1>4. ASSUME NEW f \in Files, Missing(j, f), fstate'[j][f] = fstate[j][f]
        PROVE  Missing(j, f)'
    BY <1>4 DEF Missing, Steady
  <1> QED
    BY <1>1, <1>2, <1>3, <1>4

\* So is every step, for a run that goes on and at whose destination nothing stands.
LEMMA Undisturbed ==
    ASSUME Harmless, PullInv, DurableInv, InstallInv, DiskStep, [PullNext]_pullVars,
           NEW w \in Workers, GoesOn(w), Working(w)',
           NEW j \in JobIds, J(w) = j, NEW d \in Destinations, D(w) = d, ~ Occupied(d)'
    PROVE  Steady(w, j) /\ ~ Occupied(d)
  <1>1. ~ Occupied(d)
    BY OccupiedKept
  <1> SUFFICES ASSUME NEW f \in Files
               PROVE  LET a == staging[j].files[f]
                          b == staging'[j].files[f]
                      IN  /\ Settled(f, a) => Settled(f, b) \/ Spoils(w, f)
                          /\ Durable(a) \subseteq Durable(b)
                          /\ a.exists => b.exists
                          /\ fstate'[j][f] = "completed" =>
                                fstate[j][f] = "completed" \/ b.exists
                          /\ Missing(j, f) => ~ b.exists
    BY <1>1 DEF Steady
  <1> DEFINE a == staging[j].files[f]
             b == staging'[j].files[f]
             Holding == /\ Settled(f, a) => Settled(f, b) \/ Spoils(w, f)
                        /\ Durable(a) \subseteq Durable(b)
                        /\ a.exists => b.exists
  <1>2. Working(w) /\ Shape
    BY DEF GoesOn, PullInv
  <1>3. a \in FileType
    BY DEF DurableInv, DiskTyped, TreeType
  <1>4. StagedStep(j, f)
    <2>1. ASSUME NEW v \in Workers, Installs(v), J(v) = j
          PROVE  FALSE
      <3>1. Working(v) /\ D(v) = d
        BY <1>2, <2>1 DEF Installs, Equipped, DurableInv, TargetInv
      <3> QED
        BY <2>1, <3>1, InstallsOccupy
    <2> QED
      BY <2>1 DEF DiskStep
  <1>5. ~ LoseCopy(j, f)
    BY <1>2 DEF LoseCopy, Quiet
  <1>6. b = a \/ b = [a EXCEPT !.exists = TRUE] \/ b = Unsynced(a) => Holding
    <2>1. b = [a EXCEPT !.exists = TRUE] => Holding
      BY <1>3 DEF Settled, Sound, FileType, Durable, Filled
    <2>2. b = Unsynced(a) => Holding
      BY <1>3, UnsyncedSettled
    <2> QED
      BY <2>1, <2>2
  <1>7. ASSUME NEW v \in Workers, Equipped(v), Writes(v), J(v) = j, F(v) = f, Rewrites(f, a, b)
        PROVE  Holding
    <2>1. Durable(a) \subseteq Durable(b) /\ (a.exists => b.exists)
      BY <1>3, <1>7, RewritesGrow DEF Grows
    <2>2. CASE "badbytes" \notin Events
      BY <1>3, <1>7, <2>1, <2>2, RewritesSettled
    <2>3. CASE "badbytes" \in Events
      <3>1. v = w
        BY <1>2, <1>7, <2>3 DEF Harmless, SoleRuns, Equipped
      <3>2. pc[w] \in {"fetch", "record"}
        BY <1>7, <3>1 DEF Writes, WriteRange, SyncRange, FetchDone
      <3> QED
        BY <1>7, <2>1, <2>3, <3>1, <3>2 DEF Spoils
    <2> QED
      BY <2>2, <2>3
  <1>8. Holding
    <2> HIDE DEF Holding
    <2> QED
      BY <1>4, <1>5, <1>6, <1>7 DEF StagedStep
  <1>9. ASSUME NEW v \in Workers, Completes(v, j, f)
        PROVE  b.exists
    <2>1. Working(v) /\ D(v) = d /\ Ready(v)
      BY <1>2, <1>9 DEF Completes, DurableInv, TargetInv, InstallInv
    <2>2. pc[v] = "update" /\ F(v) = f
      BY <1>1, <1>9, <2>1 DEF Ready, Finds, Completes
    <2>3. Settled(f, a)
      BY <1>1, <1>9, <2>1, <2>2 DEF Ready, Prepared, Settle, Completes
    <2> QED
      BY <1>8, <2>3 DEF Settled, Sound
  <1>10. ASSUME Missing(j, f)
         PROVE  ~ b.exists
    <2>1. ASSUME NEW v \in Workers, Equipped(v), OpenFile(v), J(v) = j, F(v) = f
          PROVE  FALSE
      <3>1. Working(v) /\ D(v) = d /\ Ready(v)
        BY <1>2, <2>1 DEF Equipped, DurableInv, TargetInv, InstallInv
      <3>2. Present(j, f)
        BY <1>1, <2>1, <3>1 DEF Ready, Prepared, OpenFile, FilePcs
      <3> QED
        BY <1>10, <3>2 DEF Missing, Present
    <2>2. ASSUME NEW v \in Workers, Rewrites(f, a, b)
          PROVE  b.exists = a.exists
      BY <1>3, <2>2, RewritesGrow
    <2>3. Unsynced(a).exists = a.exists /\ ~ a.exists
      BY <1>3, <1>10, UnsyncedSettled DEF Missing
    <2> HIDE DEF a, b
    <2> QED
      BY <1>4, <1>5, <2>1, <2>2, <2>3 DEF StagedStep, a, b
  <1> QED
    BY <1>8, <1>9, <1>10, CompletedStep

LEMMA CurrentKept ==
    ASSUME PullInv, [PullNext]_pullVars, NEW w \in Workers, GoesOn(w), Current(w)'
    PROVE  /\ Current(w) /\ Row(J(w)) /\ token'[J(w)] = T(w)
           /\ ~ RunStep(w) => fstate'[J(w)] = fstate[J(w)]
  <1>1. /\ RunInv(w) /\ J(w) \in JobIds /\ T(w) \in Nat \ {0} /\ QueueInv /\ Shape
        /\ token'[J(w)] = T(w)
    BY DEF GoesOn, PullInv, RunInv, TypedRun, Current
  <1>2. CASE RunStep(w)
    <2>1. Calls(w)
      BY <1>1, <1>2, RunCalls DEF RunInv
    <2> QED
      BY <1>1, <1>2, <2>1, CallsToken DEF Current, QueueInv, ClaimDiscipline, Row, NoRow, Held
  <1>3. CASE ~ RunStep(w)
    <2>1. Intact(J(w), T(w))
      BY <1>1, <1>3, IntactStep DEF GoesOn
    <2> QED
      BY <1>1, <1>3, <2>1 DEF Intact, Current, QueueInv, ClaimDiscipline, Row, NoRow, Held
  <1> QED
    BY <1>2, <1>3

\* A run that the step is not of.
LEMMA ReadyBystander ==
    ASSUME Harmless, PullInv, DurableInv, InstallInv, DiskStep, [PullNext]_pullVars,
           NEW w \in Workers, Same(w), Working(w)', ~ RunStep(w)
    PROVE  Ready(w)'
  <1>1. /\ GoesOn(w) /\ Working(w) /\ J(w)' = J(w) /\ D(w)' = D(w) /\ F(w)' = F(w)
        /\ pc'[w] = pc[w] /\ local'[w].kept = local[w].kept /\ local'[w].todo = local[w].todo
        /\ local'[w].model = local[w].model
    BY SameGoesOn DEF Same, Core, Working
  <1>2. PICK j \in JobIds, d \in Destinations : J(w) = j /\ D(w) = d
    BY <1>1 DEF PullInv, RunInv, TypedRun, DurableInv, TargetInv, Addressed
  <1>3. Ready(w) /\ TypedRun(w) /\ Shape
    BY <1>1 DEF InstallInv, PullInv, RunInv
  <1>4. Finds(w)'
    BY <1>1, <1>2, <1>3, OccupiedKept DEF Ready, Finds
  <1>5. ASSUME ~ Occupied(d)'
        PROVE  Prepared(w)'
    <2>1. Steady(w, j) /\ ~ Occupied(d)
      BY <1>1, <1>2, <1>5, Undisturbed
    <2>2. Prepared(w)
      BY <1>2, <1>3, <2>1 DEF Ready
    <2>p. PICK todo, kept, g, at :
              todo = local[w].todo /\ kept = local[w].kept /\ g = F(w) /\ at = pc[w]
      OBVIOUS
    <2>3. todo \subseteq Files /\ (at \in FilePcs \cup {"forget"} => g \in todo)
      BY <1>3, <2>p DEF TypedRun, Shape, LocalType
    <2>4. /\ local'[w].todo = todo /\ local'[w].kept = kept /\ F(w)' = g /\ pc'[w] = at
          /\ J(w)' = j
      BY <1>1, <1>2, <2>p
    <2>5. Planned(w) =>
            /\ at \in PlanPcs \ {"adopt"} => Settle(j, Files \ todo)
            /\ at = "mark" => Settle(j, Files)
            /\ at \in {"stage", "next", "forget"} \cup FilePcs =>
                 \A f \in todo \cap kept :
                     fstate[j][f] = "completed" \/ (at \in FilePcs /\ f = g)
            /\ at = "forget" => Missing(j, g)
            /\ at = "dest" => \A f \in kept : fstate[j][f] = "completed"
      BY <1>2, <2>p DEF Planned
    <2>6. /\ at = "verify" => Transferred(g, staging[j].files[g])
          /\ at = "update" => Settle(j, {g})
          /\ at \in {"sums", "sums2", "check", "rename"} => Settle(j, Files)
          /\ at \in PlanPcs => \A f \in todo \ kept : Present(j, f)
          /\ at \in FilePcs => Present(j, g)
      BY <1>2, <2>p, <2>2 DEF Prepared
    <2>7. Current(w)' => Planned(w) /\ fstate'[j] = fstate[j]
      BY <1>1, <1>2, <2>2, CurrentKept DEF Prepared
    <2>8. /\ \A s \in SUBSET Files :
                Settle(j, s) /\ (at \in {"fetch", "record"} => g \notin s) => Settle(j, s)'
          /\ \A f \in Files : /\ Present(j, f) => Present(j, f)'
                              /\ Transferred(f, staging[j].files[f]) =>
                                    Transferred(f, staging'[j].files[f])
                              /\ Missing(j, f) /\ fstate'[j][f] = fstate[j][f] => Missing(j, f)'
      BY <2>1, <2>p, SteadyKeeps
    <2>9. ASSUME Current(w)'
          PROVE  Planned(w)'
      <3>1. /\ at \in PlanPcs \ {"adopt"} => Settle(j, Files \ todo)'
            /\ at = "mark" => Settle(j, Files)'
            /\ at = "forget" => Missing(j, g)'
        BY <2>3, <2>5, <2>7, <2>8, <2>9 DEF FilePcs
      <3> QED
        BY <2>4, <2>5, <2>7, <2>9, <3>1 DEF Planned, Settle, Missing
    <2>10. /\ at = "verify" => Transferred(g, staging'[j].files[g])
           /\ at = "update" => Settle(j, {g})'
           /\ at \in {"sums", "sums2", "check", "rename"} => Settle(j, Files)'
           /\ at \in PlanPcs => \A f \in todo \ kept : Present(j, f)'
           /\ at \in FilePcs => Present(j, g)'
      BY <2>3, <2>6, <2>8 DEF FilePcs
    <2> QED
      BY <2>4, <2>9, <2>10 DEF Prepared, Settle, Present, Transferred, Durable, Filled
  <1> QED
    BY <1>1, <1>2, <1>4, <1>5 DEF Ready, Occupied

-----------------------------------------------------------------------------
(* The run whose step it is.                                               *)

\* The places where Ready says something.
Telling == PlanPcs \cup {"mark", "sums", "sums2", "check", "rename", "finish"}

LEMMA Silent ==
    ASSUME NEW w \in Workers, pc'[w] \notin Telling
    PROVE  Ready(w)'
  BY DEF Telling, Ready, Finds, Prepared, Planned, PlanPcs, FilePcs

\* A step of a transfer that stays with its file.
LEMMA FileReady ==
    ASSUME NEW w \in Workers, Shape, TypedRun(w), NEW j \in JobIds, J(w) = j, J(w)' = j,
           Steady(w, j), Prepared(w), pc[w] \in FilePcs, pc'[w] \in FilePcs, F(w)' = F(w),
           local'[w].todo = local[w].todo, local'[w].kept = local[w].kept,
           pc'[w] = "verify" => Transferred(F(w), staging'[j].files[F(w)]),
           pc'[w] = "update" => Settled(F(w), staging'[j].files[F(w)]),
           Current(w)' => Current(w),
           \A g \in Files \ {F(w)} : fstate'[j][g] = fstate[j][g]
    PROVE  Prepared(w)'
  <1>p. PICK todo, kept, g, at :
            todo = local[w].todo /\ kept = local[w].kept /\ g = F(w) /\ at = pc'[w]
    OBVIOUS
  <1>1. todo \subseteq Files /\ g \in todo
    BY <1>p DEF TypedRun, Shape, LocalType
  <1>2. /\ local'[w].todo = todo /\ local'[w].kept = kept /\ F(w)' = g /\ pc'[w] = at
        /\ at \in FilePcs
    BY <1>p
  <1>3. (\A f \in todo \ kept : Present(j, f)) /\ Present(j, g)
    BY <1>p DEF Prepared, PlanPcs
  <1>4. /\ \A s \in SUBSET Files : Settle(j, s) /\ g \notin s => Settle(j, s)'
        /\ \A f \in Files : Present(j, f) => Present(j, f)'
    BY <1>p, SteadyKeeps
  <1>5. (\A f \in todo \ kept : Present(j, f)') /\ Present(j, g)'
    BY <1>1, <1>3, <1>4
  <1>6. at = "update" => Settle(j, {g})'
    BY <1>p, <1>1 DEF Settle, Settled, Sound, Chunks
  <1>7. ASSUME Current(w)'
        PROVE  Planned(w)'
    <2>1. /\ Settle(j, Files \ todo)
          /\ \A f \in todo \cap kept : fstate[j][f] = "completed" \/ f = g
      BY <1>p, <1>7 DEF Prepared, Planned, PlanPcs, FilePcs
    <2>2. Settle(j, Files \ todo)'
      BY <1>1, <1>4, <2>1
    <2>3. \A f \in todo \cap kept : fstate'[j][f] = "completed" \/ f = g
      BY <1>p, <1>1, <2>1
    <2> QED
      BY <1>2, <2>2, <2>3 DEF Planned, Settle, PlanPcs, FilePcs
  <1> QED
    BY <1>p, <1>2, <1>5, <1>6, <1>7 DEF Prepared, Settle, Present, Transferred, Durable,
       Filled, FilePcs

\* What the steps of a transfer do, between the choice of a file and its completion.
LEMMA FileSteps ==
    ASSUME PullInv, NEW w \in Workers, Working(w), TransferStep(w)
    PROVE  \/ NextFile(w) \/ Forget(w) \/ CompleteFile(w) \/ pc'[w] = "handler"
           \/ /\ pc[w] \in FilePcs \ {"update"} /\ pc'[w] \in FilePcs /\ F(w)' = F(w)
              /\ local'[w].todo = local[w].todo /\ local'[w].kept = local[w].kept
              /\ \A g \in Files \ {F(w)} : fstate'[J(w)][g] = fstate[J(w)][g]
              /\ \/ pc'[w] \notin {"verify", "update"}
                 \/ FetchDone(w) /\ pc'[w] = "verify"
                 \/ VerifyFile(w) /\ Hashes(w) /\ pc'[w] = "update"
  <1>q. Shape /\ TypeOK /\ TypedRun(w)
    BY DEF PullInv, QueueInv, RunInv
  <1>l. local[w] \in LocalType /\ w \in DOMAIN local /\ w \in DOMAIN pc
    BY <1>q DEF Shape
  <1> DEFINE Stays == /\ pc[w] \in FilePcs \ {"update"} /\ pc'[w] \in FilePcs /\ F(w)' = F(w)
                      /\ local'[w].todo = local[w].todo /\ local'[w].kept = local[w].kept
             Others == \A g \in Files \ {F(w)} : fstate'[J(w)][g] = fstate[J(w)][g]
             Far == pc'[w] \notin {"verify", "update"}
             Checked == VerifyFile(w) /\ Hashes(w) /\ pc'[w] = "update"
  <1>r. \A e : Raise(w, e) => pc'[w] = "handler"
    BY <1>l DEF Raise
  <1>v. UNCHANGED vars => Others
    BY DEF vars, rows
  <1>1. CASE PrepareChunksOf(w) \/ VerifyFile(w) \/ Mismatch(w) \/ RangeFails(w)
    <2>1. \/ pc'[w] = "handler"
          \/ /\ UNCHANGED local /\ fstate' = fstate
             /\ pc[w] \in FilePcs \ {"update"} /\ pc'[w] \in FilePcs /\ (Far \/ Checked)
      BY <1>1, <1>l, <1>r DEF PrepareChunksOf, PrepareChunks, VerifyFile, Mismatch, RangeFails,
         Fenced, RecordError, Goto, FilePcs, vars, rows
    <2> QED
      BY <2>1 DEF F
  <1>2. CASE ResumeChunks(w)
    <2>1. CASE Goto(w, "discard") /\ UNCHANGED local
      BY <1>2, <1>l, <1>v, <2>1 DEF ResumeChunks, Goto, FilePcs, F
    <2>2. CASE Goto(w, "open") /\ local' = [local EXCEPT ![w].have = done[J(w)][F(w)]]
      BY <1>2, <1>l, <1>v, <2>2 DEF ResumeChunks, Goto, FilePcs, F, LocalType
    <2> QED
      BY <1>2, <2>1, <2>2 DEF ResumeChunks
  <1>7. CASE DiscardChunks(w)
    <2>1. CASE ResetFile(J(w), F(w), T(w), FALSE) /\ Goto(w, "open") /\ UNCHANGED local
      <3>1. Others
        BY <1>q, <2>1 DEF ResetFile, TypedRun, TypeOK
      <3> QED
        BY <1>7, <1>l, <2>1, <3>1 DEF DiscardChunks, Goto, FilePcs, F
    <2> QED
      BY <1>7, <1>r, <2>1 DEF DiscardChunks, Fenced
  <1>3. CASE OpenFile(w) \/ FetchDone(w)
    <2>1. CASE \E o \in {"staging", "none"} : local' = [local EXCEPT ![w].open = o]
      <3>1. Stays \/ pc'[w] = "handler"
        BY <1>3, <1>l, <1>r, <2>1 DEF OpenFile, FetchDone, Goto, FilePcs, F, LocalType
      <3>2. Far \/ (FetchDone(w) /\ pc'[w] = "verify")
        BY <1>3, <1>l, <1>r DEF OpenFile, FetchDone, Goto
      <3> QED
        BY <1>3, <1>v, <3>1, <3>2 DEF OpenFile, FetchDone
    <2> QED
      BY <1>3, <1>r, <2>1 DEF OpenFile, FetchDone
  <1>4. ASSUME NEW r \in Chunks(F(w)), WriteRange(w, r) \/ SyncRange(w, r)
        PROVE  Stays /\ Far /\ Others
    <2>1. Stays /\ Far
      BY <1>4, <1>l DEF WriteRange, SyncRange, Goto, FilePcs, F, LocalType
    <2> QED
      BY <1>4, <1>v, <2>1 DEF WriteRange, SyncRange
  <1>5. CASE RecordChunk(w)
    <2> DEFINE have == local[w].have \cup {local[w].range}
               q == [local[w] EXCEPT !.have = have, !.wrote = local[w].wrote \ {local[w].range},
                                     !.range = <<>>]
    <2>1. CASE ~ Raise(w, "cancelled")
      <3>1. /\ RecordProgress(J(w), F(w), T(w), BytesOf(have), local[w].range)
            /\ Goto(w, "fetch") /\ local' = [local EXCEPT ![w] = q] /\ pc[w] = "record"
        BY <1>5, <2>1 DEF RecordChunk, Fenced
      <3>2. q.todo = local[w].todo /\ q.kept = local[w].kept /\ q.file = F(w)
        BY <1>l DEF LocalType, F
      <3> HIDE DEF have, q
      <3>3. Stays /\ Far
        BY <1>l, <3>1, <3>2 DEF Goto, FilePcs, F
      <3>4. Others
        BY <1>q, <3>1 DEF RecordProgress, TypedRun, TypeOK
      <3> QED
        BY <3>3, <3>4
    <2> QED
      BY <1>r, <2>1
  <1>6. CASE StopFetching(w) \/ ResetCorrupt(w)
    BY <1>6, <1>r DEF StopFetching, ResetCorrupt
  <1> QED
    BY <1>1, <1>2, <1>3, <1>4, <1>5, <1>6, <1>7 DEF TransferStep

\* The next file: an earlier claim's copy was kept because it hashes, and by RowInv it is
\* durable, as its row is still completed; for the same reason one that does not hash is
\* not there.
LEMMA NextReady ==
    ASSUME PullInv, DurableInv, InstallInv, [PullNext]_pullVars, NEW w \in Workers,
           GoesOn(w), NEW j \in JobIds, J(w) = j, ~ Occupied(D(w)), Steady(w, j), Prepared(w),
           NextFile(w)
    PROVE  pc'[w] \notin Telling \/ Prepared(w)'
  <1>q. Shape /\ TypeOK /\ TypedRun(w) /\ J(w)' = j
    BY DEF PullInv, QueueInv, RunInv, GoesOn
  <1>l. local[w] \in LocalType /\ w \in DOMAIN local /\ w \in DOMAIN pc
    BY <1>q DEF Shape
  <1>p. PICK todo, kept : todo = local[w].todo /\ kept = local[w].kept
    OBVIOUS
  <1>1. todo \subseteq Files /\ pc[w] = "next"
    BY <1>l, <1>p DEF LocalType, NextFile
  <1>2. /\ pc[w] \notin {"fetch", "record"} =>
              \A s \in SUBSET Files : Settle(j, s) => Settle(j, s)'
        /\ \A f \in Files : Present(j, f) => Present(j, f)'
    BY SteadyKeeps
  <1>3. \A f \in todo \ kept : Present(j, f)
    BY <1>p, <1>1 DEF Prepared, PlanPcs
  <1>4. Current(w)' => /\ Current(w) /\ Settle(j, Files \ todo) /\ Settle(j, Files \ todo)'
                       /\ \A f \in todo \cap kept : fstate[j][f] = "completed"
    <2>1. Current(w)' => Current(w)
      BY CurrentKept
    <2>2. Current(w) => /\ Settle(j, Files \ todo)
                        /\ \A f \in todo \cap kept : fstate[j][f] = "completed"
      BY <1>p, <1>1 DEF Prepared, Planned, PlanPcs, FilePcs
    <2> QED
      BY <1>1, <1>2, <2>1, <2>2
  <1>v. UNCHANGED <<vars, disk>> /\ fstate' = fstate /\ staging' = staging
    BY DEF NextFile, vars, rows, disk
  \* The copy of a file that an earlier claim completed.
  <1>k. ASSUME Current(w)', NEW f \in todo \cap kept, staging[j].files[f].exists
        PROVE  Settled(f, staging[j].files[f])
    <2>1. Row(j) => D(w) = destination[j]
      BY <1>q DEF GoesOn, DurableInv, TargetInv, Addressed
    <2>2. fstate[j][f] = "completed"
      BY <1>4, <1>k
    <2> QED
      BY <1>1, <1>k, <2>1, <2>2 DEF InstallInv, RowInv
  <1>6. CASE local[w].todo = {} /\ Goto(w, "mark") /\ UNCHANGED local
    <2>1. pc'[w] = "mark" /\ (Current(w)' => Settle(j, Files)')
      BY <1>l, <1>4, <1>6, <1>p DEF Goto, Settle
    <2> QED
      BY <1>q, <2>1 DEF Prepared, Planned, Settle, PlanPcs, FilePcs
  <1>7. ASSUME NEW f \in local[w].todo, Take(w, f, "chunks"), f \notin local[w].kept
        PROVE  Prepared(w)'
    <2>1. /\ pc'[w] = "chunks" /\ F(w)' = f /\ f \in todo
          /\ local'[w].kept = kept /\ local'[w].todo = todo
      BY <1>7, <1>l, <1>p DEF Take, Goto, LocalType, F
    <2>2. Present(j, f)'
      BY <1>1, <1>2, <1>3, <1>7, <1>p, <2>1
    <2>3. \A g \in todo \ kept : Present(j, g)'
      BY <1>1, <1>2, <1>3
    <2>4. Current(w)' => Planned(w)'
      BY <1>1, <1>4, <1>q, <1>v, <2>1 DEF Planned, Settle, PlanPcs, FilePcs
    <2> QED
      BY <1>q, <2>1, <2>2, <2>3, <2>4 DEF Prepared, Present, PlanPcs, FilePcs
  <1>9. ASSUME NEW f \in local[w].todo, Take(w, f, "forget"), f \in local[w].kept,
               ~ Reusable(w, f)
        PROVE  Prepared(w)'
    <2>1. /\ pc'[w] = "forget" /\ F(w)' = f /\ f \in todo /\ f \in kept
          /\ local'[w].kept = kept /\ local'[w].todo = todo
      BY <1>9, <1>l, <1>p DEF Take, Goto, LocalType, F
    <2>2. \A g \in todo \ kept : Present(j, g)'
      BY <1>1, <1>2, <1>3
    <2>3. Current(w)' => Missing(j, f)
      BY <1>4, <1>9, <1>k, <2>1 DEF Missing, Reusable, Settled
    <2>4. Current(w)' => Planned(w)'
      BY <1>1, <1>4, <1>q, <1>v, <2>1, <2>3 DEF Planned, Missing, Settle, PlanPcs, FilePcs
    <2> QED
      BY <1>q, <2>1, <2>2, <2>4 DEF Prepared, Present, PlanPcs, FilePcs
  <1>8. ASSUME NEW f \in local[w].todo, f \in local[w].kept, Reusable(w, f), Skip(w, f)
        PROVE  Prepared(w)'
    <2>1. /\ pc'[w] = "next" /\ f \in todo /\ f \in kept
          /\ local'[w].kept = kept /\ local'[w].todo = todo \ {f}
      BY <1>8, <1>l, <1>p, <1>1 DEF Skip, LocalType
    <2>2. Sound(f, staging[j].files[f])
      BY <1>8 DEF Reusable
    <2>3. \A g \in (todo \ {f}) \ kept : Present(j, g)'
      BY <1>1, <1>2, <1>3
    <2>4. ASSUME Current(w)'
          PROVE  Planned(w)'
      <3>1. Settled(f, staging[j].files[f])
        BY <1>k, <2>1, <2>2, <2>4 DEF Sound
      <3>2. Settle(j, Files \ (todo \ {f}))
        BY <1>4, <2>4, <3>1 DEF Settle
      <3>3. Settle(j, Files \ (todo \ {f}))'
        BY <1>1, <1>2, <3>2
      <3>4. \A g \in (todo \ {f}) \cap kept : fstate'[j][g] = "completed"
        BY <1>4, <1>v, <2>4
      <3> QED
        BY <1>q, <2>1, <3>3, <3>4 DEF Planned, Settle, PlanPcs, FilePcs
    <2> QED
      BY <1>q, <2>1, <2>3, <2>4 DEF Prepared, Present, PlanPcs, FilePcs
  <1> QED
    BY <1>6, <1>7, <1>8, <1>9 DEF NextFile

\* The row of a file whose copy is missing goes back, and the file is transferred.
LEMMA ForgetReady ==
    ASSUME PullInv, [PullNext]_pullVars, NEW w \in Workers, GoesOn(w),
           NEW j \in JobIds, J(w) = j, Steady(w, j), Prepared(w), Forget(w)
    PROVE  pc'[w] \notin Telling \/ Prepared(w)'
  <1>q. Shape /\ TypeOK /\ TypedRun(w) /\ J(w)' = j
    BY DEF PullInv, QueueInv, RunInv, GoesOn
  <1>l. local[w] \in LocalType /\ w \in DOMAIN local /\ w \in DOMAIN pc
    BY <1>q DEF Shape
  <1>p. PICK todo, kept, f : todo = local[w].todo /\ kept = local[w].kept /\ f = F(w)
    OBVIOUS
  <1>1. todo \subseteq Files /\ pc[w] = "forget" /\ f \in todo
    BY <1>l, <1>p, <1>q DEF LocalType, Forget, TypedRun
  <1>2. /\ \A s \in SUBSET Files : Settle(j, s) => Settle(j, s)'
        /\ \A g \in Files : Present(j, g) => Present(j, g)'
    BY <1>1, SteadyKeeps
  <1>3. CASE Raise(w, "cancelled")
    BY <1>3, <1>l DEF Raise, Telling, PlanPcs, FilePcs
  <1>4. CASE ResetFile(j, f, T(w), FALSE) /\ Goto(w, "chunks") /\ UNCHANGED local
    <2>1. /\ pc'[w] = "chunks" /\ F(w)' = f
          /\ local'[w].kept = kept /\ local'[w].todo = todo
      BY <1>4, <1>l, <1>p DEF Goto, F
    <2>2. /\ \A g \in Files \ {f} : fstate'[j][g] = fstate[j][g]
          /\ fstate'[j][f] # "completed"
      BY <1>1, <1>4, <1>q DEF ResetFile, TypeOK
    <2>3. \A g \in todo \ kept : Present(j, g)'
      BY <1>p, <1>1, <1>2 DEF Prepared, PlanPcs
    <2>4. ASSUME Current(w)'
          PROVE  Planned(w)'
      <3>1. Current(w)
        BY <2>4, CurrentKept
      <3>2. /\ Settle(j, Files \ todo)
            /\ \A g \in todo \cap kept : fstate[j][g] = "completed"
        BY <1>p, <1>1, <3>1 DEF Prepared, Planned, PlanPcs, FilePcs
      <3>3. Settle(j, Files \ todo)'
        BY <1>2, <3>2
      <3>4. \A g \in todo \cap kept : fstate'[j][g] = "completed" \/ g = f
        BY <1>1, <2>2, <3>2
      <3> QED
        BY <1>q, <2>1, <3>3, <3>4 DEF Planned, Settle, PlanPcs, FilePcs
    <2> QED
      BY <1>q, <2>1, <2>2, <2>3, <2>4 DEF Prepared, Present, PlanPcs, FilePcs
  <1> QED
    BY <1>3, <1>4, <1>p DEF Forget, Fenced

\* A file is durable when its transfer ends, and settled when it hashes.
LEMMA FetchTransfers ==
    ASSUME PullInv, DurableInv, InstallInv, NEW w \in Workers, Working(w),
           ~ Occupied(D(w)), FetchDone(w)
    PROVE  Transferred(F(w), staging'[J(w)].files[F(w)])
  <1>1. Shape /\ TypedRun(w) /\ DiskTyped /\ Equipped(w) /\ OpenInv(w)
    BY DEF PullInv, RunInv, TypedRun, DurableInv, TargetInv, Addressed, Equipped
  <1>2. F(w) \in Files /\ pc[w] = "fetch" /\ local[w].have = Chunks(F(w))
    BY <1>1 DEF FetchDone, TypedRun, FilePcs, Shape, LocalType
  <1>3. ~ Stood(J(w))
    BY <1>1 DEF Stood, Occupied, InstallInv, PlaceInv
  <1> DEFINE a == staging[J(w)].files[F(w)]
  <1>4. Chunks(F(w)) \subseteq Durable(a)
    BY <1>1, <1>2, <1>3 DEF OpenInv, Holds
  <1>5. a \in FileType
    BY <1>1, <1>2 DEF Equipped, DiskTyped, TreeType
  <1>6. local[w].open = "staging"
    BY <1>1, <1>2, <1>3 DEF OpenInv, Scratch, Shape, LocalType
  <1>7. Opened(w) = a /\ Synced(a) \in FileType
    BY <1>5, <1>6, FileTyped DEF Opened
  <1>8. staging'[J(w)].files[F(w)] = Synced(a)
    BY <1>1, <1>2, <1>6, <1>7, WritesStaged DEF FetchDone
  <1>9. Transferred(F(w), Synced(a))
    BY <1>4, <1>5 DEF Transferred, Synced, Durable, Filled, FileType
  <1> QED
    BY <1>8, <1>9

LEMMA HashSettles ==
    ASSUME PullInv, DurableInv, InstallInv, NEW w \in Workers, Working(w), Prepared(w),
           VerifyFile(w), Hashes(w)
    PROVE  Settled(F(w), staging'[J(w)].files[F(w)])
  <1>1. F(w) \in Files /\ J(w) \in JobIds /\ pc[w] = "verify"
    BY DEF PullInv, RunInv, TypedRun, VerifyFile, FilePcs, Shape, LocalType
  <1> DEFINE a == staging[J(w)].files[F(w)]
  <1>2. /\ Sound(F(w), a) /\ Chunks(F(w)) \subseteq Durable(a)
        /\ a.dirty \subseteq Chunks(F(w)) /\ staging' = staging
    BY <1>1 DEF Hashes, Prepared, Transferred, InstallInv, Clean, CleanFile, VerifyFile, disk
  <1>3. a.dirty = {}
    BY <1>2 DEF Durable
  <1> QED
    BY <1>2, <1>3 DEF Settled

\* The file is completed, and the run has one less to do.
LEMMA CompleteReady ==
    ASSUME PullInv, [PullNext]_pullVars, NEW w \in Workers, GoesOn(w),
           NEW j \in JobIds, J(w) = j, Steady(w, j), Prepared(w), CompleteFile(w)
    PROVE  pc'[w] \notin Telling \/ Prepared(w)'
  <1>q. Shape /\ TypeOK /\ TypedRun(w) /\ J(w)' = j
    BY DEF PullInv, QueueInv, RunInv, GoesOn
  <1>l. local[w] \in LocalType /\ w \in DOMAIN local /\ w \in DOMAIN pc
    BY <1>q DEF Shape
  <1>p. PICK todo, kept, g : todo = local[w].todo /\ kept = local[w].kept /\ g = F(w)
    OBVIOUS
  <1>1. todo \subseteq Files /\ pc[w] = "update" /\ g \in todo
    BY <1>l, <1>p, <1>q DEF LocalType, CompleteFile, TypedRun, FilePcs
  <1>2. /\ pc[w] \notin {"fetch", "record"} =>
              \A s \in SUBSET Files : Settle(j, s) => Settle(j, s)'
        /\ \A f \in Files : Present(j, f) => Present(j, f)'
    BY SteadyKeeps
  <1>3. CASE Raise(w, "cancelled")
    BY <1>3, <1>l DEF Raise, Telling, PlanPcs, FilePcs
  <1>4. CASE ~ Raise(w, "cancelled")
    <2> DEFINE r == [local[w] EXCEPT !.todo = local[w].todo \ {F(w)}, !.file = "none",
                                     !.have = {}]
    <2>1. /\ UpdateFile(j, g, T(w)) /\ Goto(w, "next")
          /\ local' = [local EXCEPT ![w] = r]
      BY <1>4, <1>p DEF CompleteFile, Fenced
    <2>2. r.todo = todo \ {g} /\ r.kept = kept
      BY <1>l, <1>p DEF LocalType
    <2> HIDE DEF r
    <2>3. pc'[w] = "next" /\ local'[w].todo = todo \ {g} /\ local'[w].kept = kept
      BY <1>l, <2>1, <2>2 DEF Goto
    <2>4. \A f \in Files \ {g} : fstate'[j][f] = fstate[j][f]
      BY <1>q, <2>1 DEF UpdateFile, TypeOK
    <2>5. \A f \in (todo \ {g}) \ kept : Present(j, f)'
      BY <1>p, <1>1, <1>2 DEF Prepared, PlanPcs, FilePcs
    <2>6. ASSUME Current(w)'
          PROVE  Planned(w)'
      <3>1. Current(w)
        BY <2>6, CurrentKept
      <3>2. /\ Settle(j, Files \ todo) /\ Settle(j, {g})
            /\ \A f \in todo \cap kept : fstate[j][f] = "completed" \/ f = g
        BY <1>p, <1>1, <3>1 DEF Prepared, Planned, PlanPcs, FilePcs
      <3>3. Settle(j, Files \ (todo \ {g}))
        BY <3>2 DEF Settle
      <3>4. Settle(j, Files \ (todo \ {g}))'
        BY <1>1, <1>2, <3>3
      <3>5. \A f \in (todo \ {g}) \cap kept : fstate'[j][f] = "completed"
        BY <1>1, <2>4, <3>2
      <3> QED
        BY <1>q, <2>3, <3>4, <3>5 DEF Planned, Settle, PlanPcs, FilePcs
    <2> QED
      BY <1>q, <2>3, <2>5, <2>6 DEF Prepared, Present, PlanPcs, FilePcs
  <1> QED
    BY <1>3, <1>4

LEMMA TransferReady ==
    ASSUME PullInv, DurableInv, InstallInv, [PullNext]_pullVars, NEW w \in Workers,
           GoesOn(w), NEW j \in JobIds, J(w) = j, ~ Occupied(D(w)), Steady(w, j), Prepared(w),
           TransferStep(w)
    PROVE  pc'[w] \notin Telling \/ Prepared(w)'
  <1>q. Shape /\ TypedRun(w) /\ J(w)' = j /\ Working(w)
    BY DEF PullInv, RunInv, GoesOn
  <1>1. CASE NextFile(w)
    BY <1>1, NextReady
  <1>2. CASE CompleteFile(w)
    BY <1>2, CompleteReady
  <1>5. CASE Forget(w)
    BY <1>5, ForgetReady
  <1>3. CASE pc'[w] = "handler"
    BY <1>3 DEF Telling, PlanPcs, FilePcs
  <1>4. CASE ~ NextFile(w) /\ ~ Forget(w) /\ ~ CompleteFile(w) /\ pc'[w] # "handler"
    <2>1. /\ pc[w] \in FilePcs /\ pc'[w] \in FilePcs /\ F(w)' = F(w)
          /\ local'[w].todo = local[w].todo /\ local'[w].kept = local[w].kept
          /\ \A g \in Files \ {F(w)} : fstate'[j][g] = fstate[j][g]
      BY <1>4, <1>q, FileSteps
    <2>2. /\ pc'[w] = "verify" => Transferred(F(w), staging'[j].files[F(w)])
          /\ pc'[w] = "update" => Settled(F(w), staging'[j].files[F(w)])
      BY <1>4, <1>q, FileSteps, FetchTransfers, HashSettles
    <2>3. Current(w)' => Current(w)
      BY CurrentKept
    <2> QED
      BY <1>q, <2>1, <2>2, <2>3, FileReady
  <1> QED
    BY <1>1, <1>2, <1>3, <1>4, <1>5

\* A run that reads its plan, or has transferred its files.
LEMMA PlanReady ==
    ASSUME PullInv, DurableInv, InstallInv, [PullNext]_pullVars, NEW w \in Workers,
           GoesOn(w), NEW j \in JobIds, J(w) = j, ~ Occupied(D(w)), Steady(w, j), Prepared(w),
           \/ ReadRows(w) \/ CheckDestination(w) \/ PrepareStaging(w)
           \/ Mark(w) \/ OpenSums(w) \/ WriteSums(w) \/ LastCheck(w)
    PROVE  pc'[w] \notin Telling \/ Prepared(w)'
  <1>q. Shape /\ TypeOK /\ TypedRun(w) /\ J(w)' = j
    BY DEF PullInv, QueueInv, RunInv, GoesOn
  <1>l. local[w] \in LocalType /\ w \in DOMAIN local /\ w \in DOMAIN pc
    BY <1>q DEF Shape
  <1>r. (\E e : Raise(w, e)) => pc'[w] \notin Telling
    BY <1>l DEF Raise, Telling, PlanPcs, FilePcs
  <1>2. /\ pc[w] \notin {"fetch", "record"} =>
              \A s \in SUBSET Files : Settle(j, s) => Settle(j, s)'
        /\ \A f \in Files : Present(j, f) => Present(j, f)'
    BY SteadyKeeps
  <1>c. Current(w)' => Current(w)
    BY CurrentKept
  <1>3. CASE ReadRows(w)
    <2>1. CASE ~ Raise(w, "permanent")
      <3>p. PICK kept : kept = Complete(fstate[j])
        OBVIOUS
      <3> DEFINE r == [local[w] EXCEPT !.kept = kept, !.todo = Files]
      <3>1. Goto(w, "dest") /\ local' = [local EXCEPT ![w] = r] /\ UNCHANGED vars
        BY <1>3, <2>1, <3>p DEF ReadRows
      <3>2. r.kept = kept /\ r.todo = Files
        BY <1>l DEF LocalType
      <3> HIDE DEF r
      <3>3. /\ pc'[w] = "dest" /\ local'[w].kept = kept /\ local'[w].todo = Files
            /\ fstate' = fstate
        BY <1>l, <3>1, <3>2 DEF Goto, vars, rows
      <3>4. /\ \A f \in kept : fstate[j][f] = "completed"
            /\ \A f \in Files \ kept : fstate[j][f] # "completed"
        BY <3>p DEF Complete
      <3> QED
        BY <1>q, <3>3, <3>4 DEF Prepared, Present, Planned, Settle, PlanPcs, FilePcs
    <2> QED
      BY <1>r, <2>1
  <1>4. CASE CheckDestination(w) \/ PrepareStaging(w)
    <2>p. PICK todo, kept : todo = local[w].todo /\ kept = local[w].kept
      OBVIOUS
    <2>1. CASE UNCHANGED <<vars, local>> /\ pc[w] \in {"dest", "stage"}
               /\ pc'[w] \in {"stage", "next"}
      <3>1. /\ todo \subseteq Files /\ fstate' = fstate
            /\ local'[w].todo = todo /\ local'[w].kept = kept
        BY <1>l, <2>1, <2>p DEF LocalType, vars, rows
      <3>2. \A f \in todo \ kept : Present(j, f)'
        BY <1>2, <2>1, <2>p, <3>1 DEF Prepared, PlanPcs
      <3>3. ASSUME Current(w)'
            PROVE  Planned(w)'
        <4>1. /\ Settle(j, Files \ todo)
              /\ \A f \in todo \cap kept : fstate[j][f] = "completed"
          BY <1>c, <2>1, <2>p, <3>3 DEF Prepared, Planned, PlanPcs, FilePcs
        <4>2. Settle(j, Files \ todo)'
          BY <1>2, <2>1, <4>1
        <4> QED
          BY <1>q, <2>1, <3>1, <4>1, <4>2 DEF Planned, Settle, PlanPcs, FilePcs
      <3> QED
        BY <1>q, <2>1, <3>1, <3>2, <3>3 DEF Prepared, Present, PlanPcs, FilePcs
    <2> QED
      BY <1>4, <1>l, <1>r, <2>1 DEF CheckDestination, PrepareStaging, Goto, Occupied
  <1>5. CASE Mark(w) \/ OpenSums(w) \/ WriteSums(w) \/ LastCheck(w)
    <2>1. CASE pc'[w] \in Telling
      <3>1. pc'[w] \in {"sums", "sums2", "check", "rename"}
        BY <1>5, <1>l, <1>r, <2>1 DEF Mark, Fenced, OpenSums, WriteSums, LastCheck, Goto
      <3>2. Settle(j, Files)
        <4>1. CASE Mark(w)
          <5>1. pc[w] = "mark" /\ Current(w)
            BY <1>r, <2>1, <4>1 DEF Mark, Fenced, CanMarkVerifying, Owns, Presents, Current
          <5> QED
            BY <5>1 DEF Prepared, Planned
        <4>2. CASE OpenSums(w) \/ WriteSums(w) \/ LastCheck(w)
          BY <4>2 DEF OpenSums, WriteSums, LastCheck, Prepared
        <4> QED
          BY <1>5, <4>1, <4>2
      <3>3. Settle(j, Files)'
        BY <1>2, <1>5, <3>2 DEF Mark, OpenSums, WriteSums, LastCheck
      <3> QED
        BY <1>q, <3>1, <3>3 DEF Prepared, Planned, Settle, PlanPcs, FilePcs
    <2> QED
      BY <2>1
  <1> QED
    BY <1>3, <1>4, <1>5

\* The other steps lead to places where Ready says nothing, or to a run that has
\* published.
LEMMA OtherPlaces ==
    ASSUME Shape, NEW w \in Workers, RunStep(w)
    PROVE  \/ TransferStep(w) /\ pc'[w] \notin {"adopt", "finish"}
           \/ ReadRows(w) /\ pc'[w] \notin {"adopt", "finish"}
           \/ CheckDestination(w) /\ pc'[w] # "finish"
           \/ PrepareStaging(w) /\ pc'[w] \notin {"adopt", "finish"}
           \/ /\ Mark(w) \/ OpenSums(w) \/ WriteSums(w) \/ LastCheck(w)
              /\ pc'[w] \notin {"adopt", "finish"}
           \/ Adopt(w) \/ Publish(w) \/ pc'[w] \notin Telling
  <1>l. w \in DOMAIN pc
    BY DEF Shape
  <1> USE DEF Telling, PlanPcs, FilePcs
  <1>r. \A e : Raise(w, e) => pc'[w] = "handler"
    BY <1>l DEF Raise
  <1>e. \A x \in {"idle", "dead"} : Leave(w, x) => pc'[w] = x
    BY <1>l DEF Leave, Goto
  <1>1. TransferStep(w) => pc'[w] \notin {"adopt", "finish"}
    <2>1. \/ NextFile(w) \/ Forget(w) \/ PrepareChunksOf(w) \/ ResumeChunks(w)
          \/ DiscardChunks(w) \/ OpenFile(w)
          => pc'[w] \notin {"adopt", "finish"}
      BY <1>l, <1>r DEF NextFile, Take, Skip, Forget, Fenced, PrepareChunksOf, ResumeChunks,
                        DiscardChunks, OpenFile, Goto
    <2>2. (\E r \in Chunks(F(w)) : WriteRange(w, r) \/ SyncRange(w, r))
            \/ StopFetching(w) \/ RecordChunk(w) \/ RangeFails(w)
            => pc'[w] \notin {"adopt", "finish"}
      BY <1>l, <1>r DEF WriteRange, SyncRange, StopFetching, RecordChunk, RangeFails, Fenced,
                        Goto
    <2>3. FetchDone(w) \/ VerifyFile(w) \/ Mismatch(w) \/ ResetCorrupt(w) \/ CompleteFile(w)
            => pc'[w] \notin {"adopt", "finish"}
      BY <1>l, <1>r DEF FetchDone, VerifyFile, Mismatch, ResetCorrupt, CompleteFile, Fenced,
                        Goto
    <2> QED
      BY <2>1, <2>2, <2>3 DEF TransferStep
  <1>2. ReadRows(w) \/ PrepareStaging(w) \/ Mark(w) \/ OpenSums(w) \/ WriteSums(w)
          \/ LastCheck(w) => pc'[w] \notin {"adopt", "finish"}
    BY <1>l, <1>r DEF ReadRows, PrepareStaging, Mark, Fenced, OpenSums, WriteSums, LastCheck,
                      Goto
  <1>3. CheckDestination(w) => pc'[w] # "finish"
    BY <1>l, <1>r DEF CheckDestination, Goto
  <1>4. Register(w) \/ WorkerExits(w) \/ StoreFails(w) \/ Inventory(w) \/ Save(w)
          => pc'[w] \notin Telling
    BY <1>l, <1>r, <1>e DEF Register, WorkerExits, StoreFails, Inventory, Save, Goto
  <1>5. \/ FinishCompleted(w) \/ ReadForHandler(w) \/ SettleCancelled(w)
        \/ SettleCancelRequested(w) \/ SettleFailure(w) \/ Report(w) \/ Schedule(w) \/ Fail(w)
        => pc'[w] \notin Telling
    BY <1>l, <1>r, <1>e DEF FinishCompleted, Fenced, ReadForHandler, SettleCancelled,
       SettleCancelRequested, SettleFailure, Report, Schedule, Fail, Closing, End, Goto
  <1> QED
    BY <1>1, <1>2, <1>3, <1>4, <1>5 DEF RunStep

LEMMA ReadyOwn ==
    ASSUME Harmless, PullInv, DurableInv, InstallInv, DiskStep, [PullNext]_pullVars,
           NEW w \in Workers, RunStep(w), Working(w)'
    PROVE  Ready(w)'
  <1>1. GoesOn(w) /\ Working(w)
    BY RunGoesOn DEF GoesOn
  <1>2. PICK j \in JobIds, d \in Destinations : J(w) = j /\ D(w) = d
    BY <1>1 DEF PullInv, RunInv, TypedRun, DurableInv, TargetInv, Addressed
  <1>3. /\ Ready(w) /\ Shape /\ J(w)' = j /\ D(w)' = d /\ local'[w].model = local[w].model
        /\ w \in DOMAIN pc /\ Equipped(w)
    BY <1>1, <1>2 DEF InstallInv, PullInv, GoesOn, Shape, Equipped
  <1>4. ASSUME Occupied(d), installed[d].model = local[w].model
        PROVE  Ready(w)'
    <2>1. Occupied(d)' /\ installed'[d].model = local'[w].model
      BY <1>3, <1>4, OccupiedKept
    <2> QED
      BY <1>3, <2>1 DEF Ready, Finds, Occupied
  <1>5. ASSUME ~ Occupied(d)'
        PROVE  ~ Occupied(d) /\ Steady(w, j) /\ Prepared(w)
    <2>1. ~ Occupied(d) /\ Steady(w, j)
      BY <1>1, <1>2, <1>5, Undisturbed
    <2> QED
      BY <1>2, <1>3, <2>1 DEF Ready
  <1>6. ASSUME pc'[w] \notin {"adopt", "finish"},
               \/ TransferStep(w) \/ ReadRows(w) \/ CheckDestination(w) \/ PrepareStaging(w)
               \/ Mark(w) \/ OpenSums(w) \/ WriteSums(w) \/ LastCheck(w)
        PROVE  Ready(w)'
    <2>1. ~ Occupied(d)' => pc'[w] \notin Telling \/ Prepared(w)'
      BY <1>1, <1>2, <1>5, <1>6, TransferReady, PlanReady
    <2> QED
      BY <1>3, <1>6, <2>1, Silent DEF Ready, Finds, Occupied
  <1>7. CASE CheckDestination(w) /\ pc'[w] = "adopt"
    <2>1. Matches(w) /\ Occupied(d)
      BY <1>2, <1>3, <1>7 DEF CheckDestination, Goto, Raise, Occupied
    <2> QED
      BY <1>2, <1>4, <2>1 DEF Matches
  <1>8. CASE Adopt(w)
    <2>1. pc[w] = "adopt"
      BY <1>8 DEF Adopt
    <2> QED
      BY <1>2, <1>3, <1>4, <2>1 DEF Ready, Finds
  <1>9. CASE Publish(w)
    <2>1. CASE Raise(w, "permanent")
      BY <1>3, <2>1, Silent DEF Raise, Telling, PlanPcs, FilePcs
    <2>2. CASE Installs(w)
      <3>1. Occupied(d)' /\ installed'[d].model = local'[w].model
        BY <1>2, <1>3, <2>2 DEF Installs, Occupied
      <3> QED
        BY <1>3, <3>1 DEF Ready, Finds, Occupied
    <2> QED
      BY <1>3, <1>9, <2>1, <2>2, PublishSteps DEF DurableInv
  <1> QED
    BY <1>3, <1>6, <1>7, <1>8, <1>9, OtherPlaces, Silent

-----------------------------------------------------------------------------
(* What stands at a destination, and the completed rows.                   *)

\* A run that has just been claimed publishes where its row says.
LEMMA ClaimAddressed ==
    ASSUME PullInv, NEW w \in Workers, NEW k \in JobIds, WorkerClaims(w, k),
           local'[w] = Start(k)
    PROVE  Row(k) /\ D(w)' = destination[k] /\ pc'[w] = "claimed"
  <1>1. Claim(k) /\ Row(k) /\ pc'[w] = "claimed"
    BY DEF WorkerClaims, Claim, Oldest, Eligible, Lapsed, Held, Row, NoRow, Goto, PullInv, Shape
  <1> QED
    BY <1>1, StartTyped DEF D, PullInv, QueueInv

\* The only run of a job writes in staging.
LEMMA WritesInStaging ==
    ASSUME PullInv, DurableInv, InstallInv, "badbytes" \in Events,
           NEW w \in Workers, Equipped(w), Writes(w)
    PROVE  /\ local[w].open = "staging"
           /\ pc[w] \in {"fetch", "record"} /\ fstate[J(w)][F(w)] # "completed"
  <1>1. pc[w] \in {"fetch", "record"} /\ Unshared(w) /\ Scratch(w)
    BY DEF Equipped, Writes, WriteRange, SyncRange, FetchDone, InstallInv, DurableInv, OpenInv
  <1>2. ~ Stood(J(w)) /\ fstate[J(w)][F(w)] # "completed"
    BY <1>1 DEF Unshared, Ahead, FilePcs
  <1>3. local[w].open \in {"none", "staging", "installed"}
    BY DEF PullInv, Shape, LocalType
  <1> QED
    BY <1>1, <1>2, <1>3 DEF Scratch

LEMMA PlaceNext ==
    ASSUME Harmless, PullInv, DurableInv, InstallInv, DiskStep, [PullNext]_pullVars,
           NEW d \in Destinations
    PROVE  PlaceInv(d)'
  <1>q. TypeOK /\ [Next]_vars /\ TargetInv /\ Shape
    BY StepIsQueueStep DEF PullInv, QueueInv, DurableInv
  <1>1. CASE Occupied(d)
    <2>1. PICK k : k = installed[d].job
      OBVIOUS
    <2>2. /\ k \in JobIds /\ state[k] # "none" /\ (Row(k) => destination[k] = d)
          /\ \A f \in Files : Settled(f, installed[d].tree.files[f])
          /\ \A w \in Workers : Working(w) /\ J(w) = k => D(w) = d
      BY <1>1, <2>1 DEF InstallInv, PlaceInv
    <2>3. PlaceStep(d) /\ installed'[d].job = k
      BY <1>1, <2>1, OccupiedKept
    <2>4. state'[k] # "none" /\ (Row(k)' => destination'[k] = d)
      BY <1>q, <2>2, Names DEF Row, NoRow
    <2>5. ASSUME NEW f \in Files
          PROVE  Settled(f, installed'[d].tree.files[f])
      <3>1. installed[d].tree.files[f] \in FileType
        BY DEF DurableInv, DiskTyped, PlaceType, TreeType
      <3>2. ASSUME NEW w \in Workers, Equipped(w), Writes(w), local[w].open # "staging"
            PROVE  "badbytes" \notin Events
        BY <3>2, WritesInStaging
      <3> QED
        BY <2>2, <2>3, <3>1, <3>2, RewritesSettled, UnsyncedSettled DEF PlaceStep
    <2>6. ASSUME NEW w \in Workers, Working(w)', J(w)' = k
          PROVE  D(w)' = d
      BY <2>2, <2>6, Continues, ClaimAddressed DEF GoesOn
    <2> QED
      BY <2>2, <2>3, <2>4, <2>5, <2>6 DEF PlaceInv, Settled, Sound, Chunks
  <1>2. ASSUME NEW w \in Workers, Installs(w), D(w) = d
        PROVE  PlaceInv(d)'
    <2>1. PICK j \in JobIds : J(w) = j
      BY <1>2 DEF Installs, Equipped
    <2>2. /\ pc[w] = "rename" /\ ~ Occupied(d) /\ Working(w) /\ UNCHANGED vars
          /\ installed'[d].tree = staging[j] /\ installed'[d].job = j
      BY <1>2, <2>1, InstallsOccupy DEF Installs, Equipped, Publish
    <2>3. state'[j] # "none" /\ state' = state /\ destination' = destination
      BY <2>1, <2>2 DEF PullInv, RunInv, Rooted, vars, identity, rows
    <2>4. Row(j) => destination[j] = d
      BY <1>2, <1>q, <2>1, <2>2 DEF TargetInv, Addressed
    <2>5. \A f \in Files : Settled(f, installed'[d].tree.files[f])
      BY <1>2, <2>1, <2>2 DEF InstallInv, Ready, Prepared, Settle
    <2>6. ASSUME NEW v \in Workers, Working(v)', J(v)' = j
          PROVE  D(v)' = d
      <3>1. GoesOn(v) => D(v)' = d
        BY <1>2, <1>q, <2>1, <2>2, <2>6 DEF GoesOn, TargetInv
      <3> QED
        BY <2>4, <2>6, <3>1, Continues, ClaimAddressed
    <2> QED
      BY <2>1, <2>2, <2>3, <2>4, <2>5, <2>6 DEF PlaceInv, Settled, Sound, Chunks, Row
  <1>3. CASE ~ Occupied(d)'
    BY <1>3 DEF PlaceInv, Occupied
  <1> QED
    BY <1>1, <1>2, <1>3 DEF DiskStep, PlaceStep, Occupied

\* A row that still is one has the model and the destination it had.
LEMMA RowKept ==
    ASSUME TypeOK, [Next]_vars, NEW j \in JobIds, Row(j), state'[j] # "dismissed"
    PROVE  Row(j)' /\ destination'[j] = destination[j] /\ model'[j] = model[j]
  BY Names DEF Row, NoRow

\* The copy in staging of a completed file.
LEMMA CopyNext ==
    ASSUME Harmless, PullInv, DurableInv, InstallInv, DiskStep, [PullNext]_pullVars,
           NEW j \in JobIds, Row(j), NEW d \in Destinations, destination[j] = d, NEW f \in Files,
           fstate[j][f] = "completed" \/ \E w \in Workers : Completes(w, j, f),
           ~ Occupied(d)', staging'[j].files[f].exists
    PROVE  Settled(f, staging'[j].files[f])
  <1> DEFINE a == staging[j].files[f]
             b == staging'[j].files[f]
  <1>1. ~ Occupied(d)
    BY OccupiedKept
  <1>2. a \in FileType
    BY DEF DurableInv, DiskTyped, TreeType
  <1>3. ASSUME NEW w \in Workers, Working(w), J(w) = j
        PROVE  D(w) = d /\ Finds(w) /\ Prepared(w)
    BY <1>1, <1>3 DEF DurableInv, TargetInv, Addressed, InstallInv, Ready
  <1>4. \/ fstate[j][f] = "completed" /\ (a.exists => Settled(f, a))
        \/ Settled(f, a)
    <2>1. CASE fstate[j][f] = "completed"
      BY <1>1, <2>1 DEF InstallInv, RowInv
    <2>2. ASSUME NEW w \in Workers, Completes(w, j, f)
          PROVE  Settled(f, a)
      <3>1. pc[w] = "update" /\ F(w) = f
        BY <1>1, <1>3, <2>2 DEF Completes, Finds
      <3> QED
        BY <1>3, <2>2, <3>1 DEF Completes, Prepared, Settle
    <2> QED
      BY <2>1, <2>2
  <1>5. StagedStep(j, f)
    <2>1. ASSUME NEW w \in Workers, Installs(w), J(w) = j
          PROVE  FALSE
      <3>1. D(w) = d
        BY <1>3, <2>1 DEF Installs, Equipped
      <3> QED
        BY <2>1, <3>1, InstallsOccupy
    <2> QED
      BY <2>1 DEF DiskStep
  <1>6. ASSUME NEW w \in Workers, Equipped(w), OpenFile(w), J(w) = j, F(w) = f,
               b = [a EXCEPT !.exists = TRUE]
        PROVE  Settled(f, b)
    <2>1. Present(j, f)
      BY <1>3, <1>6 DEF Equipped, OpenFile, Prepared, FilePcs
    <2>2. Settled(f, a)
      BY <1>4, <2>1 DEF Present
    <2> QED
      BY <1>2, <1>6, <2>2 DEF Settled, Sound, FileType
  <1>7. b # NoFile
    BY DEF NoFile
  <1>w. ASSUME NEW v \in Workers, Equipped(v), Writes(v), J(v) = j, F(v) = f
        PROVE  "badbytes" \notin Events
    <2> SUFFICES ASSUME "badbytes" \in Events
                 PROVE  FALSE
      OBVIOUS
    <2>1. fstate[j][f] # "completed" /\ pc[v] \in {"fetch", "record"} /\ Working(v)
      BY <1>w, WritesInStaging DEF Equipped
    <2>2. PICK w \in Workers : Completes(w, j, f)
      BY <2>1
    <2>3. w = v
      BY <1>w, <2>1, <2>2 DEF Harmless, SoleRuns, Completes
    <2> QED
      BY <2>1, <2>2, <2>3 DEF Completes
  <1>8. ASSUME b.exists = a.exists, Settled(f, a) => Settled(f, b)
        PROVE  Settled(f, b)
    BY <1>4, <1>8
  <1> HIDE DEF a, b
  <1>9. CASE b = a
    BY <1>8, <1>9 DEF b
  <1>10. CASE \/ "badbytes" \notin Events /\ Rewrites(f, a, b)
              \/ b = Unsynced(a)
    <2>1. a \in FileType
      BY <1>2 DEF a
    <2>2. b.exists = a.exists /\ (Settled(f, a) => Settled(f, b))
      BY <1>10, <2>1, RewritesSettled, RewritesGrow, UnsyncedSettled
    <2> QED
      BY <1>8, <2>2 DEF b
  <1> QED
    BY <1>5, <1>6, <1>7, <1>w, <1>9, <1>10 DEF StagedStep, a, b

LEMMA RowNext ==
    ASSUME Harmless, PullInv, DurableInv, InstallInv, DiskStep, [PullNext]_pullVars,
           NEW j \in JobIds
    PROVE  RowInv(j)'
  <1>q. TypeOK /\ [Next]_vars /\ TargetInv /\ QueueInv /\ RowInv(j)
    BY StepIsQueueStep DEF PullInv, QueueInv, DurableInv, InstallInv
  <1>1. ASSUME NEW f \in Files, fstate'[j][f] = "completed"
        PROVE  /\ Row(j)'
               /\ ~ Occupied(destination[j])' /\ staging'[j].files[f].exists =>
                     Settled(f, staging'[j].files[f])
    <2>1. /\ Row(j) /\ state'[j] # "dismissed"
          /\ fstate[j][f] = "completed" \/ \E w \in Workers : Completes(w, j, f)
      <3>1. CASE fstate[j][f] = "completed"
                 /\ (state'[j] # "dismissed" \/ ~ Row(j))
        BY <1>q, <3>1 DEF RowInv
      <3>2. ASSUME NEW w \in Workers, Completes(w, j, f), state'[j] = state[j]
            PROVE  Row(j) /\ state'[j] # "dismissed"
        <4>1. T(w) \in Nat \ {0} /\ token[j] = T(w)
          BY <3>2 DEF Completes, Current, PullInv, RunInv, TypedRun
        <4>2. Row(j)
          BY <1>q, <4>1 DEF QueueInv, ClaimDiscipline, Row, NoRow, Held
        <4> QED
          BY <3>2, <4>2 DEF Row, NoRow
      <3> QED
        BY <1>1, <3>1, <3>2, CompletedStep
    <2>2. PICK d \in Destinations : destination[j] = d /\ destination'[j] = d
      BY <1>q, <2>1, RowKept DEF TargetInv
    <2>3. Row(j)'
      BY <1>q, <2>1, RowKept
    <2>4. ~ Occupied(d)' /\ staging'[j].files[f].exists => Settled(f, staging'[j].files[f])
      BY <2>1, <2>2, CopyNext
    <2> QED
      BY <2>2, <2>3, <2>4 DEF Occupied
  <1>2. ASSUME state'[j] = "completed"
        PROVE  Occupied(destination[j])' /\ installed'[destination'[j]].model = model'[j]
    <2>1. /\ Row(j) /\ Occupied(destination[j])
          /\ installed[destination[j]].model = model[j]
      <3>1. CASE state[j] = "completed"
        BY <1>q, <3>1 DEF RowInv, Row, NoRow
      <3>2. ASSUME NEW w \in Workers, Working(w), J(w) = j, pc[w] = "finish", Row(j)
            PROVE  Occupied(destination[j]) /\ installed[destination[j]].model = model[j]
        BY <1>q, <3>2 DEF InstallInv, Ready, Finds, TargetInv, Addressed
      <3> QED
        BY <1>2, <3>1, <3>2, FinishedStep
    <2>2. PICK d \in Destinations : destination[j] = d /\ destination'[j] = d
      BY <1>2, <1>q, <2>1, RowKept DEF TargetInv
    <2>3. model'[j] = model[j]
      BY <1>2, <1>q, <2>1, RowKept
    <2>4. Occupied(d)' /\ installed'[d].model = installed[d].model
      BY <2>1, <2>2, OccupiedKept
    <2> QED
      BY <2>1, <2>2, <2>3, <2>4 DEF Occupied
  <1> QED
    BY <1>1, <1>2 DEF RowInv, Settled, Sound, Chunks

-----------------------------------------------------------------------------
(* The only run of a job.                                                  *)

LEMMA StoodStep ==
    ASSUME DiskStep, NEW j \in JobIds, ~ Stood(j), Stood(j)'
    PROVE  \E w \in Workers : Installs(w) /\ J(w) = j
  <1>1. PICK d \in Destinations : installed'[d].tree.exists /\ installed'[d].job = j
    BY DEF Stood
  <1>2. ~ PlaceStep(d)
    BY <1>1 DEF PlaceStep, Stood
  <1> QED
    BY <1>1, <1>2 DEF DiskStep, Installs

\* Nobody but that run completes a file of its job, or publishes its directory.
LEMMA SoleStep ==
    ASSUME SoleRuns, PullInv, DiskStep, [PullNext]_pullVars, NEW w \in Workers, GoesOn(w),
           NEW j \in JobIds, J(w) = j
    PROVE  /\ \A f \in Files : fstate'[j][f] = "completed" =>
                 \/ fstate[j][f] = "completed"
                 \/ RunStep(w) /\ (pc[w] = "adopt" \/ (pc[w] = "update" /\ F(w) = f))
           /\ Stood(j)' => Stood(j) \/ Publish(w)
  <1>1. \A v \in Workers : Working(v) /\ J(v) = j => v = w
    BY DEF SoleRuns, GoesOn
  <1> QED
    BY <1>1, CompletedStep, StoodStep DEF Completes, Installs, Equipped

LEMMA UnsharedBystander ==
    ASSUME SoleRuns, PullInv, DiskStep, [PullNext]_pullVars,
           NEW w \in Workers, Same(w), Working(w)', ~ RunStep(w), Unshared(w)
    PROVE  Unshared(w)'
  <1>1. /\ GoesOn(w) /\ J(w)' = J(w) /\ F(w)' = F(w) /\ pc'[w] = pc[w]
        /\ local'[w].kept = local[w].kept /\ local'[w].todo = local[w].todo
    BY SameGoesOn DEF Same, Core
  <1>2. PICK j \in JobIds : J(w) = j
    BY <1>1 DEF GoesOn, PullInv, RunInv, TypedRun
  <1>3. local[w].todo \subseteq Files /\ (pc[w] \in FilePcs => F(w) \in Files)
    BY <1>1 DEF GoesOn, PullInv, RunInv, TypedRun, Shape, LocalType
  <1>4. ~ Publish(w)
    BY DEF RunStep
  <1>5. /\ \A f \in Files : fstate'[j][f] = "completed" => fstate[j][f] = "completed"
        /\ Stood(j)' => Stood(j)
    BY <1>1, <1>2, <1>4, SoleStep
  <1> QED
    BY <1>1, <1>2, <1>3, <1>5 DEF Unshared, Ahead, Stood

\* From where a run comes to the places where Unshared says something.
LEMMA PlanSteps ==
    ASSUME PullInv, NEW w \in Workers, Working(w), RunStep(w), pc'[w] \in PlanPcs
    PROVE  \/ NextFile(w) \/ Forget(w) \/ CompleteFile(w) \/ Adopt(w)
           \/ /\ pc[w] \in FilePcs \ {"update"} /\ pc'[w] \in FilePcs /\ F(w)' = F(w)
              /\ local'[w].todo = local[w].todo /\ local'[w].kept = local[w].kept
              /\ \A g \in Files \ {F(w)} : fstate'[J(w)][g] = fstate[J(w)][g]
           \/ ReadRows(w) /\ pc'[w] = "dest"
           \/ /\ UNCHANGED <<vars, local>>
              /\ \/ CheckDestination(w) /\ pc'[w] = "adopt"
                 \/ pc[w] = "dest" /\ ~ Occupied(D(w)) /\ pc'[w] = "stage"
                 \/ pc[w] = "stage" /\ pc'[w] = "next"
  <1>l. Shape /\ w \in DOMAIN pc
    BY DEF PullInv, Shape
  <1>p. pc'[w] \in Telling /\ pc'[w] # "handler"
    BY DEF Telling, PlanPcs, FilePcs
  <1>r. \A e : ~ Raise(w, e)
    BY <1>l, <1>p DEF Raise
  <1>1. CASE TransferStep(w)
    BY <1>1, <1>p, FileSteps
  <1>2. CASE ReadRows(w)
    BY <1>2, <1>l, <1>r DEF ReadRows, Goto
  <1>3. CASE CheckDestination(w) \/ PrepareStaging(w)
    BY <1>3, <1>l, <1>r DEF CheckDestination, PrepareStaging, Goto, Occupied
  <1>4. ~ (Mark(w) \/ OpenSums(w) \/ WriteSums(w) \/ LastCheck(w) \/ Publish(w))
    BY <1>l, <1>r DEF Mark, Fenced, OpenSums, WriteSums, LastCheck, Publish, Goto, PlanPcs, FilePcs
  <1> QED
    BY <1>l, <1>p, <1>1, <1>2, <1>3, <1>4, OtherPlaces

LEMMA AheadOwn ==
    ASSUME SoleRuns, PullInv, DiskStep, [PullNext]_pullVars,
           NEW w \in Workers, RunStep(w), Working(w)', Ahead(w)
    PROVE  Ahead(w)'
  <1>1. GoesOn(w) /\ Working(w)
    BY RunGoesOn DEF GoesOn
  <1>q. Shape /\ TypeOK /\ TypedRun(w)
    BY <1>1 DEF PullInv, QueueInv, RunInv
  <1>2. PICK j \in JobIds : J(w) = j
    BY <1>q DEF TypedRun
  <1>l. J(w)' = j /\ local[w] \in LocalType /\ w \in DOMAIN local /\ w \in DOMAIN pc
    BY <1>1, <1>2, <1>q DEF GoesOn, Shape
  <1>p. PICK todo, kept, g : todo = local[w].todo /\ kept = local[w].kept /\ g = F(w)
    OBVIOUS
  <1>3. todo \subseteq Files /\ (pc[w] \in FilePcs \cup {"forget"} => g \in todo)
    BY <1>l, <1>p, <1>q DEF LocalType, TypedRun
  <1>4. /\ pc[w] \in PlanPcs => \A f \in todo \ kept : fstate[j][f] # "completed"
        /\ pc[w] \in FilePcs => fstate[j][g] # "completed"
    BY <1>2, <1>p DEF Ahead
  <1> DEFINE Uncompleted ==
        /\ pc'[w] \in PlanPcs =>
              \A f \in local'[w].todo \ local'[w].kept : fstate'[j][f] # "completed"
        /\ pc'[w] \in FilePcs => fstate'[j][F(w)'] # "completed"
  <1> SUFFICES Uncompleted
    BY <1>l DEF Ahead
  <1>v. UNCHANGED vars => fstate' = fstate
    BY DEF vars, rows
  <1>r. (\E e : Raise(w, e)) => Uncompleted
    BY <1>l DEF Raise, PlanPcs, FilePcs
  <1>5. CASE NextFile(w)
    <2>1. CASE Goto(w, "mark")
      BY <1>l, <2>1 DEF Goto, PlanPcs, FilePcs
    <2>2. ASSUME NEW f \in todo, NEW l \in {"chunks", "forget"}, Take(w, f, l),
                 l = "chunks" => f \notin kept
          PROVE  Uncompleted
      <3>1. /\ pc'[w] = l /\ F(w)' = f
            /\ local'[w].kept = kept /\ local'[w].todo = todo
        BY <2>2, <1>l, <1>p DEF Take, Goto, LocalType, F
      <3> QED
        BY <1>4, <1>5, <1>v, <2>2, <3>1 DEF NextFile, PlanPcs, FilePcs
    <2>3. ASSUME NEW f \in todo, Skip(w, f)
          PROVE  Uncompleted
      <3>1. /\ pc'[w] = "next" /\ local'[w].kept = kept /\ local'[w].todo = todo \ {f}
        BY <1>5, <1>l, <1>p, <2>3 DEF Skip, NextFile, LocalType
      <3> QED
        BY <1>4, <1>5, <1>v, <2>3, <3>1 DEF Skip, NextFile, PlanPcs, FilePcs
    <2> QED
      BY <1>5, <1>p, <2>1, <2>2, <2>3 DEF NextFile
  <1>f. CASE Forget(w)
    <2>1. CASE ResetFile(j, g, T(w), FALSE) /\ Goto(w, "chunks") /\ UNCHANGED local
      <3>1. pc'[w] = "chunks" /\ F(w)' = g /\ local'[w].kept = kept /\ local'[w].todo = todo
        BY <2>1, <1>l, <1>p DEF Goto, F
      <3>2. g \in Files /\ fstate'[j][g] # "completed"
            /\ \A h \in Files \ {g} : fstate'[j][h] = fstate[j][h]
        BY <1>3, <1>f, <1>q, <2>1 DEF Forget, ResetFile, TypeOK
      <3> QED
        BY <1>3, <1>4, <1>f, <3>1, <3>2 DEF Forget, PlanPcs
    <2> QED
      BY <1>2, <1>f, <1>p, <1>r, <2>1 DEF Forget, Fenced
  <1>6. CASE CompleteFile(w)
    <2> DEFINE r == [local[w] EXCEPT !.todo = local[w].todo \ {F(w)}, !.file = "none",
                                     !.have = {}]
    <2>1. CASE ~ Raise(w, "cancelled")
      <3>1. /\ UpdateFile(j, g, T(w)) /\ Goto(w, "next")
            /\ local' = [local EXCEPT ![w] = r]
        BY <1>2, <1>6, <1>p, <2>1 DEF CompleteFile, Fenced
      <3>2. r.todo = todo \ {g} /\ r.kept = kept
        BY <1>l, <1>p DEF LocalType
      <3> HIDE DEF r
      <3>3. pc'[w] = "next" /\ local'[w].todo = todo \ {g} /\ local'[w].kept = kept
        BY <1>l, <3>1, <3>2 DEF Goto
      <3>4. \A f \in Files \ {g} : fstate'[j][f] = fstate[j][f]
        BY <1>q, <3>1 DEF UpdateFile, TypeOK
      <3> QED
        BY <1>3, <1>4, <1>6, <3>3, <3>4 DEF CompleteFile, PlanPcs, FilePcs
    <2> QED
      BY <1>r, <2>1
  <1>7. CASE Adopt(w)
    <2>1. CASE Goto(w, "finish")
      BY <1>l, <2>1 DEF Goto, PlanPcs, FilePcs
    <2>2. ASSUME NEW f \in todo \ kept, UpdateFile(j, f, T(w)), UNCHANGED pc,
                 local' = [local EXCEPT ![w].kept = @ \cup {f}]
          PROVE  Uncompleted
      <3>1. local'[w].todo = todo /\ local'[w].kept = kept \cup {f} /\ pc'[w] = "adopt"
        BY <1>7, <1>l, <1>p, <2>2 DEF LocalType, Adopt
      <3>2. \A h \in Files \ {f} : fstate'[j][h] = fstate[j][h]
        BY <1>q, <2>2 DEF UpdateFile, TypeOK
      <3> QED
        BY <1>3, <1>4, <1>7, <3>1, <3>2 DEF Adopt, PlanPcs, FilePcs
    <2> QED
      BY <1>2, <1>7, <1>p, <1>r, <2>1, <2>2 DEF Adopt, Fenced
  <1>8. CASE /\ pc[w] \in FilePcs \ {"update"} /\ F(w)' = F(w)
             /\ local'[w].todo = local[w].todo /\ local'[w].kept = local[w].kept
             /\ \A h \in Files \ {F(w)} : fstate'[J(w)][h] = fstate[J(w)][h]
    <2>1. fstate'[j][g] # "completed"
      BY <1>1, <1>2, <1>3, <1>4, <1>8, SoleStep DEF FilePcs
    <2> QED
      BY <1>2, <1>3, <1>4, <1>8, <1>p, <2>1 DEF PlanPcs
  <1>9. CASE ReadRows(w) /\ pc'[w] = "dest"
    <2> DEFINE r == [local[w] EXCEPT !.kept = Complete(fstate[j]), !.todo = Files]
    <2>1. CASE ~ Raise(w, "permanent")
      <3>1. local' = [local EXCEPT ![w] = r] /\ UNCHANGED vars
        BY <1>2, <1>9, <2>1 DEF ReadRows
      <3>2. r.kept = Complete(fstate[j]) /\ r.todo = Files
        BY <1>l DEF LocalType
      <3> HIDE DEF r
      <3>3. local'[w].kept = Complete(fstate[j]) /\ local'[w].todo = Files
        BY <1>l, <3>1, <3>2
      <3> QED
        BY <1>9, <1>v, <3>1, <3>3 DEF Complete, FilePcs
    <2> QED
      BY <1>r, <2>1
  <1>10. CASE UNCHANGED <<vars, local>> /\ pc[w] \in {"dest", "stage"}
              /\ pc'[w] \in {"adopt", "stage", "next"}
    BY <1>4, <1>10, <1>p, <1>v DEF PlanPcs, FilePcs
  <1>11. CheckDestination(w) => pc[w] = "dest"
    BY DEF CheckDestination
  <1>12. pc'[w] \notin PlanPcs => Uncompleted
    BY DEF PlanPcs
  <1> HIDE DEF Uncompleted
  <1> QED
    BY <1>1, <1>5, <1>f, <1>6, <1>7, <1>8, <1>9, <1>10, <1>11, <1>12, PlanSteps

LEMMA UnsharedOwn ==
    ASSUME SoleRuns, PullInv, DurableInv, InstallInv, DiskStep, [PullNext]_pullVars,
           NEW w \in Workers, RunStep(w), Working(w)', Unshared(w)
    PROVE  Unshared(w)'
  <1>1. GoesOn(w) /\ Working(w)
    BY RunGoesOn DEF GoesOn
  <1>2. PICK j \in JobIds : J(w) = j /\ J(w)' = j
    BY <1>1 DEF PullInv, RunInv, TypedRun, GoesOn
  <1>l. w \in DOMAIN pc
    BY DEF PullInv, Shape
  <1>3. ASSUME pc'[w] \in {"stage", "next", "forget"} \cup FilePcs
        PROVE  ~ Stood(j)'
    <2>1. pc'[w] \in PlanPcs /\ pc'[w] \notin {"adopt", "dest"}
      BY <1>3 DEF PlanPcs, FilePcs
    <2>2. ~ Publish(w)
      BY <1>l, <2>1 DEF Publish, Raise, Goto, PlanPcs, FilePcs
    <2>3. ~ Adopt(w)
      BY <1>l, <2>1 DEF Adopt, Fenced, Raise, Goto, PlanPcs, FilePcs
    <2>4. pc[w] \in {"stage", "next", "forget"} \cup FilePcs \/ ~ Occupied(D(w))
      BY <1>1, <2>1, <2>3, PlanSteps DEF NextFile, Forget, CompleteFile, FilePcs
    <2>5. Stood(j) => Occupied(D(w))
      BY <1>1, <1>2 DEF Stood, Occupied, InstallInv, PlaceInv
    <2>6. ~ Stood(j)
      BY <1>2, <2>4, <2>5 DEF Unshared
    <2> QED
      BY <1>1, <1>2, <2>2, <2>6, SoleStep
  <1> QED
    BY <1>2, <1>3, AheadOwn DEF Unshared, Stood

-----------------------------------------------------------------------------
(* The invariant, and what it says of the destinations.                    *)

LEMMA InstallInvNext ==
    ASSUME "lostrename" \notin Events, Harmless, PullInv, DurableInv, InstallInv,
           [PullNext]_pullVars
    PROVE  InstallInv'
  <1>1. DiskStep /\ DiskTyped /\ Shape
    BY DiskSteps DEF DurableInv, PullInv
  <1>2. Clean'
    BY <1>1, CleanNext DEF InstallInv
  <1>3. ASSUME NEW w \in Workers, Working(w)'
        PROVE  Ready(w)'
    <2>1. CASE RunStep(w)
      BY <1>1, <1>3, <2>1, ReadyOwn
    <2>2. CASE Same(w) /\ ~ RunStep(w)
      BY <1>1, <1>3, <2>2, ReadyBystander
    <2>3. ASSUME NEW k \in JobIds, WorkerClaims(w, k), local'[w] = Start(k)
          PROVE  Ready(w)'
      <3>1. pc'[w] \notin Telling
        BY <2>3, ClaimAddressed DEF Telling, PlanPcs, FilePcs
      <3> QED
        BY <3>1, Silent
    <2> QED
      BY <1>3, <2>1, <2>2, <2>3, Continues
  <1>4. (\A d \in Destinations : PlaceInv(d)') /\ (\A j \in JobIds : RowInv(j)')
    BY <1>1, PlaceNext, RowNext
  <1>5. ASSUME "badbytes" \in Events, NEW w \in Workers, Working(w)'
        PROVE  Unshared(w)'
    <2>1. SoleRuns /\ (Working(w) => Unshared(w))
      BY <1>5 DEF Harmless, InstallInv
    <2>2. CASE GoesOn(w) /\ RunStep(w)
      BY <1>1, <1>5, <2>1, <2>2, UnsharedOwn DEF GoesOn
    <2>3. CASE GoesOn(w) /\ Same(w) /\ ~ RunStep(w)
      BY <1>1, <1>5, <2>1, <2>3, UnsharedBystander DEF GoesOn
    <2>4. ASSUME NEW k \in JobIds, WorkerClaims(w, k), local'[w] = Start(k)
          PROVE  Unshared(w)'
      BY <2>4, ClaimAddressed DEF Unshared, Ahead, PlanPcs, FilePcs
    <2> QED
      BY <1>5, <2>2, <2>3, <2>4, Continues
  <1> QED
    BY <1>2, <1>3, <1>4, <1>5 DEF InstallInv

LEMMA InstallInvInit ==
    ASSUME PullInit
    PROVE  InstallInv
  <1>1. \A w \in Workers : ~ Working(w)
    BY DEF PullInit, Working
  <1>2. Clean
    BY DEF PullInit, Clean, CleanFile, NoTree, NoFile
  <1>3. \A d \in Destinations : PlaceInv(d)
    BY DEF PullInit, PlaceInv, Occupied, Nothing, NoTree
  <1>4. \A j \in JobIds : RowInv(j)
    BY DEF PullInit, Init, RowInv, NoFiles
  <1> QED
    BY <1>1, <1>2, <1>3, <1>4 DEF InstallInv

\* The invariant the theorems below rest on: what every run and every row knows of staging
\* and of the destinations.
THEOREM InstallInvariant ==
    ASSUME "lostrename" \notin Events
    PROVE  PullSpec /\ []Harmless => []InstallInv
  <1>1. PullInit => InstallInv
    BY InstallInvInit
  <1>2. PullInv /\ DurableInv /\ InstallInv /\ Harmless /\ [PullNext]_pullVars => InstallInv'
    BY InstallInvNext
  <1> QED
    BY <1>1, <1>2, PullInvariant, DurableInvariant, PTL DEF PullSpec

LEMMA WholePlace ==
    ASSUME InstallInv, NEW d \in Destinations, Occupied(d)
    PROVE  Verified(installed[d].tree)
  BY DEF InstallInv, PlaceInv, Occupied, Verified, Settled

\* docs/requirements.md:368-375 (rename only after every file verifies), in async_client.py: no
\* destination ever holds a directory with a file that is missing, unfinished, or not
\* the snapshot's, whichever of several late, crashed and restarted workers renamed it
\* there and whatever the others write through descriptors they still hold.  If the source
\* may serve wrong bytes, this needs leases that last as long as their runs: a file is hashed
\* once, and a second run of the job could write wrong bytes into it afterwards.
THEOREM PublishedVerified ==
    ASSUME "lostrename" \notin Events
    PROVE  PullSpec /\ []Harmless => []PublishedIsVerified
  <1>1. InstallInv => PublishedIsVerified
    BY WholePlace DEF PublishedIsVerified, Occupied
  <1> QED
    BY <1>1, InstallInvariant, PTL

\* docs/requirements.md:272: completed is a promise about the disk.  Who reads a job as completed
\* finds its model, whole, at its destination, although the rename and finish are two
\* steps, a crash may come between them, and other jobs want the same destination.  A source
\* that serves wrong bytes is harmless under the same condition.
THEOREM CompletedInstalled ==
    ASSUME "lostrename" \notin Events
    PROVE  PullSpec /\ []Harmless => []CompletedIsInstalled
  <1>1. DurableInv /\ InstallInv => CompletedIsInstalled
    <2> SUFFICES ASSUME DurableInv, InstallInv, NEW j \in JobIds, state[j] = "completed"
                 PROVE  /\ installed[destination[j]].model = model[j]
                        /\ Verified(installed[destination[j]].tree)
      BY DEF CompletedIsInstalled
    <2>1. Row(j) /\ destination[j] \in Destinations
      BY DEF Row, NoRow, DurableInv, TargetInv
    <2>2. Occupied(destination[j]) /\ installed[destination[j]].model = model[j]
      BY DEF InstallInv, RowInv
    <2> QED
      BY <2>1, <2>2, WholePlace
  <1> QED
    BY <1>1, DurableInvariant, InstallInvariant, PTL

\* docs/requirements.md:284: what was verified is not downloaded again.  Between the look at a
\* completed file's copy and the reset_file that follows from it, late runs go on writing
\* under the same name; but as long as nobody has taken the destination, a completed file is one
\* that no run transfers any more, so a copy that was missing at the look is missing
\* at the reset.  Once the destination is taken nothing is claimed: late runs then
\* write to the published directory, or create the file again.
THEOREM VerifiedKept ==
    ASSUME "lostrename" \notin Events
    PROVE  PullSpec /\ []Harmless => VerifiedIsKept
  <1> DEFINE Kept == \A j \in JobIds, f \in Files :
                 (fstate[j][f] = "completed" /\ fstate'[j][f] # "completed"
                    /\ state'[j] # "dismissed")
                    => \/ ~ Sound(f, staging[j].files[f])
                       \/ installed[destination[j]].tree.exists
  <1>1. PullInv /\ DurableInv /\ InstallInv /\ [PullNext]_pullVars => [Kept]_pullVars
    <2> SUFFICES ASSUME PullInv, DurableInv, InstallInv, [PullNext]_pullVars,
                        NEW j \in JobIds, NEW f \in Files,
                        fstate[j][f] = "completed", fstate'[j][f] # "completed",
                        state'[j] # "dismissed", ~ installed[destination[j]].tree.exists
                 PROVE  ~ Sound(f, staging[j].files[f])
      OBVIOUS
    <2>1. PICK w \in Workers : Forgetting(w, j, f)
      BY OnlyForgetTakesBack
    <2>2. Working(w) /\ Current(w) /\ pc[w] = "forget" /\ J(w) = j /\ F(w) = f
      BY <2>1 DEF Forgetting, Working
    <2>3. D(w) = destination[j]
      BY <2>2 DEF InstallInv, RowInv, DurableInv, TargetInv, Addressed
    <2>4. Planned(w)
      BY <2>2, <2>3 DEF InstallInv, Ready, Occupied, Prepared
    <2> QED
      BY <2>2, <2>4 DEF Planned, Missing, Sound
  <1> QED
    BY <1>1, PullInvariant, DurableInvariant, InstallInvariant, PTL DEF PullSpec, VerifiedIsKept

-----------------------------------------------------------------------------
(* How many runs a job has.                                                *)

\* A cancelled job, deleted or not, is never claimed again.
Over(j) == state[j] \in {"cancelled", "dismissed"}

\* A run has its claim until the job is cancelled; it is told to stop only by a cancellation or
\* by close; and its lease runs out only where no claim can follow.
HasJob(w) ==
    /\ Current(w) \/ Over(J(w))
    /\ local[w].stop => state[J(w)] = "cancel_requested" \/ Over(J(w))
    /\ local[w].shutdown => manager = "closing"
    /\ state[J(w)] \in Held /\ lease[J(w)] = "expired" => manager = "closing"

SoleInv ==
    /\ SoleRuns
    /\ manager # "running" => "shutdown" \in Events
    /\ \A w \in Workers : Working(w) => HasJob(w)

\* The events that tell a run to stop.
Signals(w) == <<local[w].stop, local[w].shutdown>>

LEMMA SignalsIn ==
    ASSUME Shape, NEW w \in Workers
    PROVE  "stop" \in DOMAIN local[w] /\ "shutdown" \in DOMAIN local[w] /\ w \in DOMAIN local
           /\ w \in DOMAIN pc
  BY DEF Shape, LocalType

LEMMA RaiseSignals ==
    ASSUME Shape, NEW w \in Workers, NEW e, Raise(w, e)
    PROVE  \A v \in Workers : Signals(v)' = Signals(v)
  BY SignalsIn DEF Raise, Signals

LEMMA LeaveSignals ==
    ASSUME Shape, NEW w \in Workers, NEW l \in {"idle", "dead"}, Leave(w, l),
           NEW v \in Workers, Working(v)'
    PROVE  v # w /\ Signals(v)' = Signals(v)
  <1>1. v # w
    BY SignalsIn DEF Leave, Goto, Working
  <1>2. "stop" \in DOMAIN local[v] /\ "shutdown" \in DOMAIN local[v]
    BY SignalsIn
  <1> QED
    BY <1>1, <1>2 DEF Leave, Signals

\* A step of a run sends no signals.
LEMMA RunSignals ==
    ASSUME Shape, NEW w \in Workers, RunStep(w), NEW v \in Workers, Working(v)'
    PROVE  Signals(v)' = Signals(v)
  <1>d. \A u \in Workers : /\ "stop" \in DOMAIN local[u] /\ "shutdown" \in DOMAIN local[u]
                           /\ u \in DOMAIN local
    BY SignalsIn
  <1>u. UNCHANGED local => Signals(v)' = Signals(v)
    BY DEF Signals
  <1>r. ASSUME NEW e, Raise(w, e)
        PROVE  Signals(v)' = Signals(v)
    BY <1>r, RaiseSignals
  <1>l. ASSUME NEW l \in {"idle", "dead"}, Leave(w, l)
        PROVE  Signals(v)' = Signals(v)
    BY <1>l, LeaveSignals
  <1>1. CASE Register(w)
    BY <1>1, <1>d DEF Register, Signals
  <1>2. CASE WorkerExits(w) \/ StoreFails(w) \/ Inventory(w) \/ Save(w) \/ CheckDestination(w)
             \/ PrepareStaging(w)
    BY <1>2, <1>u, <1>r, <1>l DEF WorkerExits, StoreFails, Inventory, Save, CheckDestination,
                                  PrepareStaging
  <1>3. CASE ReadRows(w)
    <2>1. CASE local' = [local EXCEPT ![w] = [@ EXCEPT !.kept = Complete(fstate[J(w)]),
                                                       !.todo = Files]]
      BY <2>1, <1>d DEF Signals
    <2> QED
      BY <1>3, <2>1, <1>r DEF ReadRows
  <1>4. CASE Adopt(w)
    BY <1>4, <1>r, <1>u, <1>d DEF Adopt, Fenced, Signals
  <1>t. ASSUME NEW f, NEW l, Take(w, f, l)
        PROVE  Signals(v)' = Signals(v)
    BY <1>t, <1>d DEF Take, Signals
  <1>5. CASE NextFile(w) \/ Forget(w) \/ DiscardChunks(w)
    <2>1. ASSUME NEW f, Skip(w, f)
          PROVE  Signals(v)' = Signals(v)
      BY <2>1, <1>d DEF Skip, Signals
    <2> QED
      BY <1>5, <2>1, <1>r, <1>u, <1>t DEF NextFile, Forget, DiscardChunks, Fenced
  <1>6. CASE PrepareChunksOf(w) \/ VerifyFile(w) \/ StopFetching(w) \/ Mismatch(w) \/ ResetCorrupt(w)
    BY <1>6, <1>r, <1>u DEF PrepareChunksOf, VerifyFile, StopFetching, Mismatch, ResetCorrupt
  <1>7. CASE ResumeChunks(w) \/ OpenFile(w)
    <2>1. CASE \/ local' = [local EXCEPT ![w].have = done[J(w)][F(w)]]
               \/ local' = [local EXCEPT ![w].open = "staging"]
      BY <2>1, <1>d DEF Signals
    <2> QED
      BY <1>7, <2>1, <1>r, <1>u DEF ResumeChunks, OpenFile
  <1>8. CASE \E r \in Chunks(F(w)) : WriteRange(w, r) \/ SyncRange(w, r)
    BY <1>8, <1>d DEF WriteRange, SyncRange, Signals
  <1>9. CASE RecordChunk(w)
    <2>1. ASSUME NEW h, NEW o, NEW e, local' = [local EXCEPT ![w] = [@ EXCEPT !.have = h, !.wrote = o,
                                                                              !.range = e]]
          PROVE  Signals(v)' = Signals(v)
      BY <2>1, <1>d DEF Signals
    <2> QED
      BY <1>9, <2>1, <1>r DEF RecordChunk, Fenced
  <1>10. CASE RangeFails(w) \/ FetchDone(w)
    <2>1. CASE local' = [local EXCEPT ![w].open = "none"]
      BY <2>1, <1>d DEF Signals
    <2> QED
      BY <1>10, <2>1, <1>r, <1>u DEF RangeFails, Fenced, FetchDone
  <1>11. CASE CompleteFile(w)
    <2>1. CASE local' = [local EXCEPT ![w] = [@ EXCEPT !.todo = local[w].todo \ {F(w)},
                                                       !.file = "none", !.have = {}]]
      BY <2>1, <1>d DEF Signals
    <2> QED
      BY <1>11, <2>1, <1>r DEF CompleteFile, Fenced
  <1>12. CASE Mark(w) \/ OpenSums(w) \/ WriteSums(w) \/ LastCheck(w)
    BY <1>12, <1>r, <1>u, <1>d DEF Mark, Fenced, OpenSums, WriteSums, LastCheck, Signals
  <1>13. CASE Publish(w)
    BY <1>13, <1>r, <1>d DEF Publish, Signals
  <1>14. CASE FinishCompleted(w) \/ SettleCancelled(w) \/ SettleCancelRequested(w) \/ Schedule(w)
              \/ Fail(w)
    BY <1>14, <1>r, <1>l DEF FinishCompleted, Fenced, SettleCancelled, SettleCancelRequested,
                             Schedule, Fail, Closing, End
  <1>15. CASE ReadForHandler(w) \/ SettleFailure(w) \/ Report(w)
    <2>1. CASE ReadForHandler(w)
      BY <2>1, <1>l, <1>d DEF ReadForHandler, Signals
    <2>2. CASE \E e : local' = [local EXCEPT ![w].exc = e]
      BY <2>2, <1>d DEF Signals
    <2> QED
      BY <1>15, <2>1, <2>2, <1>u DEF SettleFailure, Report
  <1> QED
    BY <1>1, <1>2, <1>3, <1>4, <1>5, <1>6, <1>7, <1>8, <1>9, <1>10, <1>11, <1>12, <1>13, <1>14, <1>15
    DEF RunStep, TransferStep

\* A run that goes on keeps its claim, in a state in which it has one.
LEMMA RunKeepsJob ==
    ASSUME Shape, TypeOK, NEW w \in Workers, J(w) \in JobIds, RunStep(w), Working(w)'
    PROVE  /\ UNCHANGED <<token, lease>>
           /\ state'[J(w)] = state[J(w)] \/ (state[J(w)] \in Held /\ state'[J(w)] \in Held)
           /\ \A j \in JobIds \ {J(w)} : state'[j] = state[j]
  <1>d. w \in DOMAIN pc
    BY SignalsIn
  <1> DEFINE Keeps == /\ UNCHANGED <<token, lease>>
                      /\ state'[J(w)] = state[J(w)]
                           \/ (state[J(w)] \in Held /\ state'[J(w)] \in Held)
                      /\ \A j \in JobIds \ {J(w)} : state'[j] = state[j]
  <1>u. UNCHANGED vars => Keeps
    BY DEF vars, claimVars
  <1>l. \A l \in {"idle", "dead"} : ~ Leave(w, l)
    BY <1>d DEF Leave, Goto, Working
  <1>s. UNCHANGED <<state, token, lease>> => Keeps
    OBVIOUS
  <1>1. CASE Register(w) \/ WorkerExits(w) \/ StoreFails(w) \/ Inventory(w)
             \/ ReadRows(w) \/ CheckDestination(w) \/ PrepareStaging(w) \/ ReadForHandler(w)
             \/ SettleFailure(w)
    BY <1>1, <1>u DEF Register, WorkerExits, StoreFails, Inventory, ReadRows, CheckDestination,
                      PrepareStaging, ReadForHandler, SettleFailure
  <1>2. CASE Save(w)
    BY <1>2, <1>l DEF Save, SaveSnapshot, Owns, claimVars, TypeOK, Held
  <1>3. CASE TransferStep(w)
    <2>1. CASE OpenFile(w) \/ StopFetching(w) \/ FetchDone(w) \/ VerifyFile(w)
               \/ \E r \in Chunks(F(w)) : WriteRange(w, r) \/ SyncRange(w, r)
      BY <2>1, <1>u DEF OpenFile, StopFetching, FetchDone, VerifyFile, WriteRange, SyncRange
    <2>2. CASE NextFile(w) \/ Forget(w) \/ PrepareChunksOf(w) \/ ResumeChunks(w) \/ DiscardChunks(w)
      BY <2>2, <1>u, <1>s DEF NextFile, Forget, PrepareChunksOf, ResumeChunks, DiscardChunks, Fenced,
                              ResetFile, PrepareChunks, claimVars
    <2>3. CASE RecordChunk(w) \/ RangeFails(w) \/ Mismatch(w) \/ ResetCorrupt(w) \/ CompleteFile(w)
      BY <2>3, <1>u, <1>s DEF RecordChunk, RangeFails, Mismatch, ResetCorrupt, CompleteFile, Fenced,
                              RecordProgress, RecordError, ResetFile, UpdateFile, claimVars
    <2> QED
      BY <1>3, <2>1, <2>2, <2>3 DEF TransferStep
  <1>4. CASE Adopt(w) \/ Report(w)
    BY <1>4, <1>u, <1>s DEF Adopt, Report, Fenced, UpdateFile, RecordJobError, claimVars
  <1>5. CASE Mark(w)
    <2>1. CASE MarkVerifying(J(w), T(w))
      BY <2>1 DEF MarkVerifying, CanMarkVerifying, Owns, claimVars, TypeOK, Held
    <2> QED
      BY <1>5, <1>u, <2>1 DEF Mark, Fenced
  <1>6. CASE OpenSums(w) \/ WriteSums(w) \/ LastCheck(w) \/ Publish(w)
    BY <1>6, <1>u DEF OpenSums, WriteSums, LastCheck, Publish
  <1>7. CASE FinishCompleted(w)
    BY <1>7, <1>l, <1>u DEF FinishCompleted, Fenced, End
  <1>8. ~ (SettleCancelled(w) \/ SettleCancelRequested(w) \/ Schedule(w) \/ Fail(w))
    BY <1>l DEF SettleCancelled, SettleCancelRequested, Schedule, Fail, Closing, End
  <1> QED
    BY <1>1, <1>2, <1>3, <1>4, <1>5, <1>6, <1>7, <1>8 DEF RunStep

\* What a step of others may do to the job of a run.
LEMMA HasJobKept ==
    ASSUME TypeOK, NEW w \in Workers, HasJob(w), NEW j \in JobIds, J(w) = j,
           J(w)' = j, T(w)' = T(w), Signals(w)' = Signals(w), manager' = manager,
           \/ token'[j] = token[j] /\ lease'[j] = lease[j] /\ state'[j] = state[j]
           \/ token'[j] = token[j] /\ lease'[j] = lease[j] /\ state[j] \in Held /\ state'[j] \in Held
           \/ token'[j] = token[j] /\ lease'[j] # "expired" /\ state'[j] = state[j]
           \/ token'[j] = token[j] /\ state'[j] = state[j] /\ manager = "closing"
           \/ token'[j] = token[j] /\ state'[j] = "cancel_requested" /\ ~ Over(j)
           \/ token'[j] = token[j] /\ state'[j] = state[j] /\ state[j] \notin Held
           \/ state'[j] \in {"cancelled", "dismissed"}
    PROVE  HasJob(w)'
  <1>1. local'[w].stop = local[w].stop /\ local'[w].shutdown = local[w].shutdown
    BY DEF Signals
  <1> QED
    BY <1>1 DEF HasJob, Over, Current, Held

\* A job with a run that has its claim is held or to be cancelled.
LEMMA JobOfRun ==
    ASSUME PullInv, NEW w \in Workers, Working(w), HasJob(w), ~ Over(J(w))
    PROVE  Current(w) /\ token[J(w)] # 0 /\ state[J(w)] \in Held \cup {"cancel_requested"}
  <1>1. J(w) \in JobIds /\ T(w) \in Nat \ {0}
    BY DEF PullInv, RunInv, TypedRun
  <1> QED
    BY <1>1 DEF HasJob, Current, PullInv, QueueInv, ClaimDiscipline

\* A claim finds no run of its job.
LEMMA ClaimFindsNone ==
    ASSUME PullInv, SoleInv, NEW u \in Workers, NEW k \in JobIds, WorkerClaims(u, k),
           NEW w \in Workers, Working(w)
    PROVE  J(w) # k
  <1>1. HasJob(w) /\ manager # "closing" /\ Eligible(k)
    BY DEF SoleInv, WorkerClaims, Polls, Claim, Oldest
  <1>2. ASSUME J(w) = k
        PROVE  FALSE
    <2>1. ~ Over(J(w))
      BY <1>1, <1>2 DEF Eligible, Lapsed, Held, Over
    <2>2. state[k] \in Held \cup {"cancel_requested"}
      BY <1>1, <1>2, <2>1, JobOfRun
    <2>3. state[k] \in Held /\ lease[k] = "expired"
      BY <1>1, <2>2 DEF Eligible, Lapsed, Held
    <2> QED
      BY <1>1, <1>2, <2>3 DEF HasJob
  <1> QED
    BY <1>2

\* A poll: jobs other than the claimed one are left alone or cancelled.
LEMMA HasJobPoll ==
    ASSUME PullInv, SoleInv, NEW u \in Workers, WorkerPoll(u), NEW w \in Workers, Working(w),
           Same(w), Signals(w)' = Signals(w)
    PROVE  HasJob(w)'
  <1>1. HasJob(w) /\ TypeOK /\ J(w)' = J(w) /\ T(w)' = T(w) /\ manager' = manager
    BY DEF SoleInv, PullInv, QueueInv, Same, Core, WorkerPoll
  <1>2. PICK j \in JobIds : J(w) = j
    BY DEF PullInv, RunInv, TypedRun
  <1>3. \/ token'[j] = token[j] /\ lease'[j] = lease[j] /\ state'[j] = state[j]
        \/ state'[j] = "cancelled"
    <2>1. CASE ClaimNothing
      BY <2>1 DEF ClaimNothing
    <2>2. ASSUME NEW k \in JobIds, WorkerClaims(u, k)
          PROVE  \/ token'[j] = token[j] /\ lease'[j] = lease[j] /\ state'[j] = state[j]
                 \/ state'[j] = "cancelled"
      <3>1. j # k
        BY <1>2, <2>2, ClaimFindsNone
      <3> QED
        BY <2>2, <3>1 DEF WorkerClaims, Claim
    <2> QED
      BY <2>1, <2>2 DEF WorkerPoll, WorkerFindsNothing
  <1> QED
    BY <1>1, <1>2, <1>3, HasJobKept

\* Users and time.  No lease runs out under a run that still renews it.
LEMMA HasJobAround ==
    ASSUME "late" \notin Events, PullInv, SoleInv, NEW i \in JobIds,
           UserStep(i) \/ LeaseRunsOut(i) \/ BackoffElapses(i), manager' = manager,
           NEW w \in Workers, Working(w)
    PROVE  HasJob(w)'
  <1>1. HasJob(w) /\ TypeOK /\ J(w)' = J(w) /\ T(w)' = T(w) /\ Signals(w)' = Signals(w)
    BY DEF SoleInv, PullInv, QueueInv, J, T, Signals, UserStep, LeaseRunsOut, BackoffElapses
  <1>2. PICK j \in JobIds : J(w) = j
    BY DEF PullInv, RunInv, TypedRun
  <1>3. state[j] \in Held \cup {"cancel_requested", "cancelled", "dismissed"}
    BY <1>1, <1>2, JobOfRun DEF Over
  <1>4. CASE UserStep(i)
    <2>1. \/ token'[j] = token[j] /\ lease'[j] = lease[j] /\ state'[j] = state[j]
          \/ token'[j] = token[j] /\ state'[j] = "cancel_requested" /\ ~ Over(j)
          \/ state'[j] \in {"cancelled", "dismissed"}
      <3>1. ASSUME NEW m, NEW d, EnqueueInserts(i, m, d) \/ EnqueueRequeues(i, m, d)
            PROVE  i # j /\ UNCHANGED <<token, lease>> /\ state' = [state EXCEPT ![i] = "queued"]
        BY <1>3, <3>1 DEF EnqueueInserts, EnqueueRequeues, Held, claimVars
      <3>2. CASE Retry(i)
        BY <1>1, <1>3, <3>2 DEF Retry, Retryable, FreeClaim, Held, TypeOK
      <3>3. CASE RequestCancel(i)
        BY <1>1, <3>3 DEF RequestCancel, Running, Held, Over, claimVars, TypeOK
      <3>4. CASE Dismiss(i)
        BY <1>1, <3>4 DEF Dismiss, TypeOK
      <3> QED
        BY <1>1, <1>4, <3>1, <3>2, <3>3, <3>4 DEF UserStep, TypeOK
    <2> QED
      BY <1>1, <1>2, <2>1, HasJobKept
  <1>5. CASE LeaseRunsOut(i)
    <2>1. token' = token /\ state' = state /\ (i # j => lease'[j] = lease[j]) /\ Abandoned(i)
      BY <1>1, <1>5 DEF LeaseRunsOut, LeaseExpires, TypeOK
    <2>2. i = j => manager = "closing" \/ state[j] \notin Held
      <3>1. ASSUME i = j, state[j] \in Held
            PROVE  manager = "closing"
        <4>1. Current(w)
          BY <1>1, <1>2, <3>1 DEF HasJob, Over, Held
        <4>2. manager = "closing" \/ local[w].stop \/ local[w].shutdown
          BY <1>2, <2>1, <3>1, <4>1 DEF Abandoned, Current
        <4>3. ~ local[w].stop
          BY <1>1, <1>2, <3>1 DEF HasJob, Over, Held
        <4> QED
          BY <1>1, <4>2, <4>3 DEF HasJob
      <3> QED
        BY <3>1
    <2> QED
      BY <1>1, <1>2, <2>1, <2>2, HasJobKept
  <1>6. CASE BackoffElapses(i)
    BY <1>1, <1>2, <1>6, HasJobKept DEF BackoffElapses, RetryDue
  <1> QED
    BY <1>4, <1>5, <1>6

\* The heartbeat renews the lease of a held job; where it is refused, the job is being cancelled.
LEMMA HasJobBeat ==
    ASSUME PullInv, SoleInv, NEW u \in Workers, HeartbeatTask(u), manager' = manager,
           NEW w \in Workers, Working(w)
    PROVE  HasJob(w)'
  <1>1. HasJob(w) /\ TypeOK /\ J(w) \in JobIds /\ Shape /\ Working(u)
    BY DEF SoleInv, PullInv, QueueInv, RunInv, TypedRun, HeartbeatTask
  <1>2. CASE Heartbeat(J(u), T(u)) /\ UNCHANGED local
    <2>1. J(w)' = J(w) /\ T(w)' = T(w) /\ Signals(w)' = Signals(w)
      BY <1>2 DEF J, T, Signals
    <2>2. /\ token' = token /\ state' = state
          /\ lease'[J(w)] = lease[J(w)] \/ lease'[J(w)] = "live"
      BY <1>1, <1>2 DEF Heartbeat, TypeOK
    <2> QED
      BY <1>1, <2>1, <2>2, HasJobKept
  <1>3. CASE /\ ~ Owns(J(u), T(u), Held) /\ UNCHANGED vars
             /\ local' = [local EXCEPT ![u].stop = TRUE]
    <2>1. J(w)' = J(w) /\ T(w)' = T(w)
      BY <1>1, <1>3, StoppedLocal DEF HeartbeatTask, Same, Core
    <2>2. CASE w # u
      <3>1. Signals(w)' = Signals(w)
        BY <1>3, <2>2 DEF Signals
      <3> QED
        BY <1>1, <1>3, <2>1, <3>1, HasJobKept DEF vars, claimVars
    <2>3. CASE w = u
      <3>1. local'[w].shutdown = local[w].shutdown
        BY <1>1, <1>3, <2>3, SignalsIn
      <3>2. Over(J(w)) \/ state[J(w)] = "cancel_requested"
        <4>1. ~ Over(J(w)) => /\ token[J(w)] = T(w) /\ token[J(w)] # 0
                              /\ state[J(w)] \in Held \cup {"cancel_requested"}
          BY <1>1, JobOfRun DEF Current
        <4> QED
          BY <1>3, <2>3, <4>1 DEF Owns, Presents
      <3> QED
        BY <1>1, <1>3, <2>1, <3>1, <3>2 DEF HasJob, Over, Current, vars, claimVars
    <2> QED
      BY <2>2, <2>3
  <1> QED
    BY <1>2, <1>3 DEF HeartbeatTask, HeartbeatStates

\* The run itself, and the runs of other jobs.
LEMMA HasJobRun ==
    ASSUME PullInv, SoleInv, NEW u \in Workers, WorkerStep(u), NEW w \in Workers, Working(w)'
    PROVE  HasJob(w)'
  <1>1. RunStep(u) /\ manager' = manager /\ Shape /\ TypeOK /\ DoneTyped
    BY DEF WorkerStep, PullInv, QueueInv
  <1>2. GoesOn(w)
    <2>1. Same(w) \/ RunStep(w)
      <3>1. OwnStep(u)
        BY <1>1, RunShape DEF PullInv, RunInv
      <3> QED
        BY <1>1, <3>1 DEF OwnStep
    <2> QED
      BY <2>1, SameGoesOn, RunGoesOn
  <1>3. /\ HasJob(w) /\ J(w) \in JobIds /\ J(w)' = J(w) /\ T(w)' = T(w)
        /\ Signals(w)' = Signals(w)
    BY <1>1, <1>2, RunSignals DEF GoesOn, SoleInv, PullInv, RunInv, TypedRun
  <1>4. CASE w = u
    BY <1>1, <1>3, <1>4, RunKeepsJob, HasJobKept
  <1>5. CASE w # u /\ Working(u)
    <2>1. J(u) # J(w)
      BY <1>2, <1>5 DEF SoleInv, SoleRuns, GoesOn
    <2>2. J(u) \in JobIds /\ Calls(u)
      BY <1>1, <1>5, RunCalls DEF PullInv, RunInv, TypedRun
    <2>3. token'[J(w)] = token[J(w)] /\ lease'[J(w)] = lease[J(w)] /\ state'[J(w)] = state[J(w)]
      BY <1>1, <1>3, <2>1, <2>2 DEF TypeOK, Calls, vars, SaveSnapshot, PrepareChunks, RecordProgress,
         RecordError, RecordJobError, ResetFile, UpdateFile, MarkVerifying, Finish, Release,
         ScheduleRetry, FreeClaim, claimVars
    <2> QED
      BY <1>1, <1>3, <2>3, HasJobKept
  <1>6. CASE ~ Working(u)
    BY <1>1, <1>3, <1>6, RestingCalls, HasJobKept DEF vars, claimVars
  <1> QED
    BY <1>4, <1>5, <1>6

\* A step that is no claim keeps the runs apart.
LEMMA SoleKept ==
    ASSUME SoleRuns, \A w \in Workers : Working(w)' => Working(w) /\ J(w)' = J(w)
    PROVE  SoleRuns'
  BY DEF SoleRuns

LEMMA SoleInvNext ==
    ASSUME "late" \notin Events, PullInv, SoleInv, [PullNext]_pullVars
    PROVE  SoleInv'
  <1>1. Shape /\ SoleRuns /\ (\A w \in Workers : Working(w) => HasJob(w))
    BY DEF PullInv, SoleInv
  <1>u. ASSUME UNCHANGED <<vars, pc, local, manager>>
        PROVE  SoleInv'
    <2>1. \A w \in Workers : Working(w)' => Working(w) /\ HasJob(w)' /\ J(w)' = J(w)
      BY <1>1, <1>u DEF Working, HasJob, Over, Current, J, T, vars, claimVars
    <2> QED
      BY <1>1, <1>u, <2>1, SoleKept DEF SoleInv
  <1>d. ASSUME \A w \in Workers : ~ Working(w)', manager' # "running" => "shutdown" \in Events
        PROVE  SoleInv'
    BY <1>d DEF SoleInv, SoleRuns
  <1>a. AllDown => SoleInv'
    BY <1>d DEF AllDown, NextProcess, Working, SoleInv
  <1>2. ASSUME NEW u \in Workers, WorkerPoll(u)
        PROVE  SoleInv'
    <2>1. CASE UNCHANGED <<pc, local>>
      <3>1. \A w \in Workers : Working(w)' => Working(w) /\ J(w)' = J(w) /\ HasJob(w)'
        BY <1>2, <2>1, HasJobPoll DEF Working, J, Same, Core, Signals, T, D, F
      <3> QED
        BY <1>1, <1>2, <3>1, SoleKept DEF SoleInv, WorkerPoll
    <2>2. ASSUME NEW k \in JobIds, WorkerClaims(u, k)
          PROVE  SoleInv'
      <3>1. /\ \A w \in Workers \ {u} : Same(w) /\ Signals(w)' = Signals(w)
            /\ J(u)' = k
        <4>1. local' = [local EXCEPT ![u] = Start(k)]
          BY <2>2 DEF WorkerClaims
        <4> QED
          BY <2>2, <4>1, ClaimStarts DEF Signals
      <3>2. ASSUME NEW w \in Workers \ {u}, Working(w)'
            PROVE  Working(w) /\ J(w)' = J(w) /\ J(w) # k /\ HasJob(w)'
        <4>1. Working(w) /\ J(w)' = J(w)
          BY <3>1, <3>2 DEF Same, Core, Working
        <4> QED
          BY <1>2, <2>2, <3>1, <4>1, ClaimFindsNone, HasJobPoll
      <3>3. HasJob(u)'
        <4>1. local'[u] = Start(k) /\ token'[k] = runs[k] + 1 /\ lease'[k] = "live"
          BY <1>1, <2>2, SignalsIn DEF WorkerClaims, Claim
        <4>2. ~ local'[u].stop /\ ~ local'[u].shutdown /\ T(u)' = token'[k]
          BY <4>1 DEF Start, Idle, T
        <4> QED
          BY <3>1, <4>1, <4>2 DEF HasJob, Current
      <3>4. SoleRuns'
        BY <1>1, <3>1, <3>2 DEF SoleRuns
      <3> QED
        BY <1>2, <3>2, <3>3, <3>4 DEF SoleInv, WorkerPoll
    <2> QED
      BY <1>2, <2>1, <2>2 DEF WorkerPoll, WorkerFindsNothing
  <1>3. ASSUME NEW u \in Workers, WorkerStep(u)
        PROVE  SoleInv'
    <2>1. \A w \in Workers : Working(w)' => HasJob(w)'
      BY <1>3, HasJobRun
    <2>2. ASSUME NEW w \in Workers, Working(w)'
          PROVE  Working(w) /\ J(w)' = J(w)
      <3>1. OwnStep(u)
        BY <1>3, RunShape DEF PullInv, QueueInv, RunInv, WorkerStep
      <3>2. GoesOn(w)
        BY <1>3, <2>2, <3>1, SameGoesOn, RunGoesOn DEF OwnStep, WorkerStep
      <3> QED
        BY <3>2 DEF GoesOn
    <2> QED
      BY <1>1, <1>3, <2>1, <2>2, SoleKept DEF SoleInv, WorkerStep
  <1>4. ASSUME NEW u \in Workers, Crash(u)
        PROVE  SoleInv'
    <2>1. CASE "shutdown" \in Events
      BY <1>4, <1>a, <2>1 DEF Crash
    <2>2. CASE "shutdown" \notin Events
      <3>1. Leave(u, "idle") /\ manager = "running" /\ manager' = "running" /\ UNCHANGED vars
        BY <1>4, <2>2 DEF Crash, End, NextProcess, SoleInv
      <3>2. ASSUME NEW w \in Workers, Working(w)'
            PROVE  Working(w) /\ J(w)' = J(w) /\ HasJob(w)'
        <4>1. w # u /\ Signals(w)' = Signals(w)
          BY <1>1, <3>1, <3>2, LeaveSignals
        <4>2. Same(w)
          BY <1>1, <3>1, <4>1, Left
        <4>3. Working(w) /\ J(w)' = J(w) /\ T(w)' = T(w)
          BY <3>2, <4>2 DEF Same, Core, Working
        <4>4. HasJob(w) /\ TypeOK /\ J(w) \in JobIds
          BY <1>1, <4>3 DEF PullInv, QueueInv, RunInv, TypedRun
        <4> QED
          BY <3>1, <4>1, <4>3, <4>4, HasJobKept DEF vars, claimVars
      <3> QED
        BY <1>1, <3>1, <3>2, SoleKept DEF SoleInv
    <2> QED
      BY <2>1, <2>2
  <1>5. CASE Around
    <2>1. ASSUME UNCHANGED pc, \A w \in Workers : Same(w),
                 \A w \in Workers : Working(w) => HasJob(w)'
          PROVE  SoleInv'
      <3>1. \A w \in Workers : Working(w)' => Working(w) /\ J(w)' = J(w) /\ HasJob(w)'
        BY <2>1 DEF Working, Same, Core
      <3> QED
        BY <1>1, <1>5, <3>1, SoleKept DEF SoleInv, Around
    <2>2. ASSUME NEW u \in Workers, HeartbeatTask(u)
          PROVE  SoleInv'
      <3>1. UNCHANGED pc /\ \A w \in Workers : Same(w)
        BY <1>1, <2>2, StoppedLocal DEF HeartbeatTask, Same, Core, J, T, D, F
      <3>2. \A w \in Workers : Working(w) => HasJob(w)'
        BY <1>5, <2>2, HasJobBeat DEF Around
      <3> QED
        BY <2>1, <3>1, <3>2
    <2>3. ASSUME NEW j \in JobIds, UserStep(j) \/ LeaseRunsOut(j) \/ BackoffElapses(j)
          PROVE  SoleInv'
      <3>1. UNCHANGED pc /\ \A w \in Workers : Same(w)
        BY <2>3 DEF UserStep, LeaseRunsOut, BackoffElapses, Same, Core, J, T, D, F
      <3>2. \A w \in Workers : Working(w) => HasJob(w)'
        BY <1>5, <2>3, HasJobAround DEF Around
      <3> QED
        BY <2>1, <3>1, <3>2
    <2>4. ASSUME \/ \E j \in JobIds, f \in Files : LoseCopy(j, f)
                 \/ \E d \in Destinations : RenameSettles(d)
          PROVE  SoleInv'
      BY <1>5, <1>u, <2>4 DEF LoseCopy, RenameSettles, Around
    <2> QED
      BY <1>5, <2>2, <2>3, <2>4 DEF Around
  <1>6. CASE Close
    <2>1. UNCHANGED <<vars, pc>> /\ manager' = "closing" /\ "shutdown" \in Events
      BY <1>6 DEF Close
    <2>2. ASSUME NEW w \in Workers, Working(w)'
          PROVE  Working(w) /\ J(w)' = J(w) /\ HasJob(w)'
      <3>1. Working(w) /\ J(w)' = J(w) /\ T(w)' = T(w)
        BY <1>1, <1>6, <2>1, <2>2, ClosedLocal DEF Close, Same, Core, Working
      <3>2. local'[w].stop = local[w].stop
        BY <1>1, <1>6, SignalsIn DEF Close
      <3> QED
        BY <1>1, <2>1, <3>1, <3>2 DEF HasJob, Over, Current, vars, claimVars
    <2> QED
      BY <1>1, <2>1, <2>2, SoleKept DEF SoleInv
  <1>7. CASE CloseReturns
    <2>1. "shutdown" \in Events
      BY <1>7 DEF CloseReturns, SoleInv
    <2> QED
      BY <1>7, <1>d, <2>1 DEF CloseReturns, Working
  <1>8. CASE PowerLoss \/ \E d \in Destinations : LoseRename(d)
    BY <1>8, <1>a DEF PowerLoss, LoseRename
  <1>9. CASE UNCHANGED pullVars
    BY <1>9, <1>u DEF pullVars
  <1> QED
    BY <1>2, <1>3, <1>4, <1>5, <1>6, <1>7, <1>8, <1>9 DEF PullNext

\* Tokens alone do not keep two workers off one job: a lease may lapse while its run goes on.
\* Where none does, a job has one run at a time, although workers crash and come back, managers
\* close with claims in flight, and a cancelled run goes on after its job was reaped.
THEOREM RunsAreSole ==
    ASSUME "late" \notin Events
    PROVE  PullSpec => []SoleRuns
  <1>1. PullInit => SoleInv
    BY DEF PullInit, SoleInv, SoleRuns, Working
  <1>2. PullInv /\ SoleInv /\ [PullNext]_pullVars => SoleInv'
    BY SoleInvNext
  <1>3. SoleInv => SoleRuns
    BY DEF SoleInv
  <1> QED
    BY <1>1, <1>2, <1>3, PullInvariant, PTL DEF PullSpec

-----------------------------------------------------------------------------
\* Three kinds of instance meet the condition whatever happens: those with a source that serves
\* the snapshot's bytes, however late their workers are; those in which no lease runs out under a run
\* that goes on; and those with a single worker.
COROLLARY VerifiedAndInstalled ==
    ASSUME "lostrename" \notin Events,
           "badbytes" \notin Events \/ "late" \notin Events \/ \A v, w \in Workers : v = w
    PROVE  PullSpec => [](PublishedIsVerified /\ CompletedIsInstalled)
  <1>1. "late" \notin Events => (PullSpec => []SoleRuns)
    BY RunsAreSole
  <1>2. SoleRuns => Harmless
    BY DEF Harmless
  <1>3. "late" \in Events => Harmless
    BY DEF Harmless, SoleRuns
  <1>4. CASE "late" \notin Events
    <2>1. PullSpec => []Harmless
      BY <1>1, <1>2, <1>4, PTL
    <2> QED
      BY <2>1, PublishedVerified, CompletedInstalled, PTL
  <1>5. CASE "late" \in Events
    <2>1. Harmless
      BY <1>3, <1>5
    <2>2. [](Harmless)
      BY <2>1, PTL
    <2> QED
      BY <2>2, PublishedVerified, CompletedInstalled, PTL
  <1> QED
    BY <1>4, <1>5
-----------------------------------------------------------------------------
(* What a refused call means.                                              *)

Whole(j) == \A f \in Files : fstate[j][f] = "completed"
Unasked(w) == Current(w) /\ state[J(w)] # "cancel_requested"

\* Where a run waits whose mark_verifying was accepted; one that adopts its destination keeps
\* every file.
Marked(w) ==
    pc[w] \in {"sums", "sums2", "check", "rename"} \/ (pc[w] = "finish" /\ local[w].kept = {})

\* A file the run does not have to transfer any more.
Spared(w, f) == f \notin local[w].todo \/ f \in local[w].kept

\* The row of the job is where the run that has it takes it to be, and every file the run does
\* not have to transfer is completed, but the one it is at.
AtPlace(w) ==
    /\ pc[w] = "claimed" => state[J(w)] = Claimed(J(w))
    /\ pc[w] \in {"inventory", "save"} => state[J(w)] = "snapshotting"
    /\ pc[w] \in PlanPcs \cup {"rows", "mark"} => state[J(w)] = "downloading" /\ snapshot[J(w)]
    /\ pc[w] \in PlanPcs => \A f \in Files : Spared(w, f) =>
           fstate[J(w)][f] = "completed" \/ (pc[w] \in FilePcs /\ f = F(w))
    /\ pc[w] = "mark" => Whole(J(w))
    /\ Marked(w) => state[J(w)] = "verifying" /\ snapshot[J(w)] /\ Whole(J(w))

\* A run that looks at its destination has all files to do.
Abreast(w) ==
    /\ pc[w] \in {"dest", "adopt"} => local[w].todo = Files
    /\ Unasked(w) => AtPlace(w)
AbreastInv == \A w \in Workers : Working(w) => Abreast(w)

LEMMA AbreastBystander ==
    ASSUME NEW w \in Workers, Same(w), Abreast(w), Intact(J(w), T(w))
    PROVE  Abreast(w)'
  <1>1. /\ pc'[w] = pc[w] /\ J(w)' = J(w) /\ T(w)' = T(w) /\ F(w)' = F(w)
        /\ local'[w].kept = local[w].kept /\ local'[w].todo = local[w].todo
    BY DEF Same, Core
  <1>2. ASSUME Unasked(w)'
        PROVE  AtPlace(w)'
    <2>1. token'[J(w)] = T(w) /\ state'[J(w)] # "cancel_requested"
      BY <1>1, <1>2 DEF Unasked, Current
    <2>2. /\ token[J(w)] = T(w) /\ state'[J(w)] = state[J(w)]
          /\ fstate'[J(w)] = fstate[J(w)] /\ snapshot'[J(w)] = snapshot[J(w)]
      BY <2>1 DEF Intact
    <2>3. AtPlace(w)
      BY <2>1, <2>2 DEF Abreast, Unasked, Current
    <2> QED
      BY <1>1, <2>2, <2>3 DEF AtPlace, Claimed, Spared, Marked, Whole
  <1> QED
    BY <1>1, <1>2 DEF Abreast

\* A step of the run itself: if it still has its claim, it had it before.
LEMMA UnaskedBefore ==
    ASSUME PullInv, NEW w \in Workers, RunStep(w), Working(w)', Unasked(w)'
    PROVE  Unasked(w)
  <1>1. GoesOn(w) /\ Shape /\ TypeOK /\ J(w) \in JobIds
    BY RunGoesOn DEF GoesOn, PullInv, QueueInv, RunInv, TypedRun
  <1>2. /\ token' = token
        /\ state'[J(w)] = state[J(w)] \/ (state[J(w)] \in Held /\ state'[J(w)] \in Held)
    BY <1>1, RunKeepsJob
  <1> QED
    BY <1>1, <1>2 DEF GoesOn, Unasked, Current, Held

\* The job stays as it is while a run plans and transfers.
LEMMA PlanState ==
    ASSUME Shape, NEW w \in Workers, RunStep(w), pc'[w] \in PlanPcs
    PROVE  /\ UNCHANGED <<state, snapshot>>
           /\ pc[w] \in PlanPcs \cup {"rows"}
           /\ pc'[w] = "dest" => ReadRows(w)
  <1>l. w \in DOMAIN pc
    BY DEF Shape
  <1>p. pc'[w] \in Telling /\ pc'[w] # "handler"
    BY DEF Telling, PlanPcs, FilePcs
  <1>r. \A e : ~ Raise(w, e)
    BY <1>l, <1>p DEF Raise
  <1>1. CASE TransferStep(w)
    <2>1. CASE NextFile(w) \/ PrepareChunksOf(w) \/ ResumeChunks(w) \/ OpenFile(w)
      BY <1>l, <1>r, <2>1 DEF NextFile, Take, Skip, PrepareChunksOf, PrepareChunks, ResumeChunks, OpenFile,
         Goto, PlanPcs, FilePcs, vars
    <2>4. CASE Forget(w) \/ DiscardChunks(w)
      BY <1>l, <1>r, <2>4 DEF Forget, DiscardChunks, ResetFile, Fenced, Goto, PlanPcs, FilePcs
    <2>2. CASE \/ \E r \in Chunks(F(w)) : WriteRange(w, r) \/ SyncRange(w, r)
               \/ StopFetching(w) \/ RecordChunk(w) \/ RangeFails(w)
      BY <1>l, <1>r, <2>2 DEF WriteRange, SyncRange, StopFetching, RecordChunk, RecordProgress,
         RangeFails, RecordError, Fenced, Goto, PlanPcs, FilePcs, vars
    <2>3. CASE FetchDone(w) \/ VerifyFile(w) \/ Mismatch(w) \/ ResetCorrupt(w) \/ CompleteFile(w)
      BY <1>l, <1>r, <2>3 DEF FetchDone, VerifyFile, Mismatch, RecordError, ResetCorrupt,
         CompleteFile, UpdateFile, Fenced, Goto, PlanPcs, FilePcs, vars
    <2> QED
      BY <1>1, <2>1, <2>2, <2>3, <2>4 DEF TransferStep
  <1>2. CASE ReadRows(w) \/ CheckDestination(w) \/ PrepareStaging(w)
    BY <1>2, <1>l, <1>r DEF ReadRows, CheckDestination, PrepareStaging, Goto, PlanPcs, vars
  <1>3. CASE Adopt(w)
    BY <1>3, <1>l, <1>r DEF Adopt, Fenced, UpdateFile, Goto, PlanPcs, FilePcs, vars
  <1>4. ~ (Mark(w) \/ OpenSums(w) \/ WriteSums(w) \/ LastCheck(w) \/ Publish(w))
    BY <1>l, <1>r DEF Mark, Fenced, OpenSums, WriteSums, LastCheck, Publish, Goto, PlanPcs, FilePcs
  <1> QED
    BY <1>p, <1>1, <1>2, <1>3, <1>4, OtherPlaces

\* Which file is next: one that is kept is completed, and one that is reset is then transferred.
LEMMA AbreastNext ==
    ASSUME PullInv, NEW w \in Workers, NEW j \in JobIds, J(w) = j, J(w)' = j, NextFile(w), AtPlace(w),
           pc'[w] \in PlanPcs
    PROVE  \A f \in Files : Spared(w, f)' =>
               fstate'[j][f] = "completed" \/ (pc'[w] \in FilePcs /\ f = F(w)')
  <1>l. Shape /\ TypeOK /\ local[w] \in LocalType /\ w \in DOMAIN local /\ w \in DOMAIN pc
    BY DEF PullInv, QueueInv, Shape
  <1>p. PICK todo, kept : todo = local[w].todo /\ kept = local[w].kept
    OBVIOUS
  <1>1. \A f \in Files : f \notin todo \/ f \in kept => fstate[j][f] = "completed"
    BY <1>p DEF NextFile, AtPlace, Spared, PlanPcs, FilePcs
  <1>v. fstate' = fstate
    BY DEF NextFile, vars, rows
  <1>2. ASSUME NEW f \in local[w].todo, NEW l \in {"chunks", "forget"}, Take(w, f, l)
        PROVE  \A g \in Files : Spared(w, g)' => fstate'[j][g] = "completed"
    <2>1. local'[w].kept = kept /\ local'[w].todo = todo
      BY <1>2, <1>l, <1>p DEF Take, LocalType
    <2> QED
      BY <1>1, <1>v, <2>1 DEF Spared
  <1>3. ASSUME NEW f \in local[w].todo, f \in local[w].kept, Skip(w, f)
        PROVE  \A g \in Files : Spared(w, g)' => fstate'[j][g] = "completed"
    <2>1. local'[w].kept = kept /\ local'[w].todo = todo \ {f} /\ f \in kept
      BY <1>3, <1>l, <1>p DEF Skip, LocalType
    <2> QED
      BY <1>1, <1>v, <2>1 DEF Spared
  <1>4. ~ Goto(w, "mark")
    BY <1>l DEF Goto, PlanPcs, FilePcs
  <1> QED
    BY <1>2, <1>3, <1>4 DEF NextFile

LEMMA AbreastPlan ==
    ASSUME PullInv, NEW w \in Workers, RunStep(w), Working(w), Abreast(w), pc'[w] \in PlanPcs
    PROVE  Abreast(w)'
  <1>w. Working(w)'
    BY DEF Working, PlanPcs, FilePcs
  <1>q. PICK j \in JobIds : J(w) = j /\ J(w)' = j
    BY <1>w, RunGoesOn DEF GoesOn, PullInv, RunInv, TypedRun
  <1>l. /\ Shape /\ TypeOK /\ TypedRun(w) /\ local[w] \in LocalType
        /\ w \in DOMAIN local /\ w \in DOMAIN pc
    BY DEF PullInv, QueueInv, RunInv, Shape
  <1>p. PICK todo, kept : todo = local[w].todo /\ kept = local[w].kept
    OBVIOUS
  <1>r. \A e : ~ Raise(w, e)
    BY <1>l DEF Raise, PlanPcs, FilePcs
  <1>s. /\ UNCHANGED <<state, snapshot>> /\ pc[w] \in PlanPcs \cup {"rows"}
        /\ pc'[w] = "dest" => ReadRows(w)
    BY <1>l, PlanState
  <1>steps. \/ NextFile(w) \/ Forget(w) \/ CompleteFile(w) \/ Adopt(w)
            \/ (ReadRows(w) /\ pc'[w] = "dest")
            \/ /\ pc[w] \in FilePcs \ {"update"} /\ pc'[w] \in FilePcs /\ F(w)' = F(w)
               /\ local'[w].todo = local[w].todo /\ local'[w].kept = local[w].kept
               /\ \A g \in Files \ {F(w)} : fstate'[J(w)][g] = fstate[J(w)][g]
            \/ /\ UNCHANGED <<vars, local>> /\ pc[w] \in {"dest", "stage"}
               /\ pc'[w] = "adopt" => pc[w] = "dest"
    BY PlanSteps DEF CheckDestination
  <1>rows. CASE ReadRows(w) /\ pc'[w] = "dest"
    <2> DEFINE r == [local[w] EXCEPT !.kept = Complete(fstate[J(w)]), !.todo = Files]
    <2>1. local' = [local EXCEPT ![w] = r] /\ fstate' = fstate
      BY <1>r, <1>rows DEF ReadRows, vars, rows
    <2>2. r.kept = Complete(fstate[J(w)]) /\ r.todo = Files
      BY <1>l DEF LocalType
    <2> HIDE DEF r
    <2>3. local'[w].todo = Files /\ local'[w].kept = Complete(fstate[j]) /\ fstate' = fstate
      BY <1>l, <1>q, <2>1, <2>2
    <2>4. \A f \in Files : Spared(w, f)' => fstate'[j][f] = "completed"
      BY <2>3 DEF Spared, Complete
    <2>5. Unasked(w)' => AtPlace(w)'
      <3>1. Unasked(w)' => state'[j] = "downloading" /\ snapshot'[j]
        BY <1>q, <1>s, <1>rows, <1>w, UnaskedBefore DEF Abreast, AtPlace, ReadRows
      <3> QED
        BY <1>q, <1>rows, <2>4, <3>1 DEF AtPlace, Marked, PlanPcs, FilePcs
    <2> QED
      BY <1>rows, <2>3, <2>5 DEF Abreast
  <1>adopt. pc'[w] = "adopt" => local'[w].todo = local[w].todo /\ pc[w] \in {"dest", "adopt"}
    <2>1. NextFile(w) \/ Forget(w) \/ CompleteFile(w) => pc'[w] # "adopt"
      BY <1>l, <1>r DEF NextFile, Take, Skip, Forget, Fenced, CompleteFile, Goto
    <2>2. Adopt(w) => pc[w] = "adopt" /\ local'[w].todo = local[w].todo
      BY <1>l, <1>r DEF Adopt, Fenced, LocalType
    <2> QED
      BY <1>steps, <2>1, <2>2 DEF FilePcs
  <1>1. CASE ~ ReadRows(w)
    <2>1. pc'[w] \in {"dest", "adopt"} => local'[w].todo = Files
      BY <1>1, <1>s, <1>adopt DEF Abreast
    <2>2. ASSUME Unasked(w)'
          PROVE  AtPlace(w)'
      <3>1. AtPlace(w)
        BY <1>w, <2>2, UnaskedBefore DEF Abreast
      <3>2. state'[j] = "downloading" /\ snapshot'[j]
        BY <1>q, <1>s, <3>1 DEF AtPlace
      <3>3. pc[w] \in PlanPcs
        <4>1. NextFile(w) \/ Forget(w) \/ CompleteFile(w) \/ Adopt(w) => pc[w] # "rows"
          BY DEF NextFile, Forget, CompleteFile, Adopt
        <4> QED
          BY <1>1, <1>s, <1>steps, <4>1 DEF FilePcs
      <3>4. \A f \in Files : f \notin todo \/ f \in kept =>
                fstate[j][f] = "completed" \/ (pc[w] \in FilePcs /\ f = F(w))
        BY <1>p, <1>q, <3>1, <3>3 DEF AtPlace, Spared
      <3>5. \A f \in Files : Spared(w, f)' =>
                fstate'[j][f] = "completed" \/ (pc'[w] \in FilePcs /\ f = F(w)')
        <4>1. CASE NextFile(w)
          BY <1>q, <3>1, <4>1, AbreastNext
        <4>6. CASE Forget(w)
          <5>1. ResetFile(J(w), F(w), T(w), FALSE) /\ Goto(w, "chunks") /\ UNCHANGED local
                /\ pc[w] = "forget"
            BY <1>r, <4>6 DEF Forget, Fenced
          <5>2. /\ pc'[w] = "chunks" /\ F(w)' = F(w)
                /\ local'[w].todo = todo /\ local'[w].kept = kept
            BY <1>l, <1>p, <5>1 DEF Goto, F
          <5>3. \A g \in Files \ {F(w)} : fstate'[j][g] = fstate[j][g]
            BY <1>l, <1>q, <5>1 DEF ResetFile, TypeOK
          <5> QED
            BY <3>4, <5>1, <5>2, <5>3 DEF Spared, FilePcs
        <4>2. CASE CompleteFile(w)
          <5> DEFINE r == [local[w] EXCEPT !.todo = local[w].todo \ {F(w)}, !.file = "none", !.have = {}]
          <5>1. UpdateFile(J(w), F(w), T(w)) /\ local' = [local EXCEPT ![w] = r] /\ pc[w] = "update"
            BY <1>r, <4>2 DEF CompleteFile, Fenced
          <5>2. r.todo = local[w].todo \ {F(w)} /\ r.kept = local[w].kept
            BY <1>l DEF LocalType
          <5> HIDE DEF r
          <5>3. local'[w].todo = todo \ {F(w)} /\ local'[w].kept = kept
            BY <1>l, <1>p, <5>1, <5>2
          <5>4. F(w) \in Files
            BY <1>l, <5>1 DEF TypedRun, FilePcs, LocalType
          <5>5. /\ fstate'[j][F(w)] = "completed"
                /\ \A g \in Files \ {F(w)} : fstate'[j][g] = fstate[j][g]
            BY <1>l, <1>q, <5>1, <5>4 DEF UpdateFile, TypeOK
          <5> QED
            BY <3>4, <5>3, <5>5 DEF Spared
        <4>3. CASE Adopt(w)
          <5>1. PICK f \in todo \ kept : /\ UpdateFile(J(w), f, T(w))
                                         /\ local' = [local EXCEPT ![w].kept = @ \cup {f}]
            BY <1>l, <1>p, <1>r, <4>3 DEF Adopt, Fenced, Goto, PlanPcs, FilePcs
          <5>2. local'[w].todo = todo /\ local'[w].kept = kept \cup {f} /\ f \in Files
            BY <1>l, <1>p, <5>1 DEF LocalType
          <5>3. /\ fstate'[j][f] = "completed"
                /\ \A g \in Files \ {f} : fstate'[j][g] = fstate[j][g]
            BY <1>l, <1>q, <5>1, <5>2 DEF UpdateFile, TypeOK
          <5>4. pc[w] \notin FilePcs
            BY <4>3 DEF Adopt, FilePcs
          <5> QED
            BY <3>4, <5>2, <5>3, <5>4 DEF Spared
        <4>4. CASE /\ pc[w] \in FilePcs /\ pc'[w] \in FilePcs /\ F(w)' = F(w)
                   /\ local'[w].todo = local[w].todo /\ local'[w].kept = local[w].kept
                   /\ \A g \in Files \ {F(w)} : fstate'[J(w)][g] = fstate[J(w)][g]
          BY <1>p, <1>q, <3>4, <4>4 DEF Spared
        <4>5. CASE UNCHANGED <<vars, local>> /\ pc[w] \in {"dest", "stage"}
          <5>1. local'[w].todo = todo /\ local'[w].kept = kept /\ fstate' = fstate
            BY <1>p, <4>5 DEF vars, rows
          <5> QED
            BY <3>4, <4>5, <5>1 DEF Spared, FilePcs
        <4> QED
          BY <1>1, <1>steps, <4>1, <4>2, <4>3, <4>4, <4>5, <4>6
      <3> QED
        BY <1>q, <3>2, <3>5 DEF AtPlace, Marked, PlanPcs, FilePcs
    <2> QED
      BY <2>1, <2>2 DEF Abreast
  <1> QED
    BY <1>rows, <1>1, <1>s, <1>l, <1>r DEF ReadRows, Goto

\* The store accepts a call to mark_verifying or finish("completed") by whether all files are.
LEMMA CountedWhole ==
    ASSUME PullInv, NEW j \in JobIds, AllCounted(j)
    PROVE  Whole(j)
  <1>1. Complete(fstate[j]) = Files
    BY FullCount DEF AllCounted, PullInv, QueueInv, RowsInv
  <1> QED
    BY <1>1 DEF Complete, Whole

LEMMA AbreastRest ==
    ASSUME PullInv, NEW w \in Workers, RunStep(w), Working(w), Abreast(w), Working(w)',
           pc'[w] \notin PlanPcs
    PROVE  Abreast(w)'
  <1>q. PICK j \in JobIds : J(w) = j /\ J(w)' = j
    BY RunGoesOn DEF GoesOn, PullInv, RunInv, TypedRun
  <1>l. /\ Shape /\ TypeOK /\ local[w] \in LocalType /\ w \in DOMAIN local /\ w \in DOMAIN pc
    BY DEF PullInv, QueueInv, Shape
  <1>u. Unasked(w)' => Unasked(w) /\ AtPlace(w)
    BY UnaskedBefore DEF Abreast
  <1>t. pc'[w] \notin {"dest", "adopt"}
    BY DEF PlanPcs
  <1>r. \A e : Raise(w, e) => pc'[w] = "handler"
    BY <1>l DEF Raise
  <1>v. \A x \in {"idle", "dead"} : ~ Leave(w, x)
    BY <1>l DEF Leave, Goto, Working
  <1>f. ASSUME pc'[w] \notin {"claimed", "inventory", "save", "rows", "mark"}, ~ Marked(w)'
        PROVE  Abreast(w)'
    BY <1>f, <1>t DEF Abreast, AtPlace
  <1>1. CASE Register(w)
    <2>1. pc'[w] = (IF snapshot[j] THEN "rows" ELSE "inventory") /\ pc[w] = "claimed"
          /\ state' = state /\ snapshot' = snapshot
      BY <1>1, <1>l, <1>q DEF Register, Goto, vars
    <2>2. AtPlace(w) => state[j] = Claimed(j)
      BY <1>q, <2>1 DEF AtPlace
    <2> QED
      BY <1>q, <1>t, <1>u, <2>1, <2>2 DEF Abreast, AtPlace, Claimed, Marked, PlanPcs, FilePcs
  <1>2. CASE Inventory(w) /\ pc'[w] = "save"
    <2>1. state' = state /\ pc[w] = "inventory"
      BY <1>2 DEF Inventory, vars
    <2> QED
      BY <1>2, <1>q, <1>t, <1>u, <2>1 DEF Abreast, AtPlace, Marked, PlanPcs, FilePcs
  <1>3. CASE Save(w)
    <2>1. SaveSnapshot(J(w), T(w)) /\ pc'[w] = "rows"
      BY <1>3, <1>l, <1>v DEF Save, Goto
    <2>2. state'[j] = "downloading" /\ snapshot'[j]
      BY <1>l, <1>q, <2>1 DEF SaveSnapshot, TypeOK
    <2> QED
      BY <1>q, <1>t, <2>1, <2>2 DEF Abreast, AtPlace, Marked, PlanPcs, FilePcs
  <1>4. CASE NextFile(w) /\ pc'[w] = "mark"
    <2>1. pc[w] = "next" /\ local[w].todo = {} /\ UNCHANGED vars
      BY <1>4, <1>l, <1>r DEF NextFile, Take, Skip, Forget, Fenced, Goto
    <2>2. AtPlace(w) => state'[j] = "downloading" /\ snapshot'[j] /\ Whole(j)'
      BY <1>q, <2>1 DEF AtPlace, Spared, Whole, PlanPcs, FilePcs, vars, rows
    <2> QED
      BY <1>4, <1>q, <1>t, <1>u, <2>2 DEF Abreast, AtPlace, Whole, Marked, PlanPcs, FilePcs
  <1>5. CASE Mark(w) /\ pc'[w] # "handler"
    <2>1. MarkVerifying(J(w), T(w)) /\ pc'[w] = "sums"
      BY <1>5, <1>l, <1>r DEF Mark, Fenced, Goto
    <2>2. state'[j] = "verifying" /\ snapshot'[j] /\ AllCounted(j) /\ fstate' = fstate
      BY <1>l, <1>q, <2>1 DEF MarkVerifying, CanMarkVerifying, AllCounted, TypeOK, rows
    <2>3. Whole(j)'
      BY <2>2, CountedWhole DEF Whole
    <2> QED
      BY <1>q, <1>t, <2>1, <2>2, <2>3 DEF Abreast, AtPlace, Whole, PlanPcs, FilePcs
  <1>6. CASE (OpenSums(w) \/ WriteSums(w) \/ LastCheck(w) \/ Publish(w)) /\ pc'[w] # "handler"
    <2>1. /\ pc[w] \in {"sums", "sums2", "check", "rename"} /\ UNCHANGED vars
          /\ pc'[w] \in {"sums2", "check", "rename", "finish"}
      BY <1>6, <1>l, <1>r DEF OpenSums, WriteSums, LastCheck, Publish, Goto
    <2>2. AtPlace(w) => state'[j] = "verifying" /\ snapshot'[j] /\ Whole(j)'
      BY <1>q, <2>1 DEF AtPlace, Marked, Whole, vars, rows
    <2> QED
      BY <1>q, <1>t, <1>u, <2>1, <2>2 DEF Abreast, AtPlace, Whole, Marked, PlanPcs, FilePcs
  <1>7. CASE Adopt(w) /\ pc'[w] = "finish"
    <2>1. pc[w] = "adopt" /\ local[w].todo \subseteq local[w].kept /\ UNCHANGED local
      BY <1>7, <1>l, <1>r DEF Adopt, Fenced
    <2>2. local'[w].kept # {}
      BY <2>1, FilesAssumption DEF Abreast
    <2> QED
      BY <1>7, <1>f, <2>2 DEF Marked
  <1>8. ASSUME pc'[w] \in {"claimed", "inventory", "save", "rows", "mark", "sums", "sums2", "check",
                           "rename", "finish"}
        PROVE  \/ Register(w) \/ Inventory(w) \/ Save(w) \/ (NextFile(w) /\ pc'[w] = "mark") \/ Mark(w)
               \/ OpenSums(w) \/ WriteSums(w) \/ LastCheck(w) \/ Publish(w)
               \/ (Adopt(w) /\ pc'[w] = "finish")
    <2>1. TransferStep(w) => NextFile(w) /\ pc'[w] = "mark"
      <3>1. CASE NextFile(w)
        BY <1>8, <1>l, <1>r, <3>1 DEF NextFile, Take, Skip, Forget, Fenced, Goto
      <3>2. CASE CompleteFile(w)
        BY <1>8, <1>l, <1>r, <1>t, <3>2 DEF CompleteFile, Fenced, Goto, PlanPcs, FilePcs
      <3>3. ~ Forget(w)
        BY <1>8, <1>l, <1>r DEF Forget, Fenced, Goto
      <3> QED
        BY <1>8, <3>1, <3>2, <3>3, FileSteps DEF PlanPcs
    <2>2. ~ (ReadRows(w) \/ CheckDestination(w) \/ PrepareStaging(w))
      BY <1>8, <1>l, <1>r DEF ReadRows, CheckDestination, PrepareStaging, Goto, PlanPcs
    <2>3. Adopt(w) => pc'[w] = "finish"
      BY <1>8, <1>l, <1>r DEF Adopt, Fenced, Goto
    <2>4. ~ (WorkerExits(w) \/ StoreFails(w) \/ FinishCompleted(w) \/ ReadForHandler(w)
             \/ SettleCancelled(w) \/ SettleCancelRequested(w) \/ Schedule(w) \/ Fail(w))
      BY <1>8, <1>l, <1>r, <1>v DEF WorkerExits, StoreFails, FinishCompleted, ReadForHandler,
         SettleCancelled, SettleCancelRequested, Schedule, Fail, Closing, End, Fenced, Goto
    <2>5. ~ (SettleFailure(w) \/ Report(w))
      BY <1>8, <1>l DEF SettleFailure, Report, Goto
    <2> QED
      BY <2>1, <2>2, <2>3, <2>4, <2>5 DEF RunStep
  <1>9. CASE pc'[w] \notin {"claimed", "inventory", "save", "rows", "mark", "sums", "sums2", "check",
                            "rename", "finish"}
    BY <1>9, <1>f DEF Marked
  <1>10. Inventory(w) => pc'[w] \in {"save", "handler"}
    BY <1>l, <1>r DEF Inventory, Goto
  <1> QED
    BY <1>1, <1>2, <1>3, <1>4, <1>5, <1>6, <1>7, <1>8, <1>9, <1>10

LEMMA AbreastInvNext == PullInv /\ AbreastInv /\ [PullNext]_pullVars => AbreastInv'
  <1> SUFFICES ASSUME PullInv, AbreastInv, [PullNext]_pullVars, NEW w \in Workers, Working(w)'
               PROVE  Abreast(w)'
    BY DEF AbreastInv
  <1>1. CASE RunStep(w)
    <2>1. Working(w) /\ Abreast(w)
      BY <1>1, RunGoesOn DEF GoesOn, AbreastInv
    <2> QED
      BY <1>1, <2>1, AbreastPlan, AbreastRest
  <1>2. CASE ~ RunStep(w) /\ Same(w) /\ Working(w)
    <2>1. Intact(J(w), T(w))
      BY <1>2, IntactStep
    <2> QED
      BY <1>2, <2>1, AbreastBystander DEF AbreastInv
  <1>3. ASSUME NEW k \in JobIds, WorkerClaims(w, k), J(w)' = k
        PROVE  Abreast(w)'
    <2>1. pc'[w] = "claimed" /\ state'[k] = Claimed(k) /\ snapshot' = snapshot
      BY <1>3, ClaimStarts DEF WorkerClaims, Claim, PullInv, QueueInv, TypeOK
    <2> QED
      BY <1>3, <2>1 DEF Abreast, AtPlace, Claimed, Marked, PlanPcs, FilePcs
  <1> QED
    BY <1>1, <1>2, <1>3, Continues DEF GoesOn

\* The store refuses a run nothing before its claim is lost or a cancellation is requested: what
\* the code calls a lost lease is one, however many runs a job had and whatever they left.
THEOREM RefusalsExplained == PullSpec => []RefusalMeansLost
  <1>1. PullInit => AbreastInv
    BY DEF PullInit, AbreastInv, Working
  <1>2. PullInv /\ AbreastInv /\ [PullNext]_pullVars => AbreastInv'
    BY AbreastInvNext
  <1> DEFINE Decided == \A j \in JobIds :
                 AllCounted(j) <=> snapshot[j] /\ \A f \in Files : fstate[j][f] = "completed"
  <1>3. PullSpec => []Decided
    BY PullRefinesQueue, CountersDecide, PTL
  <1>4. PullInv /\ AbreastInv /\ Decided => RefusalMeansLost
    <2> SUFFICES ASSUME PullInv, AbreastInv, Decided, NEW w \in Workers, Working(w), Unasked(w)
                 PROVE  ~ Refused(w)
      BY DEF RefusalMeansLost, Unasked, Current
    <2>1. AtPlace(w) /\ TypedRun(w) /\ J(w) \in JobIds /\ Presents(J(w), T(w)) /\ Shape
      BY DEF AbreastInv, Abreast, Unasked, Current, PullInv, RunInv, TypedRun, Presents
    <2>2. pc[w] # "save" \/ Owns(J(w), T(w), {"snapshotting"})
      BY <2>1 DEF AtPlace, Owns
    <2>3. pc[w] \in PlanPcs => state[J(w)] = "downloading" /\ snapshot[J(w)]
      BY <2>1 DEF AtPlace
    <2>4. pc[w] = "record" => BytesOf(local[w].have \cup {local[w].range}) \in 0 .. Size[F(w)]
      <3>1. ASSUME pc[w] = "record"
            PROVE  BytesOf(local[w].have \cup {local[w].range}) \in 0 .. Size[F(w)]
        <4> DEFINE R == local[w].have \cup {local[w].range}
        <4>1. F(w) \in Files /\ R \in SUBSET Ranges(Size[F(w)], ChunkSize)
          BY <2>1, <3>1 DEF TypedRun, FilePcs, Chunks, Shape, LocalType
        <4>2. Size[F(w)] \in Nat /\ ChunkSize \in Nat \ {0}
          BY <4>1, SizeAssumption, ChunkSizeAssumption, ChunkSizesAssumption
        <4> HIDE DEF R
        <4>3. BytesOf(R) \in 0 .. Size[F(w)]
          BY <4>1, <4>2, RangesAddUp
        <4> QED
          BY <4>3 DEF R
      <3> QED
        BY <3>1
    <2>5. pc[w] = "mark" => CanMarkVerifying(J(w), T(w))
      BY <2>1 DEF AtPlace, CanMarkVerifying, Owns, Whole
    <2>6. pc[w] = "check" => ~ CancellationRequested(J(w), T(w))
      BY <2>1 DEF AtPlace, Marked, CancellationRequested, Presents, Row, NoRow
    <2>7. pc[w] = "finish" /\ local[w].kept = {} => CanFinish(J(w), T(w), "completed")
      BY <2>1 DEF AtPlace, Marked, CanFinish, Owns, Whole
    <2> HIDE DEF Decided
    <2> QED
      BY <2>1, <2>2, <2>3, <2>4, <2>5, <2>6, <2>7 DEF Refused, Owns, CanReset, CanRecordError,
         CanRecordProgress, PlanPcs, FilePcs
  <1> QED
    BY <1>1, <1>2, <1>3, <1>4, PullInvariant, PTL DEF PullSpec
=============================================================================
