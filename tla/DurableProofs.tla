---------------------------- MODULE DurableProofs ----------------------------
(***************************************************************************)
(* What the queue records about a file survives a power loss, for every    *)
(* number of workers and jobs and every set of events but a lost rename.   *)
(*                                                                         *)
(* The argument.  A run carries, from one await to the next, ranges it has *)
(* found in the queue and ranges it has written.  The first are durable in *)
(* the file it has open and the second are in it (Holds), because no       *)
(* worker takes bytes out of a file, and a file goes away only when no     *)
(* worker has the job, or by the rename that publishes it (StagedStep).    *)
(* So whatever a run records, under a claim that is current or not, is     *)
(* durable when it records it.                                             *)
(***************************************************************************)
EXTENDS PullProofs

-----------------------------------------------------------------------------
(* Where a run publishes.                                                  *)

\* A run goes on with the claim it has.
GoesOn(w) ==
    /\ Working(w) /\ J(w)' = J(w) /\ T(w)' = T(w) /\ D(w)' = D(w)
    /\ local'[w].model = local[w].model

LEMMA RunGoesOn ==
    ASSUME PullInv, NEW w \in Workers, RunStep(w), Working(w)'
    PROVE  GoesOn(w)
  <1>1. Shape /\ TypeOK /\ DoneTyped /\ (Working(w) => TypedRun(w))
    BY DEF PullInv, QueueInv, RunInv
  <1>2. OwnStep(w) /\ Working(w)
    BY <1>1, RunShape, RestingStays
  <1> QED
    BY <1>2 DEF OwnStep, GoesOn, Working

LEMMA SameGoesOn ==
    ASSUME NEW w \in Workers, Same(w), Working(w)'
    PROVE  GoesOn(w)
  BY DEF Same, Core, Working, GoesOn

\* A worker that runs a job after a step ran it before, with the same core variables
\* unless the step is its own, or has just claimed it.
LEMMA Continues ==
    ASSUME PullInv, [PullNext]_pullVars, NEW w \in Workers, Working(w)'
    PROVE  \/ GoesOn(w) /\ (Same(w) \/ RunStep(w))
           \/ \E k \in JobIds : WorkerClaims(w, k) /\ J(w)' = k /\ local'[w] = Start(k)
  <1>0. Shape /\ TypeOK /\ DoneTyped /\ (\A v \in Workers : Working(v) => TypedRun(v))
    BY DEF PullInv, QueueInv, RunInv
  <1>1. CASE Same(w)
    BY <1>1, SameGoesOn
  <1>2. CASE RunStep(w)
    BY <1>2, RunGoesOn
  <1>3. CASE Apart \/ \E v \in Workers : Beats(v)
    <2>1. Same(w)
      BY <1>3 DEF Apart, Beats, Same, Core, J, T, D, F
    <2> QED
      BY <1>1, <2>1
  <1>4. CASE Outside
    BY <1>1, <1>4 DEF Outside, Working
  <1>5. ASSUME NEW v \in Workers, RunStep(v)
        PROVE  Same(w) \/ RunStep(w)
    BY <1>0, <1>5, RunShape DEF OwnStep
  <1>6. ASSUME NEW v \in Workers, NEW k \in JobIds, WorkerClaims(v, k)
        PROVE  Same(w) \/ (v = w /\ J(w)' = k /\ local'[w] = Start(k))
    BY <1>0, <1>6, ClaimStarts DEF WorkerClaims, Shape
  <1> QED
    BY <1>0, <1>1, <1>2, <1>3, <1>4, <1>5, <1>6, Kinds

\* What happens to the model and the destination of a job.
LEMMA Names ==
    ASSUME TypeOK, [Next]_vars, NEW j \in JobIds
    PROVE  \/ /\ model'[j] = model[j] /\ destination'[j] = destination[j]
              /\ (state'[j] \notin NoRow => Row(j))
              /\ (state'[j] = "none" => state[j] = "none")
           \/ state'[j] = "dismissed"
           \/ state[j] = "none" /\ model'[j] \in Models /\ destination'[j] \in Destinations
  <1> USE DEF TypeOK, Row, NoRow, Held, Running, Terminal
  <1>1. CASE UNCHANGED vars
    BY <1>1 DEF vars, identity
  <1>2. CASE Poll
    <2>1. CASE ClaimNothing
      BY <2>1 DEF ClaimNothing, Reapable, identity
    <2>2. ASSUME NEW k \in JobIds, Claim(k)
          PROVE  /\ model'[j] = model[j] /\ destination'[j] = destination[j]
                 /\ (state'[j] \notin NoRow => Row(j))
                 /\ (state'[j] = "none" => state[j] = "none")
      <3>1. Row(k) /\ Claimed(k) # "none"
        BY <2>2 DEF Claim, Oldest, Eligible, Lapsed, Claimed
      <3> QED
        BY <2>2, <3>1 DEF Claim, Reapable, identity
    <2> QED
      BY <1>2, <2>1, <2>2 DEF Poll
  <1>3. ASSUME NEW i \in JobIds, Submit(i) \/ Tick(i)
        PROVE  \/ /\ model'[j] = model[j] /\ destination'[j] = destination[j]
                  /\ (state'[j] \notin NoRow => Row(j))
                  /\ (state'[j] = "none" => state[j] = "none")
               \/ state'[j] = "dismissed"
               \/ state[j] = "none" /\ model'[j] \in Models /\ destination'[j] \in Destinations
    BY <1>3 DEF Submit, Tick, EnqueueRequeues, EnqueueInserts, Retry, Retryable, RequestCancel,
                Dismiss, LeaseExpires, RetryDue, identity
  <1>4. ASSUME NEW i \in JobIds, NEW u \in Issued(i), JobStep(i, u)
        PROVE  /\ model'[j] = model[j] /\ destination'[j] = destination[j]
               /\ (state'[j] \notin NoRow => Row(j))
               /\ (state'[j] = "none" => state[j] = "none")
    BY <1>4 DEF JobStep, Heartbeat, SaveSnapshot, RecordError, RecordJobError, ScheduleRetry,
                Release, MarkVerifying, CanMarkVerifying, Outcome, Finish, CanFinish, Owns,
                identity
  <1>5. ASSUME NEW i \in JobIds, NEW u \in Issued(i), FileStep(i, u)
        PROVE  /\ model'[j] = model[j] /\ destination'[j] = destination[j]
               /\ (state'[j] \notin NoRow => Row(j))
               /\ (state'[j] = "none" => state[j] = "none")
    BY <1>5 DEF FileStep, PrepareChunks, Progress, RecordProgress, ResetFile, UpdateFile,
                identity
  <1> QED
    BY <1>1, <1>2, <1>3, <1>4, <1>5 DEF Next

\* The local model and destination of a run are those of its job, as long as the job
\* exists, and those of every other run of that job.
Addressed(w) ==
    /\ D(w) \in Destinations /\ local[w].model \in Models
    /\ Row(J(w)) => D(w) = destination[J(w)] /\ local[w].model = model[J(w)]

TargetInv ==
    /\ \A j \in JobIds : Row(j) => destination[j] \in Destinations /\ model[j] \in Models
    /\ \A w \in Workers : Working(w) => Addressed(w)
    /\ \A v, w \in Workers : Working(v) /\ Working(w) /\ J(v) = J(w) =>
                               D(v) = D(w) /\ local[v].model = local[w].model

LEMMA TargetNext ==
    ASSUME PullInv, TargetInv, [PullNext]_pullVars
    PROVE  TargetInv'
  <1>q. TypeOK /\ [Next]_vars /\ Shape
    BY StepIsQueueStep DEF PullInv, QueueInv
  <1>1. \A j \in JobIds : (Row(j) => destination[j] \in Destinations /\ model[j] \in Models)'
    BY <1>q, Names DEF TargetInv, Row, NoRow
  <1>2. ASSUME NEW w \in Workers, GoesOn(w), Working(w)'
        PROVE  Addressed(w)'
    <2>1. J(w) \in JobIds /\ state[J(w)] # "none" /\ Addressed(w)
      BY <1>2 DEF GoesOn, PullInv, RunInv, TypedRun, Rooted, TargetInv
    <2>2. Row(J(w))' => /\ Row(J(w)) /\ destination'[J(w)] = destination[J(w)]
                        /\ model'[J(w)] = model[J(w)]
      BY <1>q, <1>2, <2>1, Names DEF GoesOn, Row, NoRow
    <2> QED
      BY <1>2, <2>1, <2>2 DEF Addressed, GoesOn
  <1>3. ASSUME NEW w \in Workers, NEW k \in JobIds, WorkerClaims(w, k), J(w)' = k,
               local'[w] = Start(k)
        PROVE  /\ Addressed(w)' /\ D(w)' = destination[k] /\ local'[w].model = model[k]
               /\ Row(k)
    <2>1. Claim(k) /\ Row(k)
      BY <1>3 DEF WorkerClaims, Claim, Oldest, Eligible, Lapsed, Held, Row, NoRow
    <2>2. D(w)' = destination[k] /\ local'[w].model = model[k]
      BY <1>q, <1>3, <2>1, StartTyped DEF D
    <2>3. destination' = destination /\ model' = model
      BY <2>1 DEF Claim, identity
    <2> QED
      BY <1>3, <2>1, <2>2, <2>3 DEF Addressed, TargetInv
  <1>4. ASSUME NEW w \in Workers, Working(w)'
        PROVE  Addressed(w)'
    BY <1>2, <1>3, <1>4, Continues
  <1>5. ASSUME NEW v \in Workers, NEW w \in Workers, Working(v)', Working(w)', J(v)' = J(w)'
        PROVE  D(v)' = D(w)' /\ local'[v].model = local'[w].model
    <2>1. CASE GoesOn(v) /\ GoesOn(w)
      BY <1>5, <2>1 DEF GoesOn, TargetInv
    <2>2. ASSUME NEW x \in Workers, NEW y \in Workers, NEW k \in JobIds, WorkerClaims(x, k),
                 J(x)' = k, local'[x] = Start(k), GoesOn(y), J(y)' = k
          PROVE  D(y)' = D(x)' /\ local'[y].model = local'[x].model
      <3>1. Row(k) /\ D(x)' = destination[k] /\ local'[x].model = model[k]
        BY <1>3, <2>2
      <3>2. Addressed(y) /\ J(y) = k
        BY <2>2 DEF GoesOn, TargetInv
      <3> QED
        BY <2>2, <3>1, <3>2 DEF GoesOn, Addressed
    <2>3. ASSUME NEW k \in JobIds, WorkerClaims(v, k), J(v)' = k, local'[v] = Start(k),
                 NEW i \in JobIds, WorkerClaims(w, i), J(w)' = i, local'[w] = Start(i)
          PROVE  D(v)' = D(w)' /\ local'[v].model = local'[w].model
      BY <1>5, <2>3, <1>3
    <2> QED
      BY <1>5, <2>1, <2>2, <2>3, Continues
  <1> QED
    BY <1>1, <1>4, <1>5 DEF TargetInv

-----------------------------------------------------------------------------
(* The steps that touch the disk.                                          *)

FileType  == [exists : BOOLEAN, good : SUBSET AllRanges, bad : SUBSET AllRanges,
              dirty : SUBSET AllRanges]
TreeType  == [exists : BOOLEAN, files : [Files -> FileType], sums : {"none", "torn", "ok"}]
PlaceType == [tree : TreeType, model : Models \cup {"none"}, job : JobIds \cup {0},
              settled : BOOLEAN]

DiskTyped == staging \in [JobIds -> TreeType] /\ installed \in [Destinations -> PlaceType]

Writes(w) == \/ \E r \in Chunks(F(w)) : WriteRange(w, r) \/ SyncRange(w, r)
             \/ FetchDone(w)
RunWrites(w) == \/ PrepareStaging(w) \/ OpenFile(w) \/ Writes(w) \/ OpenSums(w)
                \/ WriteSums(w) \/ Publish(w)

LEMMA RunDisk ==
    ASSUME NEW w \in Workers, RunStep(w)
    PROVE  RunWrites(w) \/ UNCHANGED disk
  <1>1. TransferStep(w) => OpenFile(w) \/ Writes(w) \/ UNCHANGED disk
    BY DEF TransferStep, Writes, NextFile, Forget, PrepareChunksOf, ResumeChunks,
           DiscardChunks, StopFetching, RecordChunk, RangeFails, VerifyFile, Mismatch, ResetCorrupt, CompleteFile
  <1>2. SettleCancelled(w) \/ SettleCancelRequested(w) \/ Schedule(w) \/ Fail(w)
          => UNCHANGED disk
    BY DEF SettleCancelled, SettleCancelRequested, Schedule, Fail, Closing
  <1> QED
    BY <1>1, <1>2 DEF RunStep, RunWrites, Register, WorkerExits, StoreFails, Inventory, Save,
       ReadRows, CheckDestination, Adopt, Mark, LastCheck, FinishCompleted, ReadForHandler,
       SettleFailure, Report

\* Every step of the system, sorted by what it does to the disk.
LEMMA DiskKinds ==
    ASSUME [PullNext]_pullVars
    PROVE  \/ UNCHANGED disk
           \/ \E w \in Workers : RunWrites(w)
           \/ \E j \in JobIds, f \in Files : LoseCopy(j, f)
           \/ \E d \in Destinations : RenameSettles(d) \/ LoseRename(d)
           \/ PowerLoss
  <1>1. CASE UNCHANGED pullVars
    BY <1>1 DEF pullVars, disk
  <1>2. ASSUME NEW w \in Workers, WorkerPoll(w) \/ Crash(w) \/ HeartbeatTask(w)
        PROVE  UNCHANGED disk
    BY <1>2 DEF WorkerPoll, WorkerFindsNothing, WorkerClaims, Crash, HeartbeatTask, disk
  <1>3. ASSUME NEW j \in JobIds, UserStep(j) \/ LeaseRunsOut(j) \/ BackoffElapses(j)
        PROVE  UNCHANGED disk
    BY <1>3 DEF UserStep, LeaseRunsOut, BackoffElapses, disk
  <1>4. CASE Close \/ CloseReturns
    BY <1>4 DEF Close, CloseReturns, disk
  <1> QED
    BY <1>1, <1>2, <1>3, <1>4, RunDisk DEF PullNext, Around, WorkerStep

LEMMA FileTyped ==
    ASSUME NEW a \in FileType
    PROVE  /\ Synced(a) \in FileType /\ Unsynced(a) \in FileType
           /\ [a EXCEPT !.exists = TRUE] \in FileType
           /\ \A r \in AllRanges, s \in {"good", "bad"} : Written(a, r, s) \in FileType
  BY DEF FileType, Synced, Unsynced, Written

LEMMA NothingTyped == NoFile \in FileType /\ NoTree \in TreeType /\ Nothing \in PlaceType
  BY DEF NoFile, NoTree, Nothing, FileType, TreeType, PlaceType

\* A worker with what it needs to touch the disk.
Equipped(w) == Working(w) /\ J(w) \in JobIds /\ D(w) \in Destinations

\* A tree whose file f became b.
Put(tree, f, b) == [tree EXCEPT !.files[f] = b]

LEMMA PutTyped ==
    ASSUME NEW tree \in TreeType, NEW f \in Files, NEW b \in FileType
    PROVE  /\ Put(tree, f, b) \in TreeType
           /\ Put(tree, f, b).exists = tree.exists /\ Put(tree, f, b).sums = tree.sums
           /\ Put(tree, f, b).files[f] = b
           /\ \A g \in Files \ {f} : Put(tree, f, b).files[g] = tree.files[g]
  BY DEF Put, TreeType

\* Writing through an open descriptor changes one file, of the staging directory or of
\* the directory at the destination.
LEMMA ThroughEffect ==
    ASSUME DiskTyped, NEW w \in Workers, Equipped(w), F(w) \in Files,
           NEW b \in FileType, Through(w, b)
    PROVE  /\ DiskTyped'
           /\ local[w].open = "staging" =>
                /\ UNCHANGED installed
                /\ staging' = [staging EXCEPT ![J(w)] = Put(staging[J(w)], F(w), b)]
           /\ local[w].open # "staging" =>
                /\ UNCHANGED staging
                /\ installed' = [installed EXCEPT ![D(w)] =
                       [installed[D(w)] EXCEPT !.tree = Put(installed[D(w)].tree, F(w), b)]]
  <1>1. CASE local[w].open = "staging"
    <2>1. staging' = [staging EXCEPT ![J(w)] = Put(staging[J(w)], F(w), b)] /\ UNCHANGED installed
      BY <1>1 DEF Through, Put
    <2>2. staging[J(w)] \in TreeType
      BY DEF DiskTyped, Equipped
    <2>3. Put(staging[J(w)], F(w), b) \in TreeType
      BY <2>2, PutTyped
    <2> QED
      BY <1>1, <2>1, <2>3 DEF DiskTyped, Equipped
  <1>2. CASE local[w].open # "staging"
    <2> DEFINE p == [installed[D(w)] EXCEPT !.tree = Put(installed[D(w)].tree, F(w), b)]
    <2>1. installed' = [installed EXCEPT ![D(w)] = p] /\ UNCHANGED staging
      BY <1>2 DEF Through, Put
    <2>2. installed[D(w)] \in PlaceType
      BY DEF DiskTyped, Equipped
    <2>3. installed[D(w)].tree \in TreeType
      BY <2>2 DEF PlaceType
    <2>4. Put(installed[D(w)].tree, F(w), b) \in TreeType
      BY <2>3, PutTyped
    <2>5. p \in PlaceType
      BY <2>2, <2>4 DEF PlaceType
    <2> HIDE DEF p
    <2>6. DiskTyped'
      BY <2>1, <2>5 DEF DiskTyped, Equipped
    <2> QED
      BY <1>2, <2>1, <2>6 DEF p
  <1> QED
    BY <1>1, <1>2

\* What a write or an fsync makes of a file a.
Rewrites(f, a, b) ==
    \/ b = Synced(a)
    \/ \E r \in Chunks(f), s \in {"good", "bad"} :
          (s = "bad" => "badbytes" \in Events) /\ b = Written(a, r, s)

LEMMA OpenedTyped ==
    ASSUME DiskTyped, NEW w \in Workers, Equipped(w), F(w) \in Files
    PROVE  Opened(w) \in FileType
  <1>1. staging[J(w)] \in TreeType /\ installed[D(w)] \in PlaceType
    BY DEF DiskTyped, Equipped
  <1>2. installed[D(w)].tree \in TreeType
    BY <1>1 DEF PlaceType
  <1> QED
    BY <1>1, <1>2 DEF Opened, TreeType

LEMMA WritesThrough ==
    ASSUME DiskTyped, NEW w \in Workers, Equipped(w), TypedRun(w), Shape, Writes(w)
    PROVE  /\ F(w) \in Files /\ pc[w] \in {"fetch", "record"} /\ UNCHANGED vars
           /\ \E b \in FileType : Rewrites(F(w), Opened(w), b) /\ Through(w, b)
  <1>1. pc[w] \in {"fetch", "record"} /\ UNCHANGED vars
    BY DEF Writes, WriteRange, SyncRange, FetchDone
  <1>2. F(w) \in Files
    BY <1>1 DEF TypedRun, FilePcs, Shape, LocalType
  <1>3. Opened(w) \in FileType /\ Synced(Opened(w)) \in FileType
    BY <1>2, OpenedTyped, FileTyped
  <1>4. ASSUME NEW r \in Chunks(F(w)), NEW s \in {"good", "bad"}
        PROVE  Written(Opened(w), r, s) \in FileType
    BY <1>2, <1>3, FileTyped DEF AllRanges
  <1>5. \/ Through(w, Synced(Opened(w)))
        \/ \E r \in Chunks(F(w)), s \in {"good", "bad"} :
              (s = "bad" => "badbytes" \in Events) /\ Through(w, Written(Opened(w), r, s))
    BY DEF Writes, WriteRange, SyncRange, FetchDone
  <1> QED
    BY <1>1, <1>2, <1>3, <1>4, <1>5 DEF Rewrites

-----------------------------------------------------------------------------
(* What a step of the system may do to a file, and to a destination.       *)

\* To the partial file of f in the staging directory of j.
StagedStep(j, f) ==
    LET a == staging[j].files[f]
        b == staging'[j].files[f]
    IN  \/ b = a
        \/ \E w \in Workers :
              /\ Equipped(w) /\ Writes(w) /\ J(w) = j /\ F(w) = f /\ local[w].open = "staging"
              /\ Rewrites(f, a, b)
        \/ \E w \in Workers : /\ Equipped(w) /\ OpenFile(w) /\ J(w) = j /\ F(w) = f
                              /\ b = [a EXCEPT !.exists = TRUE]
        \/ LoseCopy(j, f) /\ b = NoFile
        \/ PowerLoss /\ b = Unsynced(a)

\* A run makes the staging directory of its job the directory at its destination.
Installs(w) ==
    /\ Equipped(w) /\ Publish(w)
    /\ staging[J(w)].exists /\ ~ installed[D(w)].tree.exists
    /\ LET q == installed'[D(w)]
       IN  q.tree = staging[J(w)] /\ q.model = local[w].model /\ q.job = J(w)

\* To what stands at d.
PlaceStep(d) ==
    LET p == installed[d]
        q == installed'[d]
    IN  /\ q.tree.exists = p.tree.exists /\ q.model = p.model /\ q.job = p.job
        /\ \A f \in Files :
              LET a == p.tree.files[f]
                  b == q.tree.files[f]
              IN  \/ b = a \/ b = Unsynced(a)
                  \/ \E w \in Workers :
                        /\ Equipped(w) /\ Writes(w) /\ local[w].open # "staging"
                        /\ Rewrites(f, a, b)

\* The disk is of its type, and a step did nothing else than these.
DiskStep ==
    /\ DiskTyped'
    /\ \A j \in JobIds : \/ \A f \in Files : StagedStep(j, f)
                         \/ \E w \in Workers : Installs(w) /\ J(w) = j
    /\ \A d \in Destinations : PlaceStep(d) \/ \E w \in Workers : Installs(w) /\ D(w) = d

LEMMA EquippedWrites ==
    ASSUME PullInv, TargetInv, NEW w \in Workers, RunWrites(w)
    PROVE  Equipped(w) /\ TypedRun(w) /\ Shape
  <1>1. Working(w)
    BY DEF RunWrites, Writes, PrepareStaging, OpenFile, WriteRange, SyncRange, FetchDone,
           OpenSums, WriteSums, Publish, Working
  <1> QED
    BY <1>1 DEF PullInv, RunInv, TypedRun, TargetInv, Addressed, Equipped

\* Nothing happens at any destination.
LEMMA PlacesKept ==
    ASSUME UNCHANGED installed
    PROVE  \A d \in Destinations : PlaceStep(d)
  BY DEF PlaceStep

LEMMA StagedKept ==
    ASSUME UNCHANGED staging
    PROVE  \A j \in JobIds, f \in Files : StagedStep(j, f)
  BY DEF StagedStep

\* Creating a directory, or SHA256SUMS in it.
LEMMA TreeSteps ==
    ASSUME DiskTyped, NEW w \in Workers, Equipped(w),
           PrepareStaging(w) \/ OpenSums(w) \/ WriteSums(w)
    PROVE  DiskStep
  <1>t. staging[J(w)] \in TreeType /\ installed[D(w)] \in PlaceType
    BY DEF DiskTyped, Equipped
  <1>1. ASSUME NEW tree \in TreeType, tree.files = staging[J(w)].files,
               staging' = [staging EXCEPT ![J(w)] = tree], UNCHANGED installed
        PROVE  DiskStep
    <2>1. DiskTyped'
      BY <1>1 DEF DiskTyped, Equipped
    <2>2. ASSUME NEW j \in JobIds, NEW f \in Files
          PROVE  staging'[j].files[f] = staging[j].files[f]
      BY <1>1 DEF DiskTyped, Equipped
    <2> QED
      BY <1>1, <2>1, <2>2, PlacesKept DEF DiskStep, StagedStep
  <1>2. CASE UNCHANGED disk
    BY <1>2, PlacesKept, StagedKept DEF DiskStep, DiskTyped, disk
  <1>3. CASE PrepareStaging(w)
    <2> DEFINE tree == [staging[J(w)] EXCEPT !.exists = TRUE]
    <2>1. tree \in TreeType /\ tree.files = staging[J(w)].files
      BY <1>t DEF TreeType
    <2>2. staging' = [staging EXCEPT ![J(w)] = tree] /\ UNCHANGED installed
      BY <1>3 DEF PrepareStaging
    <2> HIDE DEF tree
    <2> QED
      BY <1>1, <2>1, <2>2
  <1>4. ASSUME NEW v \in {"torn", "ok"},
               staging' = [staging EXCEPT ![J(w)].sums = v], UNCHANGED installed
        PROVE  DiskStep
    <2> DEFINE tree == [staging[J(w)] EXCEPT !.sums = v]
    <2>1. tree \in TreeType /\ tree.files = staging[J(w)].files
      BY <1>t DEF TreeType
    <2>2. staging' = [staging EXCEPT ![J(w)] = tree]
      BY <1>4
    <2> HIDE DEF tree
    <2> QED
      BY <1>1, <1>4, <2>1, <2>2
  <1>5. CASE OpenSums(w)
    BY <1>2, <1>4, <1>5 DEF OpenSums, disk
  <1>6. CASE WriteSums(w)
    <2>1. CASE local[w].open # "staging"
      <3> DEFINE q == [installed[D(w)] EXCEPT !.tree.sums = "ok"]
      <3>1. installed[D(w)].tree \in TreeType
        BY <1>t DEF PlaceType
      <3>2. [installed[D(w)].tree EXCEPT !.sums = "ok"] \in TreeType
        BY <3>1 DEF TreeType
      <3>3. q = [installed[D(w)] EXCEPT !.tree = [installed[D(w)].tree EXCEPT !.sums = "ok"]]
        OBVIOUS
      <3>4. /\ q \in PlaceType /\ q.tree.exists = installed[D(w)].tree.exists
            /\ q.tree.files = installed[D(w)].tree.files
            /\ q.model = installed[D(w)].model /\ q.job = installed[D(w)].job
        BY <1>t, <3>1, <3>2, <3>3 DEF PlaceType, TreeType
      <3>5. installed' = [installed EXCEPT ![D(w)] = q] /\ UNCHANGED staging
        BY <1>6, <2>1 DEF WriteSums
      <3> HIDE DEF q
      <3>6. DiskTyped'
        BY <3>4, <3>5 DEF DiskTyped, Equipped
      <3>7. \A d \in Destinations : PlaceStep(d)
        BY <3>4, <3>5 DEF DiskTyped, Equipped, PlaceStep
      <3> QED
        BY <3>5, <3>6, <3>7, StagedKept DEF DiskStep
    <2> QED
      BY <1>4, <1>6, <2>1 DEF WriteSums
  <1> QED
    BY <1>3, <1>5, <1>6

LEMMA WriteSteps ==
    ASSUME DiskTyped, NEW w \in Workers, Equipped(w), TypedRun(w), Shape, Writes(w)
    PROVE  DiskStep
  <1>1. F(w) \in Files
    BY WritesThrough
  <1>2. PICK b \in FileType : Rewrites(F(w), Opened(w), b) /\ Through(w, b)
    BY WritesThrough
  <1>3. /\ DiskTyped'
        /\ local[w].open = "staging" =>
             /\ UNCHANGED installed
             /\ staging' = [staging EXCEPT ![J(w)] = Put(staging[J(w)], F(w), b)]
        /\ local[w].open # "staging" =>
             /\ UNCHANGED staging
             /\ installed' = [installed EXCEPT ![D(w)] =
                    [installed[D(w)] EXCEPT !.tree = Put(installed[D(w)].tree, F(w), b)]]
    BY <1>1, <1>2, ThroughEffect
  <1>4. CASE local[w].open = "staging"
    <2>1. staging[J(w)] \in TreeType
      BY DEF DiskTyped, Equipped
    <2>2. /\ Put(staging[J(w)], F(w), b).files[F(w)] = b
          /\ \A g \in Files \ {F(w)} :
                Put(staging[J(w)], F(w), b).files[g] = staging[J(w)].files[g]
      BY <1>1, <2>1, PutTyped
    <2>3. ASSUME NEW j \in JobIds, NEW f \in Files
          PROVE  StagedStep(j, f)
      <3>1. CASE j = J(w) /\ f = F(w)
        <4>1. staging'[j].files[f] = b
          BY <1>3, <1>4, <2>2, <3>1 DEF DiskTyped
        <4>2. Rewrites(f, staging[j].files[f], b)
          BY <1>2, <1>4, <3>1 DEF Opened
        <4> QED
          BY <1>4, <3>1, <4>1, <4>2 DEF StagedStep
      <3>2. CASE ~ (j = J(w) /\ f = F(w))
        BY <1>3, <1>4, <2>2, <3>2 DEF DiskTyped, StagedStep
      <3> QED
        BY <3>1, <3>2
    <2> QED
      BY <1>3, <1>4, <2>3, PlacesKept DEF DiskStep
  <1>5. CASE local[w].open # "staging"
    <2>1. installed[D(w)] \in PlaceType
      BY DEF DiskTyped, Equipped
    <2>2. installed[D(w)].tree \in TreeType
      BY <2>1 DEF PlaceType
    <2> DEFINE q == [installed[D(w)] EXCEPT !.tree = Put(installed[D(w)].tree, F(w), b)]
    <2>3. /\ q.tree = Put(installed[D(w)].tree, F(w), b)
          /\ q.model = installed[D(w)].model /\ q.job = installed[D(w)].job
      BY <2>1 DEF PlaceType
    <2>4. installed' = [installed EXCEPT ![D(w)] = q]
      BY <1>3, <1>5
    <2> HIDE DEF q
    <2>5. /\ q.tree.exists = installed[D(w)].tree.exists /\ q.tree.files[F(w)] = b
          /\ \A g \in Files \ {F(w)} : q.tree.files[g] = installed[D(w)].tree.files[g]
      BY <1>1, <2>2, <2>3, PutTyped
    <2>6. Rewrites(F(w), installed[D(w)].tree.files[F(w)], b)
      BY <1>2, <1>5 DEF Opened
    <2>7. ASSUME NEW d \in Destinations
          PROVE  PlaceStep(d)
      <3>1. CASE d = D(w)
        <4>1. installed'[d] = q
          BY <2>4, <3>1 DEF DiskTyped
        <4> QED
          BY <1>5, <2>3, <2>5, <2>6, <3>1, <4>1 DEF PlaceStep
      <3>2. CASE d # D(w)
        BY <2>4, <3>2 DEF DiskTyped, PlaceStep
      <3> QED
        BY <3>1, <3>2
    <2> QED
      BY <1>3, <1>5, <2>7, StagedKept DEF DiskStep
  <1> QED
    BY <1>4, <1>5

LEMMA OpenSteps ==
    ASSUME DiskTyped, NEW w \in Workers, Equipped(w), TypedRun(w), Shape, OpenFile(w)
    PROVE  DiskStep
  <1>1. F(w) \in Files
    BY DEF OpenFile, TypedRun, FilePcs, Shape, LocalType
  <1>t. staging[J(w)] \in TreeType /\ staging[J(w)].files[F(w)] \in FileType
    BY <1>1 DEF DiskTyped, Equipped, TreeType
  <1> DEFINE b == [staging[J(w)].files[F(w)] EXCEPT !.exists = TRUE]
             made == [staging[J(w)] EXCEPT !.exists = TRUE]
             tree == Put(made, F(w), b)
  <1>2. b \in FileType
    BY <1>t, FileTyped
  <1>3. made \in TreeType /\ made.files = staging[J(w)].files
    BY <1>t DEF TreeType
  <1>4. CASE UNCHANGED disk
    BY <1>4, PlacesKept, StagedKept DEF DiskStep, DiskTyped, disk
  <1>5. CASE staging' = [staging EXCEPT ![J(w)].exists = TRUE,
                                        ![J(w)].files[F(w)].exists = TRUE]
             /\ UNCHANGED installed
    <2>1. staging' = [staging EXCEPT ![J(w)] = tree]
      BY <1>5, <1>1, <1>t DEF DiskTyped, Equipped, Put, TreeType, FileType
    <2> HIDE DEF b, made
    <2>2. /\ tree \in TreeType /\ tree.files[F(w)] = b
          /\ \A g \in Files \ {F(w)} : tree.files[g] = staging[J(w)].files[g]
      BY <1>1, <1>2, <1>3, PutTyped
    <2> HIDE DEF tree
    <2>3. DiskTyped'
      BY <1>5, <2>1, <2>2 DEF DiskTyped, Equipped
    <2>4. ASSUME NEW j \in JobIds, NEW f \in Files
          PROVE  StagedStep(j, f)
      <3>1. CASE j = J(w) /\ f = F(w)
        <4>1. staging'[j].files[f] = [staging[j].files[f] EXCEPT !.exists = TRUE]
          BY <2>1, <2>2, <3>1 DEF DiskTyped, b
        <4> QED
          BY <3>1, <4>1 DEF StagedStep
      <3>2. CASE ~ (j = J(w) /\ f = F(w))
        BY <2>1, <2>2, <3>2 DEF DiskTyped, StagedStep
      <3> QED
        BY <3>1, <3>2
    <2> QED
      BY <1>5, <2>3, <2>4, PlacesKept DEF DiskStep
  <1> QED
    BY <1>4, <1>5 DEF OpenFile, disk

LEMMA PublishSteps ==
    ASSUME DiskTyped, NEW w \in Workers, Equipped(w), Shape, Publish(w)
    PROVE  /\ DiskStep
           /\ Installs(w) \/ Raise(w, "permanent")
  <1>1. CASE ~ (staging[J(w)].exists /\ ~ installed[D(w)].tree.exists)
    <2>1. UNCHANGED disk /\ Raise(w, "permanent")
      BY <1>1 DEF Publish
    <2> QED
      BY <2>1, PlacesKept, StagedKept DEF DiskStep, DiskTyped, disk
  <1>2. CASE staging[J(w)].exists /\ ~ installed[D(w)].tree.exists
    <2> DEFINE q == [tree |-> staging[J(w)], model |-> local[w].model, job |-> J(w),
                     settled |-> "lostrename" \notin Events]
    <2>1. installed' = [installed EXCEPT ![D(w)] = q] /\ staging' = [staging EXCEPT ![J(w)] = NoTree]
      BY <1>2 DEF Publish
    <2>2. staging[J(w)] \in TreeType /\ local[w].model \in Models \cup {"none"} /\ J(w) \in JobIds
      BY DEF DiskTyped, Equipped, Shape, LocalType
    <2>3. /\ q \in PlaceType /\ q.tree = staging[J(w)] /\ q.model = local[w].model
          /\ q.job = J(w)
      BY <2>2 DEF PlaceType
    <2> HIDE DEF q
    <2>4. DiskTyped'
      BY <2>1, <2>3, NothingTyped DEF DiskTyped, Equipped
    <2>5. installed'[D(w)] = q
      BY <2>1 DEF DiskTyped, Equipped
    <2>6. Installs(w)
      BY <1>2, <2>3, <2>5 DEF Installs
    <2>7. ASSUME NEW d \in Destinations, d # D(w)
          PROVE  PlaceStep(d)
      BY <2>1, <2>7 DEF DiskTyped, PlaceStep
    <2>8. ASSUME NEW j \in JobIds, j # J(w), NEW f \in Files
          PROVE  StagedStep(j, f)
      BY <2>1, <2>8 DEF DiskTyped, StagedStep
    <2> QED
      BY <2>4, <2>6, <2>7, <2>8 DEF DiskStep
  <1> QED
    BY <1>1, <1>2

LEMMA LoseSteps ==
    ASSUME DiskTyped, NEW j \in JobIds, NEW f \in Files, LoseCopy(j, f)
    PROVE  DiskStep
  <1> DEFINE tree == Put(staging[j], f, NoFile)
  <1>1. staging' = [staging EXCEPT ![j] = tree] /\ UNCHANGED installed
    BY DEF LoseCopy, Put
  <1>2. /\ tree \in TreeType /\ tree.files[f] = NoFile
        /\ \A g \in Files \ {f} : tree.files[g] = staging[j].files[g]
    BY PutTyped, NothingTyped DEF DiskTyped
  <1> HIDE DEF tree
  <1>3. DiskTyped'
    BY <1>1, <1>2 DEF DiskTyped
  <1>4. ASSUME NEW i \in JobIds, NEW g \in Files
        PROVE  StagedStep(i, g)
    <2>1. CASE i = j /\ g = f
      BY <1>1, <1>2, <2>1 DEF DiskTyped, StagedStep
    <2>2. CASE ~ (i = j /\ g = f)
      BY <1>1, <1>2, <2>2 DEF DiskTyped, StagedStep
    <2> QED
      BY <2>1, <2>2
  <1> QED
    BY <1>1, <1>3, <1>4, PlacesKept DEF DiskStep

LEMMA SettleSteps ==
    ASSUME DiskTyped, NEW d \in Destinations, RenameSettles(d)
    PROVE  DiskStep
  <1> DEFINE q == [installed[d] EXCEPT !.settled = TRUE]
  <1>1. installed' = [installed EXCEPT ![d] = q] /\ UNCHANGED staging
    BY DEF RenameSettles
  <1>2. /\ q \in PlaceType /\ q.tree = installed[d].tree /\ q.model = installed[d].model
        /\ q.job = installed[d].job
    BY DEF DiskTyped, PlaceType
  <1> HIDE DEF q
  <1>3. DiskTyped' /\ \A e \in Destinations : PlaceStep(e)
    BY <1>1, <1>2 DEF DiskTyped, PlaceStep
  <1> QED
    BY <1>1, <1>3, StagedKept DEF DiskStep

LEMMA LossTyped ==
    ASSUME NEW tree \in TreeType
    PROVE  /\ AfterPowerLoss(tree) \in TreeType
           /\ AfterPowerLoss(tree).exists = tree.exists
           /\ \A f \in Files : AfterPowerLoss(tree).files[f] = Unsynced(tree.files[f])
  <1>1. \A f \in Files : Unsynced(tree.files[f]) \in FileType
    BY FileTyped DEF TreeType
  <1>2. AfterPowerLoss(tree) = [tree EXCEPT !.files = [f \in Files |-> Unsynced(tree.files[f])]]
    BY DEF AfterPowerLoss, TreeType
  <1> QED
    BY <1>1, <1>2 DEF TreeType

LEMMA LossSteps ==
    ASSUME DiskTyped, PowerLoss
    PROVE  DiskStep
  <1>1. ASSUME NEW j \in JobIds
        PROVE  /\ staging'[j] \in TreeType
               /\ \A f \in Files : StagedStep(j, f)
    BY LossTyped DEF DiskTyped, PowerLoss, StagedStep
  <1>2. ASSUME NEW d \in Destinations
        PROVE  installed'[d] \in PlaceType /\ PlaceStep(d)
    <2>1. installed'[d] = [installed[d] EXCEPT !.tree = AfterPowerLoss(installed[d].tree)]
      BY DEF PowerLoss
    <2>2. installed[d] \in PlaceType /\ installed[d].tree \in TreeType
      BY DEF DiskTyped, PlaceType
    <2>3. /\ AfterPowerLoss(installed[d].tree) \in TreeType
          /\ AfterPowerLoss(installed[d].tree).exists = installed[d].tree.exists
          /\ \A f \in Files :
                AfterPowerLoss(installed[d].tree).files[f] = Unsynced(installed[d].tree.files[f])
      BY <2>2, LossTyped
    <2>4. /\ installed'[d] \in PlaceType
          /\ installed'[d].tree = AfterPowerLoss(installed[d].tree)
          /\ installed'[d].model = installed[d].model /\ installed'[d].job = installed[d].job
      BY <2>1, <2>2, <2>3 DEF PlaceType
    <2> QED
      BY <2>3, <2>4 DEF PlaceStep
  <1>3. DiskTyped'
    BY <1>1, <1>2 DEF DiskTyped, PowerLoss
  <1> QED
    BY <1>1, <1>2, <1>3 DEF DiskStep

LEMMA DiskSteps ==
    ASSUME PullInv, TargetInv, DiskTyped, "lostrename" \notin Events, [PullNext]_pullVars
    PROVE  DiskStep
  <1>1. CASE UNCHANGED disk
    BY <1>1, PlacesKept, StagedKept DEF DiskStep, DiskTyped, disk
  <1>2. ASSUME NEW w \in Workers, RunWrites(w)
        PROVE  DiskStep
    BY <1>2, EquippedWrites, TreeSteps, WriteSteps, OpenSteps, PublishSteps DEF RunWrites
  <1> QED
    BY <1>1, <1>2, DiskKinds, LoseSteps, SettleSteps, LossSteps DEF LoseRename

-----------------------------------------------------------------------------
(* Durable ranges.                                                         *)

\* The ranges of a file that hold bytes, and those of them that a power loss leaves.
Filled(file)  == file.good \cup file.bad
Durable(file) == Filled(file) \ file.dirty

\* The staging directory of j stands at a destination.
Stood(j) == \E d \in Destinations : installed[d].tree.exists /\ installed[d].job = j

LEMMA StoodKept ==
    ASSUME DiskStep, NEW j \in JobIds, Stood(j)
    PROVE  Stood(j)'
  <1>1. PICK d \in Destinations : installed[d].tree.exists /\ installed[d].job = j
    BY DEF Stood
  <1>2. PlaceStep(d)
    BY <1>1 DEF DiskStep, Installs
  <1> QED
    BY <1>1, <1>2 DEF PlaceStep, Stood

LEMMA InstallsStands ==
    ASSUME NEW w \in Workers, Installs(w), NEW j \in JobIds, J(w) = j
    PROVE  Stood(j)'
  <1>1. installed'[D(w)].tree.exists /\ installed'[D(w)].job = j /\ D(w) \in Destinations
    BY DEF Installs, Equipped
  <1> QED
    BY <1>1 DEF Stood

Grows(a, b) ==
    /\ a.exists => b.exists
    /\ Filled(a) \subseteq Filled(b) /\ Durable(a) \subseteq Durable(b)

\* Nothing that was written or durable ceases to be by a write or an fsync.
LEMMA RewritesGrow ==
    ASSUME NEW f \in Files, NEW a \in FileType, NEW b, Rewrites(f, a, b)
    PROVE  Grows(a, b) /\ b.exists = a.exists
  <1>1. CASE b = Synced(a)
    BY <1>1 DEF Synced, Grows, Filled, Durable, FileType
  <1>2. ASSUME NEW r \in Chunks(f), NEW s \in {"good", "bad"}, b = Written(a, r, s)
        PROVE  Grows(a, b) /\ b.exists = a.exists
    <2>1. /\ b.exists = a.exists /\ b.good \cup b.bad = Filled(a) \cup {r}
          /\ b.dirty = IF r \in Filled(a) THEN a.dirty ELSE a.dirty \cup {r}
      BY <1>2 DEF Written, Filled, FileType
    <2> QED
      BY <2>1 DEF Grows, Filled, Durable
  <1> QED
    BY <1>1, <1>2 DEF Rewrites

\* In the staging directory of a job, outside a power loss and unless it is published,
\* a file grows, and appears only when a worker opens it, or it is lost to no worker.
LEMMA StagedGrows ==
    ASSUME DiskTyped, DiskStep, NEW j \in JobIds, NEW f \in Files, ~ Stood(j)'
    PROVE  LET a == staging[j].files[f]
               b == staging'[j].files[f]
           IN  \/ Grows(a, b) /\ b.exists = a.exists
               \/ \E w \in Workers : /\ Equipped(w) /\ OpenFile(w) /\ J(w) = j /\ F(w) = f
                                     /\ UNCHANGED vars /\ Grows(a, b)
               \/ Quiet(j) /\ UNCHANGED <<vars, pc, local>> /\ ~ b.exists
               \/ PowerLoss /\ b.exists = a.exists /\ Durable(b) = Durable(a)
  <1> DEFINE a == staging[j].files[f]
             b == staging'[j].files[f]
  <1>1. StagedStep(j, f)
    BY InstallsStands DEF DiskStep
  <1>2. a \in FileType
    BY DEF DiskTyped, TreeType
  <1>3. b = a => Grows(a, b) /\ b.exists = a.exists
    BY DEF Grows
  <1>4. b = NoFile => ~ b.exists
    BY DEF NoFile
  <1>5. b = [a EXCEPT !.exists = TRUE] => Grows(a, b)
    BY <1>2 DEF Grows, Filled, Durable, FileType
  <1>6. b = Unsynced(a) => b.exists = a.exists /\ Durable(b) = Durable(a)
    BY <1>2 DEF Unsynced, Filled, Durable, FileType
  <1>7. Rewrites(f, a, b) => Grows(a, b) /\ b.exists = a.exists
    BY <1>2, RewritesGrow
  <1> HIDE DEF a, b
  <1>8. \A w \in Workers : OpenFile(w) => UNCHANGED vars
    BY DEF OpenFile
  <1>9. LoseCopy(j, f) => Quiet(j) /\ UNCHANGED <<vars, pc, local>>
    BY DEF LoseCopy
  <1> QED
    BY <1>1, <1>3, <1>4, <1>5, <1>6, <1>7, <1>8, <1>9 DEF StagedStep, a, b

\* What a run knows of the file it transfers, unless its directory stands already.
Holds(w) ==
    LET file == staging[J(w)].files[F(w)]
    IN  /\ pc[w] = "open" => file.exists \/ done[J(w)][F(w)] = {}
        /\ pc[w] \in {"open", "fetch", "record"} => local[w].have \subseteq Durable(file)
        /\ pc[w] \in {"fetch", "record"} => file.exists /\ local[w].wrote \subseteq Filled(file)
        /\ pc[w] = "record" => local[w].range \in Durable(file)

\* The scratch variables of a run.
Scratch(w) ==
    /\ pc[w] \in {"forget", "chunks", "resume", "discard"} => local[w].have = {}
    /\ IF pc[w] \in {"fetch", "record"}
       THEN /\ local[w].open # "none"
            /\ local[w].wrote \subseteq Chunks(F(w)) \ local[w].have
       ELSE local[w].wrote = {}
    /\ local[w].open = "installed" => Stood(J(w))

OpenInv(w) == Scratch(w) /\ (~ Stood(J(w)) => Holds(w))

\* Every range recorded for a file in staging is durable there.
StagedInv(j) ==
    ~ Stood(j) => \A f \in Files : staging[j].files[f].exists =>
                     done[j][f] \subseteq Durable(staging[j].files[f])

DurableInv ==
    /\ TargetInv /\ DiskTyped
    /\ \A j \in JobIds : StagedInv(j)
    /\ \A w \in Workers : Working(w) => OpenInv(w)

\* The files in staging.
LEMMA StagedNext ==
    ASSUME PullInv, DurableInv, DiskStep, [PullNext]_pullVars, NEW j \in JobIds
    PROVE  StagedInv(j)'
  <1> SUFFICES ASSUME ~ Stood(j)', NEW f \in Files, staging'[j].files[f].exists
               PROVE  done'[j][f] \subseteq Durable(staging'[j].files[f])
    BY DEF StagedInv, Durable, Filled
  <1> DEFINE a == staging[j].files[f]
             b == staging'[j].files[f]
  <1>1. DiskTyped /\ ~ Stood(j)
    BY StoodKept DEF DurableInv
  <1>2. a.exists => done[j][f] \subseteq Durable(a)
    BY <1>1 DEF DurableInv, StagedInv
  <1>3. ASSUME NEW w \in Workers, Records(w, j, f)
        PROVE  local[w].range \in Durable(a)
    BY <1>1, <1>3 DEF Records, DurableInv, OpenInv, Holds
  <1>v. UNCHANGED vars => done'[j][f] = done[j][f]
    BY DEF vars, rows
  <1>4. CASE Grows(a, b) /\ b.exists = a.exists
    BY <1>2, <1>3, <1>4, DoneStep DEF Grows, Records
  <1>5. ASSUME NEW w \in Workers, Equipped(w), OpenFile(w), J(w) = j, F(w) = f,
               UNCHANGED vars, Grows(a, b)
        PROVE  done'[j][f] \subseteq Durable(b)
    <2>1. pc[w] = "open" /\ OpenInv(w)
      BY <1>5 DEF Equipped, DurableInv, OpenFile
    <2>2. a.exists \/ done[j][f] = {}
      BY <1>1, <1>5, <2>1 DEF OpenInv, Holds
    <2> QED
      BY <1>2, <1>5, <1>v, <2>2 DEF Grows
  <1>6. CASE PowerLoss /\ b.exists = a.exists /\ Durable(b) = Durable(a)
    BY <1>2, <1>6, <1>v DEF PowerLoss
  <1> QED
    BY <1>1, <1>4, <1>5, <1>6, StagedGrows

-----------------------------------------------------------------------------
(* The descriptors a run has open.                                         *)

\* No run changes what another has open, except by moving the directory it is in.
LEMMA OthersOpen ==
    ASSUME Shape, NEW v \in Workers, NEW u \in Workers \ {v}, RunStep(u), ~ Publish(u)
    PROVE  local'[v].open = local[v].open
  <1>t. local[v] \in LocalType
    BY DEF Shape
  <1>1. \A e : Raise(u, e) => local'[v] = local[v]
    BY DEF Raise, Shape
  <1>2. \A l : Leave(u, l) => local'[v].open = local[v].open
    BY <1>t DEF Leave, LocalType
  <1>3. Register(u) => local'[v].open = local[v].open
    BY <1>t DEF Register, LocalType
  <1>4. TransferStep(u) => local'[v] = local[v]
    <2>1. \/ NextFile(u) \/ Forget(u) \/ PrepareChunksOf(u) \/ ResumeChunks(u)
          \/ DiscardChunks(u) \/ OpenFile(u)
          => local'[v] = local[v]
      BY <1>1 DEF NextFile, Take, Skip, Forget, Fenced, PrepareChunksOf, ResumeChunks,
                  DiscardChunks, OpenFile, Shape
    <2>2. (\E r \in Chunks(F(u)) : WriteRange(u, r) \/ SyncRange(u, r))
            \/ StopFetching(u) \/ RecordChunk(u) \/ RangeFails(u) => local'[v] = local[v]
      BY <1>1 DEF WriteRange, SyncRange, StopFetching, RecordChunk, RangeFails, Fenced, Shape
    <2>3. FetchDone(u) \/ VerifyFile(u) \/ Mismatch(u) \/ ResetCorrupt(u) \/ CompleteFile(u)
            => local'[v] = local[v]
      BY <1>1 DEF FetchDone, VerifyFile, Mismatch, ResetCorrupt, CompleteFile, Fenced, Shape
    <2> QED
      BY <2>1, <2>2, <2>3 DEF TransferStep
  <1>5. \/ WorkerExits(u) \/ StoreFails(u) \/ Inventory(u) \/ Save(u)
        \/ ReadRows(u) \/ CheckDestination(u) \/ Adopt(u) \/ PrepareStaging(u)
        => local'[v].open = local[v].open
    BY <1>1, <1>2 DEF WorkerExits, StoreFails, Inventory, Save, ReadRows, CheckDestination,
                      Adopt, Fenced, PrepareStaging, Shape
  <1>6. \/ Mark(u) \/ OpenSums(u) \/ WriteSums(u) \/ LastCheck(u) \/ FinishCompleted(u)
        \/ ReadForHandler(u) \/ SettleCancelled(u) \/ SettleCancelRequested(u)
        \/ SettleFailure(u) \/ Report(u) \/ Schedule(u) \/ Fail(u)
        => local'[v].open = local[v].open
    BY <1>1, <1>2 DEF Mark, OpenSums, WriteSums, LastCheck, FinishCompleted, ReadForHandler,
                      SettleCancelled, SettleCancelRequested, SettleFailure, Report, Schedule,
                      Fail, Fenced, Closing, End, Shape
  <1> QED
    BY <1>3, <1>4, <1>5, <1>6 DEF RunStep

\* The directory of v's job is moved to its destination, with the file that v has open.
Moves(v) == /\ local'[v].open = "installed"
            /\ \E w \in Workers : Installs(w) /\ J(w) = J(v)

LEMMA OpenKept ==
    ASSUME PullInv, TargetInv, DiskTyped, [PullNext]_pullVars, "lostrename" \notin Events,
           NEW v \in Workers, Same(v), Working(v)', ~ RunStep(v)
    PROVE  local'[v].open = local[v].open \/ Moves(v)
  <1>t. Shape /\ local[v] \in LocalType /\ pc'[v] = pc[v] /\ Working(v)
    BY DEF PullInv, Shape, Same, Working
  <1>1. CASE UNCHANGED local
    BY <1>1
  <1>2. ASSUME NEW u \in Workers, WorkerPoll(u) \/ HeartbeatTask(u)
        PROVE  local'[v].open = local[v].open
    <2>1. u = v => ~ \E k \in JobIds : WorkerClaims(u, k)
      BY <1>t DEF WorkerClaims, Polls, Working
    <2> QED
      BY <1>t, <1>2, <2>1 DEF WorkerPoll, WorkerFindsNothing, WorkerClaims, HeartbeatTask,
                              Shape, LocalType
  <1>3. ASSUME NEW u \in Workers, Crash(u)
        PROVE  local'[v].open = local[v].open
    BY <1>t, <1>3 DEF Crash, AllDown, End, Leave, Goto, Working, Shape, LocalType
  <1>4. CASE AllDown
    BY <1>t, <1>4 DEF AllDown, Working
  <1>5. CASE Close
    BY <1>t, <1>5 DEF Close, LocalType
  <1>6. ASSUME NEW u \in Workers, WorkerStep(u)
        PROVE  local'[v].open = local[v].open \/ Moves(v)
    <2>1. u # v /\ RunStep(u)
      BY <1>6 DEF WorkerStep
    <2>2. CASE Publish(u)
      <3>1. Equipped(u)
        BY <2>2, EquippedWrites DEF RunWrites
      <3>2. Installs(u) \/ Raise(u, "permanent")
        BY <1>t, <2>2, <3>1, PublishSteps
      <3>3. Raise(u, "permanent") => local'[v] = local[v]
        BY <1>t, <2>1 DEF Raise, Shape
      <3>4. CASE ~ Raise(u, "permanent")
        <4>1. local' = [x \in Workers |->
                          IF J(x) = J(u) /\ local[x].open = "staging"
                          THEN [local[x] EXCEPT !.open = "installed"] ELSE local[x]]
          BY <2>2, <3>4 DEF Publish
        <4> QED
          BY <1>t, <3>2, <3>4, <4>1 DEF Moves, LocalType
      <3> QED
        BY <3>3, <3>4
    <2> QED
      BY <1>t, <2>1, <2>2, OthersOpen
  <1>7. Around => UNCHANGED local \/ \E u \in Workers : HeartbeatTask(u)
    BY DEF Around, UserStep, LeaseRunsOut, BackoffElapses, LoseCopy, RenameSettles
  <1>8. CloseReturns \/ UNCHANGED pullVars => UNCHANGED local
    BY DEF CloseReturns, pullVars
  <1>9. PowerLoss \/ (\E d \in Destinations : LoseRename(d)) => AllDown
    BY DEF PowerLoss, LoseRename
  <1> QED
    BY <1>1, <1>2, <1>3, <1>4, <1>5, <1>6, <1>7, <1>8, <1>9 DEF PullNext

\* A run that the step is not of.
LEMMA OpenBystander ==
    ASSUME PullInv, DurableInv, DiskStep, [PullNext]_pullVars, "lostrename" \notin Events,
           NEW w \in Workers, Same(w), Working(w)', ~ RunStep(w)
    PROVE  OpenInv(w)'
  <1>1. /\ Working(w) /\ J(w)' = J(w) /\ F(w)' = F(w) /\ pc'[w] = pc[w]
        /\ local'[w].have = local[w].have /\ local'[w].wrote = local[w].wrote
        /\ local'[w].range = local[w].range
    BY DEF Same, Core, Working
  <1>2. PICK j \in JobIds : J(w) = j
    BY <1>1 DEF PullInv, RunInv, TypedRun
  <1>3. OpenInv(w) /\ Shape /\ TypedRun(w) /\ DiskTyped
    BY <1>1 DEF DurableInv, PullInv, RunInv
  <1>4. local'[w].open = local[w].open \/ (local'[w].open = "installed" /\ Stood(j)')
    BY <1>2, OpenKept, InstallsStands DEF Moves, DurableInv
  <1>5. Stood(j) => Stood(j)'
    BY StoodKept
  <1>6. Scratch(w)'
    BY <1>1, <1>2, <1>3, <1>4, <1>5 DEF OpenInv, Scratch, Chunks
  <1>7. ASSUME ~ Stood(j)'
        PROVE  Holds(w)'
    <2>1. Holds(w)
      BY <1>2, <1>3, <1>5, <1>7 DEF OpenInv
    <2>2. CASE pc[w] \in {"open", "fetch", "record"}
      <3>1. PICK f \in Files : F(w) = f
        BY <1>3, <2>2 DEF TypedRun, FilePcs, Shape, LocalType
      <3> DEFINE a == staging[j].files[f]
                 b == staging'[j].files[f]
      <3>2. Grows(a, b)
        <4>1. ~ Quiet(j)
          BY <1>1, <1>2 DEF Quiet
        <4>2. ~ PowerLoss
          BY <1>1, <1>3 DEF PowerLoss, AllDown, Working
        <4> QED
          BY <1>3, <1>7, <4>1, <4>2, StagedGrows
      <3>3. pc[w] = "open" => b.exists \/ done'[j][f] = {}
        <4>1. ASSUME NEW v \in Workers, Records(v, j, f)
              PROVE  a.exists
          BY <1>2, <1>5, <1>7, <4>1 DEF Records, DurableInv, OpenInv, Holds
        <4>2. pc[w] = "open" => a.exists \/ done[j][f] = {}
          BY <1>2, <2>1, <3>1 DEF Holds
        <4> QED
          BY <3>2, <4>1, <4>2, DoneStep DEF Grows
      <3> HIDE DEF b
      <3> QED
        BY <1>1, <1>2, <2>1, <3>1, <3>2, <3>3 DEF Holds, Grows, Durable, Filled, b
    <2> QED
      BY <1>1, <2>2 DEF Holds
  <1> QED
    BY <1>1, <1>2, <1>6, <1>7 DEF OpenInv

\* A step of the run itself that leaves the transfer of a file, or does not enter it.
LoadPcs == {"forget", "chunks", "resume", "discard", "open", "fetch", "record"}
Idles(w) ==
    /\ pc'[w] \notin LoadPcs
    /\ local'[w].wrote \in {{}, IF pc[w] \in {"fetch", "record"} THEN {} ELSE local[w].wrote}
    /\ local'[w].open \in {"none", "staging", local[w].open}

LEMMA IdlesOpen ==
    ASSUME NEW w \in Workers, OpenInv(w), Idles(w), NEW j \in JobIds, J(w) = j, J(w)' = j,
           Stood(j) => Stood(j)'
    PROVE  OpenInv(w)'
  <1>1. Scratch(w)'
    BY DEF OpenInv, Scratch, Idles, LoadPcs
  <1>2. Holds(w)'
    BY DEF Holds, Idles, LoadPcs
  <1> QED
    BY <1>1, <1>2 DEF OpenInv

LEMMA RaiseIdles ==
    ASSUME Shape, NEW w \in Workers, NEW e, Raise(w, e)
    PROVE  Idles(w)
  <1>1. local[w] \in LocalType
    BY DEF Shape
  <1>2. local'[w].wrote = {} /\ local'[w].open = "none" /\ pc'[w] = "handler"
    BY <1>1 DEF Raise, Shape, LocalType
  <1> QED
    BY <1>2 DEF Idles, LoadPcs

LEMMA LeaveIdles ==
    ASSUME Shape, NEW w \in Workers, NEW l \in {"idle", "dead"}, Leave(w, l)
    PROVE  Idles(w)
  <1>1. local'[w].wrote = {} /\ local'[w].open = "none" /\ pc'[w] = l
    BY DEF Leave, Idle, Goto, Shape
  <1> QED
    BY <1>1 DEF Idles, LoadPcs

\* The steps of a run outside the transfer.
LEMMA RestIdles ==
    ASSUME Shape, NEW w \in Workers, RunStep(w), ~ TransferStep(w), ~ Publish(w)
    PROVE  Idles(w)
  <1>t. local[w] \in LocalType /\ pc[w] \in Labels
    BY DEF Shape
  <1>r. \A e : Raise(w, e) => Idles(w)
    BY RaiseIdles
  <1>e. \A l \in {"idle", "dead"} : Leave(w, l) => Idles(w)
    BY LeaveIdles
  <1>g. \A l \in Labels \ LoadPcs :
           /\ Goto(w, l)
           /\ local'[w].wrote = local[w].wrote /\ pc[w] \notin {"fetch", "record"}
           /\ local'[w].open \in {"none", "staging", local[w].open}
           => Idles(w)
    BY DEF Idles, Goto, Shape
  <1> USE DEF Labels, PlanPcs, FilePcs, LoadPcs
  <1>1. Register(w) => Idles(w)
    <2>1. Register(w) => /\ local'[w].wrote = local[w].wrote
                         /\ local'[w].open = local[w].open
      BY <1>t DEF Register, LocalType
    <2> QED
      BY <2>1, <1>g DEF Register
  <1>2. WorkerExits(w) \/ StoreFails(w) => Idles(w)
    BY <1>r, <1>e, <1>g DEF WorkerExits, StoreFails, Polls
  <1>3. Inventory(w) \/ Save(w) => Idles(w)
    BY <1>r, <1>e, <1>g DEF Inventory, Save
  <1>4. ReadRows(w) => Idles(w)
    <2>1. ASSUME ReadRows(w), ~ Raise(w, "permanent")
          PROVE  Goto(w, "dest") /\ local'[w].wrote = local[w].wrote
                   /\ local'[w].open = local[w].open
      <3> DEFINE r == [local[w] EXCEPT !.kept = Complete(fstate[J(w)]), !.todo = Files]
      <3>1. Goto(w, "dest") /\ local' = [local EXCEPT ![w] = r]
        BY <2>1 DEF ReadRows
      <3>2. r.wrote = local[w].wrote /\ r.open = local[w].open
        BY <1>t DEF LocalType
      <3> HIDE DEF r
      <3> QED
        BY <3>1, <3>2 DEF Shape
    <2> QED
      BY <2>1, <1>r, <1>g DEF ReadRows
  <1>5. CheckDestination(w) \/ PrepareStaging(w) => Idles(w)
    BY <1>r, <1>g DEF CheckDestination, PrepareStaging
  <1>6. Adopt(w) => Idles(w)
    <2>1. ASSUME Adopt(w), ~ Raise(w, "cancelled"), ~ Goto(w, "finish")
          PROVE  pc' = pc /\ local'[w].wrote = local[w].wrote
                   /\ local'[w].open = local[w].open
      BY <1>t, <2>1 DEF Adopt, Fenced, Shape, LocalType
    <2>2. ASSUME Adopt(w), ~ Raise(w, "cancelled"), Goto(w, "finish")
          PROVE  local'[w].wrote = local[w].wrote /\ local'[w].open = local[w].open
      BY <1>t, <2>2 DEF Adopt, Fenced, Shape, LocalType
    <2>3. ASSUME Adopt(w), ~ Raise(w, "cancelled"), ~ Goto(w, "finish")
          PROVE  Idles(w)
      BY <2>1, <2>3 DEF Idles, Adopt
    <2>4. Adopt(w) => pc[w] = "adopt"
      BY DEF Adopt
    <2> QED
      BY <2>2, <2>3, <2>4, <1>r, <1>g
  <1>7. Mark(w) => Idles(w)
    <2>1. ASSUME Mark(w), ~ Raise(w, "cancelled")
          PROVE  Goto(w, "sums") /\ local'[w].wrote = local[w].wrote
                   /\ local'[w].open = local[w].open
      BY <1>t, <2>1 DEF Mark, Fenced, Shape, LocalType
    <2> QED
      BY <2>1, <1>r, <1>g DEF Mark
  <1>8. OpenSums(w) => Idles(w)
    <2>1. ASSUME OpenSums(w), ~ Raise(w, "permanent")
          PROVE  Goto(w, "sums2") /\ local'[w].wrote = local[w].wrote
                   /\ local'[w].open = "staging"
      BY <1>t, <2>1 DEF OpenSums, Shape, LocalType
    <2> QED
      BY <2>1, <1>r, <1>g DEF OpenSums
  <1>9. WriteSums(w) => Idles(w)
    <2>1. ASSUME WriteSums(w)
          PROVE  Goto(w, "check") /\ local'[w].wrote = local[w].wrote
                   /\ local'[w].open = "none"
      BY <1>t, <2>1 DEF WriteSums, Shape, LocalType
    <2> QED
      BY <2>1, <1>g DEF WriteSums
  <1>10. LastCheck(w) \/ FinishCompleted(w) => Idles(w)
    BY <1>r, <1>e, <1>g DEF LastCheck, FinishCompleted, Fenced, End
  <1>11. ReadForHandler(w) => Idles(w)
    <2>1. ASSUME ReadForHandler(w), ~ Leave(w, "dead")
          PROVE  Goto(w, "settle") /\ local'[w].wrote = local[w].wrote
                   /\ local'[w].open = local[w].open
      BY <1>t, <2>1 DEF ReadForHandler, Shape, LocalType
    <2> QED
      BY <2>1, <1>e, <1>g DEF ReadForHandler
  <1>12. SettleFailure(w) => Idles(w)
    <2>1. ASSUME SettleFailure(w)
          PROVE  Goto(w, "report") /\ local'[w].wrote = local[w].wrote
                   /\ local'[w].open = local[w].open
      <3>1. PICK x : local' = [local EXCEPT ![w].exc = x]
        BY <2>1 DEF SettleFailure
      <3> QED
        BY <1>t, <2>1, <3>1 DEF SettleFailure, Shape, LocalType
    <2> QED
      BY <2>1, <1>g DEF SettleFailure
  <1>13. SettleCancelled(w) \/ SettleCancelRequested(w) \/ Schedule(w) \/ Fail(w) => Idles(w)
    BY <1>e DEF SettleCancelled, SettleCancelRequested, Schedule, Fail, Closing, End
  <1>14. Report(w) => Idles(w)
    BY <1>g DEF Report
  <1> QED
    BY <1>1, <1>2, <1>3, <1>4, <1>5, <1>6, <1>7, <1>8, <1>9, <1>10, <1>11, <1>12, <1>13,
       <1>14 DEF RunStep

\* The staged file behind the descriptor of a run whose directory does not stand.
LEMMA WritesStaged ==
    ASSUME DiskTyped, NEW w \in Workers, Equipped(w), F(w) \in Files, NEW b \in FileType,
           Through(w, b), local[w].open = "staging"
    PROVE  staging'[J(w)].files[F(w)] = b /\ Opened(w) = staging[J(w)].files[F(w)]
  <1>1. staging' = [staging EXCEPT ![J(w)] = Put(staging[J(w)], F(w), b)]
    BY ThroughEffect
  <1>2. Put(staging[J(w)], F(w), b).files[F(w)] = b
    BY PutTyped DEF DiskTyped, Equipped
  <1> QED
    BY <1>1, <1>2 DEF DiskTyped, Equipped, Opened

\* A run that is transferring a file, before and after a step of its own.
LEMMA OpenLoads ==
    ASSUME PullInv, DurableInv, NEW w \in Workers, Equipped(w),
           NEW j \in JobIds, J(w) = j, J(w)' = j, Stood(j) => Stood(j)',
           NEW f \in Files, F(w) = f,
           \/ ResumeChunks(w) \/ DiscardChunks(w) \/ OpenFile(w) \/ RecordChunk(w)
           \/ RangeFails(w)
           \/ \E r \in Chunks(F(w)) : WriteRange(w, r) \/ SyncRange(w, r)
    PROVE  OpenInv(w)'
  <1>s. Shape /\ DiskTyped /\ OpenInv(w) /\ Scratch(w) /\ StagedInv(j) /\ TypeOK
    BY DEF PullInv, QueueInv, DurableInv, OpenInv, Equipped
  <1>t. local[w] \in LocalType /\ F(w) \in Files
    BY <1>s DEF Shape
  <1> DEFINE a == staging[j].files[f]
             b == staging'[j].files[f]
  <1>a. a \in FileType
    BY <1>s DEF DiskTyped, TreeType
  <1>h. ~ Stood(j)' => Holds(w)
    BY <1>s DEF OpenInv
  <1>r. (\E e : Raise(w, e)) => OpenInv(w)'
    BY <1>s, RaiseIdles, IdlesOpen
  <1>1. CASE ResumeChunks(w)
    <2>1. CASE Goto(w, "discard") /\ UNCHANGED local
      <3>1. pc'[w] = "discard" /\ local'[w] = local[w]
        BY <1>s, <2>1 DEF Goto, Shape
      <3>2. local[w].have = {} /\ local[w].wrote = {}
        BY <1>s, <1>1 DEF Scratch, ResumeChunks
      <3> QED
        BY <1>s, <3>1, <3>2 DEF OpenInv, Scratch, Holds
    <2>2. CASE /\ ~ (done[j][f] # {} /\ ~ a.exists)
               /\ Goto(w, "open") /\ UNCHANGED <<vars, disk>>
               /\ local' = [local EXCEPT ![w].have = done[j][f]]
      <3>1. /\ pc'[w] = "open" /\ local'[w].have = done[j][f] /\ F(w)' = f
            /\ local'[w].wrote = local[w].wrote /\ local'[w].open = local[w].open
        BY <1>t, <1>s, <2>2 DEF Goto, Shape, F, LocalType
      <3>2. local[w].wrote = {} /\ done' = done /\ staging' = staging
        BY <1>s, <1>1, <2>2 DEF Scratch, ResumeChunks, vars, rows, disk
      <3>3. ~ Stood(j)' => done[j][f] = {} \/ (a.exists /\ done[j][f] \subseteq Durable(a))
        BY <1>s, <2>2 DEF StagedInv
      <3>4. Scratch(w)'
        BY <1>s, <3>1, <3>2 DEF Scratch
      <3>5. ~ Stood(j)' => Holds(w)'
        BY <3>1, <3>2, <3>3 DEF Holds
      <3> QED
        BY <3>4, <3>5 DEF OpenInv
    <2> QED
      BY <1>1, <2>1, <2>2 DEF ResumeChunks
  <1>2. CASE OpenFile(w)
    <2>1. CASE /\ staging' = [staging EXCEPT ![j].exists = TRUE, ![j].files[f].exists = TRUE]
               /\ Goto(w, "fetch") /\ local' = [local EXCEPT ![w].open = "staging"]
      <3>1. /\ pc'[w] = "fetch" /\ local'[w].open = "staging" /\ F(w)' = f
            /\ local'[w].wrote = local[w].wrote /\ local'[w].have = local[w].have
        BY <1>t, <1>s, <2>1 DEF Goto, Shape, F, LocalType
      <3>2. pc[w] = "open" /\ local[w].wrote = {}
        BY <1>s, <1>2 DEF Scratch, OpenFile
      <3>3. b.exists /\ Durable(b) = Durable(a) /\ Filled(b) = Filled(a)
        BY <1>s, <1>a, <2>1 DEF DiskTyped, TreeType, FileType, Durable, Filled
      <3>4. ~ Stood(j)' => local[w].have \subseteq Durable(a)
        BY <1>h, <3>2 DEF Holds
      <3>5. Scratch(w)'
        BY <3>1, <3>2 DEF Scratch
      <3> HIDE DEF a, b
      <3>6. ~ Stood(j)' => Holds(w)'
        BY <3>1, <3>2, <3>3, <3>4 DEF Holds, Durable, Filled, b
      <3> QED
        BY <3>5, <3>6 DEF OpenInv
    <2> QED
      BY <1>2, <1>r, <2>1 DEF OpenFile
  <1>3. ASSUME NEW r \in Chunks(F(w)), WriteRange(w, r)
        PROVE  OpenInv(w)'
    <2>1. /\ pc'[w] = pc[w] /\ pc[w] \in {"fetch", "record"} /\ F(w)' = f
          /\ local'[w].wrote = local[w].wrote \cup {r} /\ local'[w].have = local[w].have
          /\ local'[w].open = local[w].open /\ local'[w].range = local[w].range
          /\ r \notin local[w].have
      BY <1>t, <1>s, <1>3 DEF WriteRange, Shape, F, LocalType
    <2>2. Scratch(w)'
      BY <1>s, <1>3, <2>1 DEF Scratch, Chunks
    <2>3. ASSUME ~ Stood(j)'
          PROVE  Grows(a, b) /\ r \in Filled(b)
      <3>1. local[w].open = "staging"
        BY <1>s, <1>t, <2>1, <2>3 DEF Scratch, LocalType
      <3>2. PICK s \in {"good", "bad"} :
                (s = "bad" => "badbytes" \in Events) /\ Through(w, Written(Opened(w), r, s))
        BY <1>3 DEF WriteRange
      <3>3. Opened(w) = a
        BY <3>1 DEF Opened
      <3>4. Written(a, r, s) \in FileType
        BY <1>t, <1>3, <1>a, FileTyped DEF AllRanges
      <3>5. b = Written(a, r, s)
        BY <1>s, <1>t, <3>1, <3>2, <3>3, <3>4, WritesStaged
      <3>6. Grows(a, b)
        BY <1>3, <1>a, <3>2, <3>5, RewritesGrow DEF Rewrites
      <3>7. r \in Filled(b)
        BY <1>a, <3>5 DEF Written, Filled, FileType
      <3> QED
        BY <3>6, <3>7
    <2> HIDE DEF a, b
    <2>4. ~ Stood(j)' => Holds(w)'
      BY <1>h, <2>1, <2>3 DEF Holds, Grows, Durable, Filled, a, b
    <2> QED
      BY <2>2, <2>4 DEF OpenInv
  <1>4. ASSUME NEW r \in Chunks(F(w)), SyncRange(w, r)
        PROVE  OpenInv(w)'
    <2>1. /\ pc'[w] = "record" /\ pc[w] = "fetch" /\ F(w)' = f
          /\ local'[w].wrote = local[w].wrote /\ local'[w].have = local[w].have
          /\ local'[w].open = local[w].open /\ local'[w].range = r
          /\ r \in local[w].wrote
      BY <1>t, <1>s, <1>4 DEF SyncRange, Goto, Shape, F, LocalType
    <2>2. Scratch(w)'
      BY <1>s, <2>1 DEF Scratch, Chunks
    <2>3. ASSUME ~ Stood(j)'
          PROVE  Grows(a, b) /\ r \in Durable(b)
      <3>1. local[w].open = "staging"
        BY <1>s, <1>t, <2>1, <2>3 DEF Scratch, LocalType
      <3>2. Opened(w) = a
        BY <3>1 DEF Opened
      <3>3. Through(w, Synced(a)) /\ Synced(a) \in FileType
        BY <1>4, <1>a, <3>2, FileTyped DEF SyncRange
      <3>4. b = Synced(a)
        BY <1>s, <1>t, <3>1, <3>3, WritesStaged
      <3>5. Grows(a, b)
        BY <1>a, <3>4, RewritesGrow DEF Rewrites
      <3>6. r \in Filled(a)
        BY <1>h, <2>1, <2>3 DEF Holds
      <3> QED
        BY <1>a, <3>4, <3>5, <3>6 DEF Synced, Durable, Filled, FileType
    <2> HIDE DEF a, b
    <2>4. ~ Stood(j)' => Holds(w)'
      BY <1>h, <2>1, <2>3 DEF Holds, Grows, Durable, Filled, a, b
    <2> QED
      BY <2>2, <2>4 DEF OpenInv
  <1>5. CASE RecordChunk(w)
    <2> DEFINE c == local[w].range
               q == [local[w] EXCEPT !.have = local[w].have \cup {c},
                                     !.wrote = local[w].wrote \ {c}, !.range = <<>>]
    <2>1. CASE ~ Raise(w, "cancelled")
      <3>1. Goto(w, "fetch") /\ local' = [local EXCEPT ![w] = q] /\ UNCHANGED disk
        BY <1>5, <2>1 DEF RecordChunk, Fenced
      <3>2. /\ q.have = local[w].have \cup {c} /\ q.wrote = local[w].wrote \ {c}
            /\ q.open = local[w].open /\ q.file = f
        BY <1>t DEF LocalType, F
      <3> HIDE DEF q
      <3>3. local'[w] = q /\ pc'[w] = "fetch" /\ staging' = staging /\ pc[w] = "record"
        BY <1>s, <1>5, <3>1 DEF Shape, Goto, disk, RecordChunk
      <3>4. Scratch(w)'
        BY <1>s, <3>2, <3>3 DEF Scratch, Chunks, F
      <3>5. ~ Stood(j)' => Holds(w)'
        BY <1>h, <3>2, <3>3 DEF Holds, F
      <3> QED
        BY <3>4, <3>5 DEF OpenInv
    <2> QED
      BY <1>r, <2>1
  <1>6. CASE RangeFails(w)
    <2>1. CASE UNCHANGED <<pc, local, disk>>
      <3>1. pc[w] = "fetch" /\ staging' = staging /\ pc' = pc /\ local' = local /\ F(w)' = f
        BY <1>6, <2>1 DEF RangeFails, disk, F
      <3> QED
        BY <1>s, <1>h, <3>1 DEF OpenInv, Scratch, Holds, Chunks
    <2> QED
      BY <1>6, <1>r, <2>1 DEF RangeFails, Fenced
  <1>7. CASE DiscardChunks(w)
    <2>1. CASE ResetFile(j, f, T(w), FALSE) /\ Goto(w, "open") /\ UNCHANGED local
      <3>1. pc'[w] = "open" /\ done'[j][f] = {} /\ local'[w] = local[w] /\ F(w)' = f
        BY <1>s, <2>1 DEF ResetFile, Goto, Shape, TypeOK, F
      <3>2. local[w].have = {} /\ local[w].wrote = {}
        BY <1>s, <1>7 DEF Scratch, DiscardChunks
      <3> QED
        BY <1>s, <3>1, <3>2 DEF OpenInv, Scratch, Holds
    <2> QED
      BY <1>7, <1>r, <2>1 DEF DiscardChunks, Fenced
  <1> QED
    BY <1>1, <1>2, <1>3, <1>4, <1>5, <1>6, <1>7

LEMMA OpenTransfer ==
    ASSUME PullInv, DurableInv, NEW w \in Workers, Equipped(w), TransferStep(w),
           NEW j \in JobIds, J(w) = j, J(w)' = j, Stood(j) => Stood(j)'
    PROVE  OpenInv(w)'
  <1>s. Shape /\ OpenInv(w) /\ Scratch(w) /\ TypedRun(w)
    BY DEF PullInv, RunInv, DurableInv, OpenInv, Equipped
  <1>t. local[w] \in LocalType
    BY <1>s DEF Shape
  <1>r. (\E e : Raise(w, e)) => Idles(w)
    BY <1>s, RaiseIdles
  <1>i. Idles(w) => OpenInv(w)'
    BY <1>s, IdlesOpen
  <1>1. CASE NextFile(w)
    <2>0. pc[w] = "next" /\ local[w].wrote = {}
      BY <1>s, <1>1 DEF NextFile, Scratch
    <2>1. ASSUME NEW g, NEW l \in {"chunks", "forget"}, Take(w, g, l)
          PROVE  OpenInv(w)'
      <3> DEFINE q == [local[w] EXCEPT !.file = g, !.have = {}]
      <3>1. q.have = {} /\ q.wrote = local[w].wrote /\ q.open = local[w].open
        BY <1>t DEF LocalType
      <3>2. local' = [local EXCEPT ![w] = q] /\ Goto(w, l)
        BY <2>1 DEF Take
      <3> HIDE DEF q
      <3>3. local'[w] = q /\ pc'[w] = l
        BY <1>s, <3>2 DEF Shape, Goto
      <3> QED
        BY <1>s, <2>0, <3>1, <3>3 DEF OpenInv, Scratch, Holds
    <2>2. ASSUME NEW g, Skip(w, g)
          PROVE  Idles(w)
      <3>1. /\ pc'[w] = "next" /\ local'[w].wrote = local[w].wrote
            /\ local'[w].open = local[w].open
        BY <1>t, <1>s, <2>0, <2>2 DEF Skip, Shape, LocalType
      <3> QED
        BY <2>0, <3>1 DEF Idles, LoadPcs
    <2>3. Goto(w, "mark") /\ UNCHANGED local => Idles(w)
      BY <1>s, <2>0 DEF Idles, LoadPcs, Goto, Shape
    <2> QED
      BY <1>1, <1>i, <2>1, <2>2, <2>3 DEF NextFile
  <1>8. CASE Forget(w)
    <2>1. CASE Goto(w, "chunks") /\ UNCHANGED local
      <3>1. pc'[w] = "chunks" /\ pc[w] = "forget" /\ local' = local
        BY <1>s, <1>8, <2>1 DEF Forget, Goto, Shape
      <3> QED
        BY <1>s, <3>1 DEF OpenInv, Scratch, Holds
    <2> QED
      BY <1>8, <1>r, <1>i, <2>1 DEF Forget, Fenced
  <1>2. CASE PrepareChunksOf(w)
    <2>1. CASE Goto(w, "resume") /\ UNCHANGED local
      <3>1. pc'[w] = "resume" /\ pc[w] = "chunks" /\ local' = local
        BY <1>s, <1>2, <2>1 DEF PrepareChunksOf, Goto, Shape
      <3> QED
        BY <1>s, <3>1 DEF OpenInv, Scratch, Holds
    <2> QED
      BY <1>2, <1>r, <1>i, <2>1 DEF PrepareChunksOf
  <1>3. CASE \/ ResumeChunks(w) \/ DiscardChunks(w) \/ OpenFile(w) \/ RecordChunk(w)
             \/ RangeFails(w)
             \/ \E r \in Chunks(F(w)) : WriteRange(w, r) \/ SyncRange(w, r)
    <2>1. pc[w] \in FilePcs
      BY <1>3 DEF ResumeChunks, DiscardChunks, OpenFile, RecordChunk, RangeFails, WriteRange,
                  SyncRange, FilePcs
    <2>2. F(w) \in Files
      BY <1>s, <1>t, <2>1 DEF TypedRun, LocalType
    <2> QED
      BY <1>3, <2>2, OpenLoads
  <1>4. CASE StopFetching(w)
    BY <1>4, <1>r, <1>i DEF StopFetching
  <1>5. CASE FetchDone(w)
    <2>1. local[w].wrote = {} /\ pc'[w] = "verify"
      BY <1>s, <1>5 DEF FetchDone, Scratch, Goto, Shape
    <2>2. local'[w].wrote = local[w].wrote /\ local'[w].open = "none"
      BY <1>t, <1>s, <1>5 DEF FetchDone, Shape, LocalType
    <2> QED
      BY <1>i, <2>1, <2>2 DEF Idles, LoadPcs
  <1>6. CASE VerifyFile(w) \/ Mismatch(w) \/ ResetCorrupt(w)
    <2>1. \/ \E e : Raise(w, e)
          \/ pc[w] \in {"verify", "mismatch"} /\ UNCHANGED local
                /\ pc'[w] \in {"update", "mismatch", "reset"}
      BY <1>s, <1>6 DEF VerifyFile, Mismatch, ResetCorrupt, Goto, Shape
    <2> QED
      BY <1>r, <1>i, <2>1 DEF Idles, LoadPcs
  <1>7. CASE CompleteFile(w)
    <2> DEFINE q == [local[w] EXCEPT !.todo = local[w].todo \ {F(w)}, !.file = "none",
                                     !.have = {}]
    <2>1. q.wrote = local[w].wrote /\ q.open = local[w].open
      BY <1>t DEF LocalType
    <2>2. (\E e : Raise(w, e)) \/ (Goto(w, "next") /\ local' = [local EXCEPT ![w] = q])
      BY <1>7 DEF CompleteFile, Fenced
    <2> HIDE DEF q
    <2>3. CASE Goto(w, "next") /\ local' = [local EXCEPT ![w] = q]
      <3>1. local'[w] = q /\ pc'[w] = "next" /\ pc[w] = "update"
        BY <1>s, <1>7, <2>3 DEF Shape, Goto, CompleteFile
      <3> QED
        BY <1>i, <2>1, <3>1 DEF Idles, LoadPcs
    <2> QED
      BY <1>r, <1>i, <2>2, <2>3
  <1> QED
    BY <1>1, <1>2, <1>3, <1>4, <1>5, <1>6, <1>7, <1>8 DEF TransferStep

\* The run whose step it is.
LEMMA OpenOwn ==
    ASSUME PullInv, DurableInv, DiskStep, NEW w \in Workers, RunStep(w), Working(w)'
    PROVE  OpenInv(w)'
  <1>1. GoesOn(w)
    BY RunGoesOn
  <1>2. PICK j \in JobIds : J(w) = j
    BY <1>1 DEF GoesOn, PullInv, RunInv, TypedRun
  <1>3. /\ J(w)' = j /\ (Stood(j) => Stood(j)') /\ Equipped(w) /\ Shape /\ OpenInv(w)
        /\ TypedRun(w)
    BY <1>1, <1>2, StoodKept DEF GoesOn, PullInv, RunInv, TypedRun, DurableInv, TargetInv,
                                Addressed, Equipped
  <1>4. CASE TransferStep(w)
    BY <1>2, <1>3, <1>4, OpenTransfer
  <1>5. CASE Publish(w)
    <2>1. CASE Raise(w, "permanent")
      BY <1>2, <1>3, <2>1, RaiseIdles, IdlesOpen
    <2>2. CASE ~ Raise(w, "permanent")
      <3>1. Stood(j)'
        BY <1>2, <1>3, <1>5, <2>2, PublishSteps, InstallsStands DEF DurableInv
      <3>2. /\ pc'[w] = "finish" /\ local[w].wrote = {} /\ local[w] \in LocalType
        BY <1>3, <1>5, <2>2 DEF Publish, Goto, Shape, OpenInv, Scratch
      <3>3. local'[w].wrote = local[w].wrote
        BY <1>3, <1>5, <2>2, <3>2 DEF Publish, LocalType
      <3> QED
        BY <1>3, <3>1, <3>2, <3>3 DEF OpenInv, Scratch, Holds
    <2> QED
      BY <2>1, <2>2
  <1>6. CASE ~ TransferStep(w) /\ ~ Publish(w)
    BY <1>2, <1>3, <1>6, RestIdles, IdlesOpen
  <1> QED
    BY <1>4, <1>5, <1>6

LEMMA DurableInvNext ==
    ASSUME "lostrename" \notin Events, PullInv, DurableInv, [PullNext]_pullVars
    PROVE  DurableInv'
  <1>1. TargetInv' /\ DiskStep /\ Shape
    BY TargetNext, DiskSteps DEF DurableInv, PullInv
  <1>2. \A j \in JobIds : StagedInv(j)'
    BY <1>1, StagedNext
  <1>3. ASSUME NEW w \in Workers, Working(w)'
        PROVE  OpenInv(w)'
    <2>1. ASSUME NEW k \in JobIds, WorkerClaims(w, k), local'[w] = Start(k)
          PROVE  OpenInv(w)'
      <3>1. pc'[w] = "claimed" /\ local'[w].wrote = {} /\ local'[w].open = "none"
        BY <1>1, <2>1 DEF WorkerClaims, Goto, Shape, Start, Idle
      <3> QED
        BY <3>1 DEF OpenInv, Scratch, Holds
    <2> QED
      BY <1>1, <1>3, <2>1, Continues, OpenOwn, OpenBystander
  <1> QED
    BY <1>1, <1>2, <1>3 DEF DurableInv, DiskStep

LEMMA DurableInvInit ==
    ASSUME PullInit
    PROVE  DurableInv
  <1>1. \A w \in Workers : ~ Working(w)
    BY DEF PullInit, Working
  <1>2. TargetInv
    BY <1>1 DEF PullInit, Init, TargetInv, Row, NoRow
  <1>3. DiskTyped
    BY NothingTyped DEF PullInit, DiskTyped
  <1>4. \A j \in JobIds : StagedInv(j)
    BY DEF PullInit, Init, StagedInv, NoFiles
  <1> QED
    BY <1>1, <1>2, <1>3, <1>4 DEF DurableInv

\* Where runs publish, and what they and the chunk rows know of the files in staging.
THEOREM DurableInvariant ==
    ASSUME "lostrename" \notin Events
    PROVE  PullSpec => []DurableInv
  <1>1. PullInit => DurableInv
    BY DurableInvInit
  <1>2. PullInv /\ DurableInv /\ [PullNext]_pullVars => DurableInv'
    BY DurableInvNext
  <1> QED
    BY <1>1, <1>2, PullInvariant, PTL DEF PullSpec

\* docs/requirements.md:118: every chunk recorded for a file that the next claim of an
\* unpublished job finds in staging is there and survives a power loss, whichever of the
\* runs of the job recorded it and whether or not its claim was still current.  A rename
\* that a power loss undoes is excluded: after it, what was recorded while the directory
\* stood at the destination is back in staging.
THEOREM RecordedDurable ==
    ASSUME "lostrename" \notin Events
    PROVE  PullSpec => []RecordedIsDurable
  <1>1. DurableInv => RecordedIsDurable
    <2> SUFFICES ASSUME DurableInv, NEW j \in JobIds, NEW f \in Files, ~ Published(j),
                        staging[j].files[f].exists
                 PROVE  done[j][f] \subseteq Durable(staging[j].files[f])
      BY DEF RecordedIsDurable, Durable, Filled
    <2>1. ~ Stood(j)
      BY DEF Stood, Published
    <2> QED
      BY <2>1 DEF DurableInv, StagedInv
  <1> QED
    BY <1>1, DurableInvariant, PTL
=============================================================================
