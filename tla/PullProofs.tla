----------------------------- MODULE PullProofs -----------------------------
(***************************************************************************)
(* Safety of the workers for every number of workers and jobs, every       *)
(* snapshot and every set of events: late workers, crashes, power losses,  *)
(* lost renames, corrupt sources and failing store calls included.         *)
(*                                                                         *)
(* The argument.  A worker reads the queue, gives up control, and acts on  *)
(* what it read.  What it read still holds as long as its token is the     *)
(* current one (PlanInv), because the store lets nobody else change a      *)
(* claimed row, but for a cancellation (Intact).  A token that is no       *)
(* longer current never becomes current again (Rooted, OneRun), and the    *)
(* store refuses it.  So every call a worker gets through (Calls) is one   *)
(* the queue's specification allows (StepIsQueueStep).                     *)
(***************************************************************************)
EXTENDS PullJob, LifecycleProofs

USE ChunkSizeAssumption, EventsAssumption, RetriesAssumption

-----------------------------------------------------------------------------
(* The shape of a run, and of a step of one worker.                        *)

\* Where a worker transfers the file F(w), and where it has read the file rows.
FilePcs == {"chunks", "resume", "discard", "open", "fetch", "record", "verify", "mismatch",
            "reset", "update"}
PlanPcs == {"dest", "adopt", "stage", "next", "forget"} \cup FilePcs
Labels  == {"idle", "dead", "exited", "claimed", "inventory", "save", "rows", "mark", "sums",
            "sums2", "check", "rename", "finish", "handler", "settle", "report",
            "schedule", "fail"} \cup PlanPcs
AllRanges == UNION {Chunks(f) : f \in Files}

LocalType ==
    [job : JobIds \cup {0}, tok : Nat, model : Models \cup {"none"},
     dest : Destinations \cup {"none"}, kept : SUBSET Files, todo : SUBSET Files,
     file : Files \cup {"none"}, have : SUBSET AllRanges, wrote : SUBSET AllRanges,
     range : AllRanges \cup {<<>>},
     exc : {"none", "cancelled", "deadline", "retryable", "permanent", "mismatch",
            "retry", "fail"},
     seen : NoRow \cup Active \cup Terminal,
     shutdown : BOOLEAN, registered : BOOLEAN, stop : BOOLEAN,
     open : {"none", "staging", "installed"}]

\* Program counters and local variables are of their types.
Shape == pc \in [Workers -> Labels] /\ local \in [Workers -> LocalType]

\* The local variables that only the worker itself assigns.
Core(w) == <<J(w), T(w), local[w].model, D(w), local[w].kept, local[w].todo, F(w),
             local[w].have, local[w].wrote, local[w].range, local[w].exc, local[w].seen>>
Same(w) == pc'[w] = pc[w] /\ Core(w)' = Core(w)

LEMMA IdleTyped == Idle \in LocalType
  BY DEF Idle, LocalType, NoRow

\* What leaves _pull_job.
Errs == {"cancelled", "deadline", "retryable", "permanent", "mismatch"}

LEMMA Assigned ==
    ASSUME Shape, NEW w \in Workers, NEW r \in LocalType, NEW l \in Labels,
           local' = [local EXCEPT ![w] = r], pc' = [pc EXCEPT ![w] = l]
    PROVE  /\ Shape' /\ \A v \in Workers \ {w} : Same(v)
           /\ local'[w] = r /\ pc'[w] = l
  BY DEF Shape, Same, Core, J, T, D, F

LEMMA Raised ==
    ASSUME Shape, NEW w \in Workers, NEW e \in Errs, Raise(w, e)
    PROVE  /\ Shape' /\ \A v \in Workers \ {w} : Same(v)
           /\ pc'[w] = "handler" /\ J(w)' = J(w) /\ T(w)' = T(w)
           /\ local'[w].model = local[w].model /\ D(w)' = D(w) /\ local'[w].open = "none"
  <1> DEFINE r == [local[w] EXCEPT !.exc = e, !.open = "none", !.kept = {}, !.todo = {},
                             !.file = "none", !.have = {}, !.wrote = {}, !.range = <<>>]
  <1>1. local[w] \in LocalType
    BY DEF Shape
  <1>2. /\ r \in LocalType /\ r.job = J(w) /\ r.tok = T(w) /\ r.dest = D(w)
        /\ r.model = local[w].model /\ r.open = "none"
    <2> DEFINE r1 == [local[w] EXCEPT !.exc = e]
               r2 == [r1 EXCEPT !.open = "none"]
               r3 == [r2 EXCEPT !.kept = {}, !.todo = {}]
               r4 == [r3 EXCEPT !.file = "none"]
               r5 == [r4 EXCEPT !.have = {}, !.wrote = {}]
               r6 == [r5 EXCEPT !.range = <<>>]
    <2>r. r = r6
      OBVIOUS
    <2> HIDE DEF r
    <2>1. r1 \in LocalType
      BY <1>1 DEF LocalType, Errs
    <2> HIDE DEF r1
    <2>2. r2 \in LocalType
      BY <2>1 DEF LocalType
    <2> HIDE DEF r2
    <2>3. r3 \in LocalType
      BY <2>2 DEF LocalType
    <2> HIDE DEF r3
    <2>4. r4 \in LocalType
      BY <2>3 DEF LocalType
    <2> HIDE DEF r4
    <2>5. r5 \in LocalType
      BY <2>4 DEF LocalType
    <2> HIDE DEF r5
    <2>6. r6 \in LocalType
      BY <2>5 DEF LocalType
    <2> HIDE DEF r6
    <2>7. /\ r.job = J(w) /\ r.tok = T(w) /\ r.dest = D(w)
          /\ r.model = local[w].model /\ r.open = "none"
      BY <1>1 DEF LocalType, J, T, D, r
    <2> QED
      BY <2>r, <2>6, <2>7
  <1> HIDE DEF r
  <1>3. local' = [local EXCEPT ![w] = r] /\ pc' = [pc EXCEPT ![w] = "handler"] /\ "handler" \in Labels
    BY DEF Raise, r, Labels
  <1> QED
    BY <1>2, <1>3, Assigned DEF J, T, D

LEMMA Left ==
    ASSUME Shape, NEW w \in Workers, NEW l \in {"idle", "dead"}, Leave(w, l)
    PROVE  /\ Shape' /\ \A v \in Workers \ {w} : Same(v)
           /\ pc'[w] = l /\ local'[w] = Idle
  <1>1. ASSUME NEW v \in Workers \ {w}
        PROVE  local'[v] \in LocalType /\ Core(v)' = Core(v)
    <2>1. local[v] \in LocalType
      BY DEF Shape
    <2>2. CASE local'[v] = local[v]
      BY <2>1, <2>2 DEF Core, J, T, D, F
    <2>3. CASE local'[v] = [local[v] EXCEPT !.registered = FALSE]
      <3>1. local'[v] \in LocalType
        BY <2>1, <2>3 DEF LocalType
      <3>2. Core(v)' = Core(v)
        BY <2>1, <2>3 DEF Core, J, T, D, F, LocalType
      <3> QED
        BY <3>1, <3>2
    <2> QED
      BY <2>2, <2>3 DEF Leave
  <1>2. local'[w] = Idle
    BY DEF Leave
  <1>3. local' \in [Workers -> LocalType]
    BY <1>1, <1>2, IdleTyped DEF Leave
  <1>4. pc' = [pc EXCEPT ![w] = l] /\ l \in Labels
    BY DEF Leave, Goto, Labels
  <1> QED
    BY <1>1, <1>2, <1>3, <1>4 DEF Shape, Same

\* A step of w changes no core variable of another worker, and its own run goes on
\* with the same claim or is over.
OwnStep(w) ==
    /\ Shape' /\ \A v \in Workers \ {w} : Same(v)
    /\ \/ /\ J(w)' = J(w) /\ T(w)' = T(w) /\ D(w)' = D(w)
          /\ local'[w].model = local[w].model
       \/ local'[w] = Idle /\ pc'[w] \in {"idle", "dead", "exited"}

\* The control moves and no local variable changes.
LEMMA GoesTo ==
    ASSUME Shape, NEW w \in Workers, NEW l \in Labels, Goto(w, l), UNCHANGED local
    PROVE  OwnStep(w)
  BY DEF Shape, Same, Core, J, T, D, F, Goto, OwnStep

\* Control moves and some local variables, not those of the claim, are assigned.
LEMMA Sets ==
    ASSUME Shape, NEW w \in Workers, NEW r \in LocalType, NEW l \in Labels,
           local' = [local EXCEPT ![w] = r], pc' = [pc EXCEPT ![w] = l],
           r.job = J(w), r.tok = T(w), r.dest = D(w), r.model = local[w].model
    PROVE  OwnStep(w)
  BY Assigned DEF OwnStep, J, T, D

\* The steps before the transfer keep the shape.
LEMMA Shape1 ==
    ASSUME Shape, NEW w \in Workers
    PROVE  /\ Register(w) => OwnStep(w)
           /\ WorkerExits(w) => OwnStep(w)
           /\ StoreFails(w) => OwnStep(w)
           /\ Inventory(w) => OwnStep(w)
           /\ Save(w) => OwnStep(w)
           /\ ReadRows(w) => OwnStep(w)
           /\ CheckDestination(w) => OwnStep(w)
           /\ Adopt(w) => OwnStep(w)
           /\ PrepareStaging(w) => OwnStep(w)
  <1> USE DEF Labels, PlanPcs, FilePcs
  <1>a. \A e \in Errs : Raise(w, e) => OwnStep(w)
    BY Raised DEF OwnStep, Errs
  <1>b. \A l \in {"idle", "dead"} : Leave(w, l) => OwnStep(w)
    BY Left DEF OwnStep
  <1>1. Register(w) => OwnStep(w)
    <2> SUFFICES ASSUME Register(w)
                 PROVE  OwnStep(w)
      OBVIOUS
    <2>1. PICK l \in Labels : pc' = [pc EXCEPT ![w] = l]
      BY DEF Register, Goto
    <2>2. \A v \in Workers : local'[v] = local[v]
                             \/ \E b \in BOOLEAN : local'[v] = [local[v] EXCEPT !.registered = b]
      BY DEF Register
    <2>3. \A v \in Workers : /\ local'[v] \in LocalType
                             /\ Core(v)' = Core(v)
      <3> SUFFICES ASSUME NEW v \in Workers
                   PROVE  local'[v] \in LocalType /\ Core(v)' = Core(v)
        OBVIOUS
      <3>1. local[v] \in LocalType
        BY DEF Shape
      <3>2. CASE local'[v] = local[v]
        BY <3>1, <3>2 DEF Core, J, T, D, F
      <3>3. ASSUME NEW b \in BOOLEAN, local'[v] = [local[v] EXCEPT !.registered = b]
            PROVE  local'[v] \in LocalType /\ Core(v)' = Core(v)
        BY <3>1, <3>3 DEF Core, J, T, D, F, LocalType
      <3> QED
        BY <2>2, <3>2, <3>3
    <2>4. local' \in [Workers -> LocalType]
      BY <2>3 DEF Register
    <2> QED
      BY <2>1, <2>3, <2>4 DEF OwnStep, Shape, Same, Core, J, T, D
  <1>2. WorkerExits(w) => OwnStep(w)
    BY GoesTo DEF WorkerExits
  <1>3. StoreFails(w) => OwnStep(w)
    BY <1>a, <1>b, GoesTo DEF StoreFails, Errs
  <1>4. Inventory(w) => OwnStep(w)
    BY <1>a, GoesTo DEF Inventory, Errs
  <1>5. Save(w) => OwnStep(w)
    BY <1>b, GoesTo DEF Save
  <1>6. ReadRows(w) => OwnStep(w)
    <2> DEFINE r == [local[w] EXCEPT !.kept = Complete(fstate[J(w)]), !.todo = Files]
    <2>0. Complete(fstate[J(w)]) \subseteq Files
      BY DEF Complete
    <2>1. r \in LocalType /\ r.job = J(w) /\ r.tok = T(w) /\ r.dest = D(w) /\ r.model = local[w].model
      <3>1. local[w] \in LocalType
        BY DEF Shape
      <3>2. r \in LocalType
        BY <2>0, <3>1 DEF LocalType
      <3> QED BY <3>1, <3>2 DEF J, T, D, LocalType
    <2>2. ReadRows(w) => Raise(w, "permanent") \/ (Goto(w, "dest") /\ local' = [local EXCEPT ![w] = r])
      BY DEF ReadRows
    <2> HIDE DEF r
    <2> QED BY <2>1, <2>2, <1>a, Sets DEF Errs, Goto
  <1>7. CheckDestination(w) => OwnStep(w)
    BY <1>a, GoesTo DEF CheckDestination, Errs
  <1>8. Adopt(w) => OwnStep(w)
    <2>1. ASSUME NEW f \in local[w].todo, local' = [local EXCEPT ![w].kept = @ \cup {f}], UNCHANGED pc
          PROVE OwnStep(w)
      <3> DEFINE r == [local[w] EXCEPT !.kept = local[w].kept \cup {f}]
      <3>1. local[w] \in LocalType
        BY DEF Shape
      <3>2. r.job = J(w) /\ r.tok = T(w) /\ r.dest = D(w) /\ r.model = local[w].model
        BY <3>1 DEF LocalType, J, T, D
      <3>3. r \in LocalType
        BY <2>1, <3>1 DEF LocalType
      <3>4. local' = [local EXCEPT ![w] = r] /\ pc' = [pc EXCEPT ![w] = pc[w]] /\ pc[w] \in Labels
        BY <2>1 DEF Shape
      <3> HIDE DEF r
      <3> QED BY <3>2, <3>3, <3>4, Sets
    <2> QED
      BY <2>1, <1>a, GoesTo DEF Adopt, Fenced, Errs
  <1>9. PrepareStaging(w) => OwnStep(w)
    BY GoesTo DEF PrepareStaging
  <1> QED BY <1>1, <1>2, <1>3, <1>4, <1>5, <1>6, <1>7, <1>8, <1>9

LEMMA RaisedStep ==
    ASSUME Shape, NEW w \in Workers, NEW e \in Errs, Raise(w, e)
    PROVE  OwnStep(w)
  BY Raised DEF OwnStep, Errs

\* The same with control where it was.
LEMMA SetsHere ==
    ASSUME Shape, NEW w \in Workers, NEW r \in LocalType, UNCHANGED pc,
           local' = [local EXCEPT ![w] = r],
           r.job = J(w), r.tok = T(w), r.dest = D(w), r.model = local[w].model
    PROVE  OwnStep(w)
  BY Sets DEF Shape

\* The file a run transfers is one it planned to; what it has is ranges of that file.
TypedRun(w) ==
    /\ J(w) \in JobIds /\ T(w) \in Nat \ {0}
    /\ pc[w] \in FilePcs \cup {"forget"} =>
          F(w) \in local[w].todo /\ local[w].have \subseteq Chunks(F(w))
    /\ pc[w] = "record" => local[w].range \in Chunks(F(w))

\* Only ranges of the file are recorded.
DoneTyped == \A j \in JobIds, f \in Files : done[j][f] \subseteq Chunks(f)

\* The steps of a transfer keep the shape.
LEMMA Shape2 ==
    ASSUME Shape, NEW w \in Workers, TypedRun(w), DoneTyped, TransferStep(w)
    PROVE  OwnStep(w)
  <1> USE DEF Labels, PlanPcs, FilePcs
  <1>l. local[w] \in LocalType
    BY DEF Shape
  <1>f. pc[w] \in FilePcs => F(w) \in Files
    BY <1>l DEF TypedRun, LocalType
  <1> DEFINE Kin(r) == r.job = J(w) /\ r.tok = T(w) /\ r.dest = D(w) /\ r.model = local[w].model
  <1>1. CASE NextFile(w)
    <2>1. ASSUME NEW f \in local[w].todo, NEW l \in {"chunks", "forget"}, Take(w, f, l)
          PROVE  OwnStep(w)
      <3> DEFINE r == [local[w] EXCEPT !.file = f, !.have = {}]
      <3>1. r \in LocalType /\ Kin(r)
        <4>1. r \in LocalType
          BY <1>l DEF LocalType
        <4>2. Kin(r)
          BY <1>l DEF LocalType, J, T, D
        <4> QED
          BY <4>1, <4>2
      <3> HIDE DEF r
      <3> QED BY <2>1, <3>1, Sets DEF Take, Goto, r
    <2>2. ASSUME NEW f \in local[w].todo, Skip(w, f)
          PROVE  OwnStep(w)
      <3> DEFINE r == [local[w] EXCEPT !.todo = local[w].todo \ {f}]
      <3>1. r \in LocalType /\ Kin(r)
        <4>1. r \in LocalType
          BY <1>l DEF LocalType
        <4>2. Kin(r)
          BY <1>l DEF LocalType, J, T, D
        <4> QED
          BY <4>1, <4>2
      <3> HIDE DEF r
      <3> QED BY <2>2, <3>1, SetsHere DEF Skip, r
    <2> QED
      BY <1>1, <2>1, <2>2, GoesTo DEF NextFile
  <1>2. CASE PrepareChunksOf(w)
    BY <1>2, RaisedStep, GoesTo DEF PrepareChunksOf, Errs
  <1>3. CASE ResumeChunks(w)
    <2> DEFINE r == [local[w] EXCEPT !.have = done[J(w)][F(w)]]
    <2>1. done[J(w)][F(w)] \in SUBSET AllRanges
      BY <1>3, <1>f DEF ResumeChunks, TypedRun, DoneTyped, AllRanges
    <2>2. r \in LocalType /\ Kin(r)
      <3>1. r \in LocalType
        BY <1>l, <2>1 DEF LocalType
      <3>2. Kin(r)
        BY <1>l DEF LocalType, J, T, D
      <3> QED
        BY <3>1, <3>2
    <2> HIDE DEF r
    <2> QED BY <1>3, <2>2, GoesTo, Sets DEF ResumeChunks, Goto, r
  <1>4. CASE OpenFile(w)
    <2> DEFINE r == [local[w] EXCEPT !.open = "staging"]
    <2>2. r \in LocalType /\ Kin(r)
      <3>1. r \in LocalType
        BY <1>l DEF LocalType
      <3>2. Kin(r)
        BY <1>l DEF LocalType, J, T, D
      <3> QED
        BY <3>1, <3>2
    <2> HIDE DEF r
    <2> QED BY <1>4, <2>2, RaisedStep, Sets DEF OpenFile, Errs, Goto, r
  <1>5. ASSUME NEW c \in Chunks(F(w)), WriteRange(w, c)
        PROVE  OwnStep(w)
    <2> DEFINE r == [local[w] EXCEPT !.wrote = local[w].wrote \cup {c}]
    <2>1. c \in AllRanges
      BY <1>5, <1>f DEF AllRanges, WriteRange, SyncRange
    <2>2. r \in LocalType /\ Kin(r)
      <3>1. r \in LocalType
        BY <1>l, <2>1 DEF LocalType
      <3>2. Kin(r)
        BY <1>l DEF LocalType, J, T, D
      <3> QED
        BY <3>1, <3>2
    <2> HIDE DEF r
    <2> QED BY <1>5, <2>2, SetsHere DEF WriteRange, r
  <1>6. ASSUME NEW c \in Chunks(F(w)), SyncRange(w, c)
        PROVE  OwnStep(w)
    <2> DEFINE r == [local[w] EXCEPT !.range = c]
    <2>1. c \in AllRanges
      BY <1>6, <1>f DEF AllRanges, WriteRange, SyncRange
    <2>2. r \in LocalType /\ Kin(r)
      <3>1. r \in LocalType
        BY <1>l, <2>1 DEF LocalType
      <3>2. Kin(r)
        BY <1>l DEF LocalType, J, T, D
      <3> QED
        BY <3>1, <3>2
    <2> HIDE DEF r
    <2> QED BY <1>6, <2>2, Sets DEF SyncRange, Goto, r
  <1>7. CASE StopFetching(w)
    BY <1>7, RaisedStep DEF StopFetching, Errs
  <1>8. CASE RecordChunk(w)
    <2> DEFINE r == [local[w] EXCEPT !.have = local[w].have \cup {local[w].range},
                                     !.wrote = local[w].wrote \ {local[w].range},
                                     !.range = <<>>]
    <2>1. local[w].range \in AllRanges
      BY <1>8, <1>f DEF AllRanges, RecordChunk, TypedRun
    <2>2. r \in LocalType /\ Kin(r)
      <3>1. r \in LocalType
        BY <1>l, <2>1 DEF LocalType
      <3>2. Kin(r)
        BY <1>l DEF LocalType, J, T, D
      <3> QED
        BY <3>1, <3>2
    <2> HIDE DEF r
    <2>3. RecordChunk(w) => Raise(w, "cancelled") \/ (Goto(w, "fetch") /\ local' = [local EXCEPT ![w] = r])
      BY DEF RecordChunk, Fenced, r
    <2> QED BY <1>8, <2>2, <2>3, RaisedStep, Sets DEF Errs, Goto
  <1>9. CASE RangeFails(w)
    BY <1>9, RaisedStep, GoesTo DEF RangeFails, Fenced, Errs, Shape, Goto
  <1>10. CASE FetchDone(w)
    <2> DEFINE r == [local[w] EXCEPT !.open = "none"]
    <2>1. Kin(r)
      BY <1>l DEF LocalType, J, T, D
    <2>2. r \in LocalType
      BY <1>l DEF LocalType
    <2> HIDE DEF r
    <2> QED BY <1>10, <2>1, <2>2, Sets DEF FetchDone, Errs, Goto, r
  <1>11. CASE VerifyFile(w)
    BY <1>11, RaisedStep, GoesTo DEF VerifyFile, Errs
  <1>12. CASE Mismatch(w)
    BY <1>12, GoesTo DEF Mismatch
  <1>13. CASE ResetCorrupt(w)
    BY <1>13, RaisedStep DEF ResetCorrupt, Errs
  <1>14. CASE CompleteFile(w)
    <2> DEFINE r == [local[w] EXCEPT !.todo = local[w].todo \ {F(w)}, !.file = "none",
                                     !.have = {}]
    <2>2. r \in LocalType /\ Kin(r)
      <3>1. r \in LocalType
        BY <1>l DEF LocalType
      <3>2. Kin(r)
        BY <1>l DEF LocalType, J, T, D
      <3> QED
        BY <3>1, <3>2
    <2> HIDE DEF r
    <2> QED BY <1>14, <2>2, Sets, RaisedStep DEF CompleteFile, Fenced, Errs, Goto, r
  <1>15. CASE Forget(w) \/ DiscardChunks(w)
    BY <1>15, RaisedStep, GoesTo DEF Forget, DiscardChunks, Fenced, Errs
  <1> QED
    BY <1>1, <1>2, <1>3, <1>4, <1>5, <1>6, <1>7, <1>8, <1>9, <1>10, <1>11, <1>12, <1>13,
       <1>14, <1>15 DEF TransferStep

LEMMA LeftStep ==
    ASSUME Shape, NEW w \in Workers, NEW l \in {"idle", "dead"}, Leave(w, l)
    PROVE  OwnStep(w)
  BY Left DEF OwnStep

\* The steps after the transfer, and those of the handler, keep the shape.
LEMMA Shape3 ==
    ASSUME Shape, NEW w \in Workers, J(w) \in JobIds, TypeOK
    PROVE  /\ Mark(w) => OwnStep(w)
           /\ OpenSums(w) => OwnStep(w)
           /\ WriteSums(w) => OwnStep(w)
           /\ LastCheck(w) => OwnStep(w)
           /\ Publish(w) => OwnStep(w)
           /\ FinishCompleted(w) => OwnStep(w)
           /\ ReadForHandler(w) => OwnStep(w)
           /\ SettleCancelled(w) => OwnStep(w)
           /\ SettleCancelRequested(w) => OwnStep(w)
           /\ SettleFailure(w) => OwnStep(w)
           /\ Report(w) => OwnStep(w)
           /\ Schedule(w) => OwnStep(w)
           /\ Fail(w) => OwnStep(w)
  <1> USE DEF Labels
  <1>l. local[w] \in LocalType
    BY DEF Shape
  <1>e. End(w) => OwnStep(w)
    BY LeftStep DEF End
  <1> DEFINE Kin(r) == r.job = J(w) /\ r.tok = T(w) /\ r.dest = D(w) /\ r.model = local[w].model
  <1>1. ASSUME Mark(w)
        PROVE  OwnStep(w)
    <2> DEFINE r == [local[w] EXCEPT !.kept = {}]
    <2>1. r \in LocalType /\ Kin(r)
      <3>1. r \in LocalType
        BY <1>l DEF LocalType
      <3>2. Kin(r)
        BY <1>l DEF LocalType, J, T, D
      <3> QED
        BY <3>1, <3>2
    <2> HIDE DEF r
    <2> QED BY <1>1, <2>1, Sets, RaisedStep DEF Mark, Fenced, Errs, Goto, r
  <1>2. ASSUME OpenSums(w)
        PROVE  OwnStep(w)
    <2> DEFINE r == [local[w] EXCEPT !.open = "staging"]
    <2>1. r \in LocalType /\ Kin(r)
      <3>1. r \in LocalType
        BY <1>l DEF LocalType
      <3>2. Kin(r)
        BY <1>l DEF LocalType, J, T, D
      <3> QED
        BY <3>1, <3>2
    <2> HIDE DEF r
    <2> QED BY <1>2, <2>1, Sets, RaisedStep DEF OpenSums, Errs, Goto, r
  <1>3. ASSUME WriteSums(w)
        PROVE  OwnStep(w)
    <2> DEFINE r == [local[w] EXCEPT !.open = "none"]
    <2>1. r \in LocalType /\ Kin(r)
      <3>1. r \in LocalType
        BY <1>l DEF LocalType
      <3>2. Kin(r)
        BY <1>l DEF LocalType, J, T, D
      <3> QED
        BY <3>1, <3>2
    <2> HIDE DEF r
    <2> QED BY <1>3, <2>1, Sets DEF WriteSums, Goto, r
  <1>4. ASSUME LastCheck(w)
        PROVE  OwnStep(w)
    BY <1>4, RaisedStep, GoesTo DEF LastCheck, Errs
  <1>5. ASSUME Publish(w)
        PROVE  OwnStep(w)
    <2>1. CASE Raise(w, "permanent")
      BY <2>1, RaisedStep DEF Errs
    <2>2. CASE ~ Raise(w, "permanent")
      <3>1. pc' = [pc EXCEPT ![w] = "finish"]
        BY <1>5, <2>2 DEF Publish, Goto
      <3>2. local' = [v \in Workers |->
                        IF J(v) = J(w) /\ local[v].open = "staging"
                        THEN [local[v] EXCEPT !.open = "installed"] ELSE local[v]]
        BY <1>5, <2>2 DEF Publish
      <3>3. ASSUME NEW v \in Workers
            PROVE  local'[v] \in LocalType /\ Core(v)' = Core(v)
        <4>1. local[v] \in LocalType
          BY DEF Shape
        <4>2. CASE local'[v] = local[v]
          BY <4>1, <4>2 DEF Core, J, T, D, F
        <4>3. CASE local'[v] = [local[v] EXCEPT !.open = "installed"]
          BY <4>1, <4>3 DEF Core, J, T, D, F, LocalType
        <4> QED
          BY <3>2, <4>2, <4>3
      <3>4. local' \in [Workers -> LocalType]
        BY <3>2, <3>3
      <3> QED
        BY <3>1, <3>3, <3>4 DEF OwnStep, Shape, Same, Core, J, T, D
    <2> QED
      BY <2>1, <2>2
  <1>6. FinishCompleted(w) => OwnStep(w)
    BY <1>e, RaisedStep DEF FinishCompleted, Fenced, Errs
  <1>7. ASSUME ReadForHandler(w)
        PROVE  OwnStep(w)
    <2> DEFINE r == [local[w] EXCEPT !.seen = state[J(w)]]
    <2>1. state[J(w)] \in NoRow \cup Active \cup Terminal
      BY DEF TypeOK
    <2>2. r \in LocalType /\ Kin(r)
      <3>1. r \in LocalType
        BY <1>l, <2>1 DEF LocalType
      <3>2. Kin(r)
        BY <1>l DEF LocalType, J, T, D
      <3> QED
        BY <3>1, <3>2
    <2> HIDE DEF r
    <2> QED BY <1>7, <2>2, Sets, LeftStep DEF ReadForHandler, Goto, r
  <1>8. /\ SettleCancelled(w) => OwnStep(w)
        /\ SettleCancelRequested(w) => OwnStep(w)
        /\ Schedule(w) => OwnStep(w)
        /\ Fail(w) => OwnStep(w)
    BY <1>e DEF SettleCancelled, SettleCancelRequested, Schedule, Fail, Closing
  <1>9. ASSUME SettleFailure(w)
        PROVE  OwnStep(w)
    <2>1. PICK e \in {"retry", "fail"} : local' = [local EXCEPT ![w].exc = e]
      BY <1>9 DEF SettleFailure
    <2> DEFINE r == [local[w] EXCEPT !.exc = e]
    <2>2. r \in LocalType /\ Kin(r)
      <3>1. r \in LocalType
        BY <1>l DEF LocalType
      <3>2. Kin(r)
        BY <1>l DEF LocalType, J, T, D
      <3> QED
        BY <3>1, <3>2
    <2>3. local' = [local EXCEPT ![w] = r]
      BY <2>1
    <2> HIDE DEF r
    <2> QED BY <1>9, <2>2, <2>3, Sets DEF SettleFailure, Goto
  <1>10. Report(w) => OwnStep(w)
    BY GoesTo DEF Report
  <1> QED
    BY <1>1, <1>2, <1>3, <1>4, <1>5, <1>6, <1>7, <1>8, <1>9, <1>10

LEMMA RunShape ==
    ASSUME Shape, TypeOK, DoneTyped, NEW w \in Workers, Working(w) => TypedRun(w), RunStep(w)
    PROVE  OwnStep(w)
  <1>1. CASE TransferStep(w)
    <2>1. Working(w)
      BY <1>1 DEF TransferStep, Working, NextFile, Forget, PrepareChunksOf, ResumeChunks,
                  DiscardChunks, OpenFile, StopFetching, RecordChunk, RangeFails, FetchDone, VerifyFile, Mismatch,
                  ResetCorrupt, CompleteFile
    <2> QED
      BY <1>1, <2>1, Shape2
  <1>2. CASE \/ Mark(w) \/ OpenSums(w) \/ WriteSums(w) \/ LastCheck(w) \/ Publish(w)
             \/ FinishCompleted(w)
             \/ ReadForHandler(w) \/ SettleCancelled(w) \/ SettleCancelRequested(w)
             \/ SettleFailure(w) \/ Report(w) \/ Schedule(w) \/ Fail(w)
    <2>1. Working(w)
      BY <1>2 DEF Working, Mark, OpenSums, WriteSums, LastCheck, Publish, FinishCompleted,
                  ReadForHandler, SettleCancelled, SettleCancelRequested, SettleFailure,
                  Report, Schedule, Fail
    <2> QED
      BY <1>2, <2>1, Shape3 DEF TypedRun
  <1> QED
    BY <1>1, <1>2, Shape1 DEF RunStep

\* The store calls a worker makes for its job under its token, with what it knows
\* when it makes them.
Calls(w) ==
    \/ UNCHANGED vars
    \/ SaveSnapshot(J(w), T(w))
    \/ F(w) \in Files /\ PrepareChunks(J(w), F(w), T(w), ChunkSize)
    \/ pc[w] = "record" /\ RecordProgress(J(w), F(w), T(w),
           BytesOf(local[w].have \cup {local[w].range}), local[w].range)
    \/ RecordError(J(w), T(w))
    \/ pc[w] = "report" /\ RecordJobError(J(w), T(w))
    \/ \E f \in Files, bad \in BOOLEAN :
          /\ ResetFile(J(w), f, T(w), bad)
          /\ pc[w] \in FilePcs \cup {"forget"} /\ f = F(w)
    \/ \E f \in Files : /\ UpdateFile(J(w), f, T(w))
                        /\ pc[w] = "adopt" \/ (pc[w] = "update" /\ f = F(w))
    \/ MarkVerifying(J(w), T(w))
    \/ pc[w] = "finish" /\ Finish(J(w), T(w), "completed")
    \/ Finish(J(w), T(w), "failed")
    \/ /\ pc[w] = "settle" /\ local[w].seen = "cancel_requested"
       /\ Finish(J(w), T(w), "cancelled")
    \/ Release(J(w), T(w))
    \/ pc[w] = "schedule" /\ \E d \in BOOLEAN : ScheduleRetry(J(w), T(w), d)

LEMMA RunCalls ==
    ASSUME Shape, NEW w \in Workers, Working(w) => TypedRun(w), RunStep(w)
    PROVE  Calls(w)
  <1> USE DEF FilePcs
  <1>l. local[w].todo \subseteq Files
    BY DEF Shape, LocalType
  <1>f. pc[w] \in FilePcs \cup {"forget"} => F(w) \in Files
    BY <1>l DEF TypedRun, Working
  <1>1. CASE Register(w) \/ WorkerExits(w) \/ StoreFails(w) \/ Inventory(w) \/ Save(w)
             \/ ReadRows(w) \/ CheckDestination(w) \/ PrepareStaging(w)
    BY <1>1 DEF Register, WorkerExits, StoreFails, Inventory, Save, ReadRows,
                CheckDestination, PrepareStaging, Calls
  <1>2. CASE Adopt(w)
    <2>1. UNCHANGED vars \/ \E f \in local[w].todo : UpdateFile(J(w), f, T(w))
      BY <1>2 DEF Adopt, Fenced
    <2> QED
      BY <1>2, <2>1, <1>l DEF Adopt, Calls
  <1>3. CASE NextFile(w) \/ ResumeChunks(w)
    BY <1>3 DEF NextFile, ResumeChunks, Calls
  <1>4. CASE PrepareChunksOf(w) \/ CompleteFile(w)
    BY <1>4, <1>f DEF PrepareChunksOf, CompleteFile, Fenced, Calls
  <1>5. CASE Forget(w) \/ DiscardChunks(w)
    BY <1>5, <1>f DEF Forget, DiscardChunks, Fenced, Calls
  <1>6. CASE RecordChunk(w)
    BY <1>6 DEF RecordChunk, Fenced, Calls
  <1>7. CASE ResetCorrupt(w)
    <2>1. UNCHANGED vars \/ ResetFile(J(w), F(w), T(w), TRUE)
      BY <1>7 DEF ResetCorrupt
    <2> QED
      BY <1>7, <2>1, <1>f DEF ResetCorrupt, Calls
  <1>8. CASE TransferStep(w)
    <2>1. CASE OpenFile(w) \/ StopFetching(w) \/ FetchDone(w) \/ VerifyFile(w)
               \/ \E r \in Chunks(F(w)) : WriteRange(w, r) \/ SyncRange(w, r)
      BY <2>1 DEF OpenFile, StopFetching, FetchDone, VerifyFile, WriteRange, SyncRange, Calls
    <2>2. CASE RangeFails(w) \/ Mismatch(w)
      BY <2>2 DEF RangeFails, Mismatch, Fenced, Calls
    <2> QED
      BY <1>8, <2>1, <2>2, <1>3, <1>4, <1>5, <1>6, <1>7 DEF TransferStep
  <1>9. CASE Mark(w) \/ OpenSums(w) \/ WriteSums(w) \/ LastCheck(w) \/ Publish(w)
    BY <1>9 DEF Mark, OpenSums, WriteSums, LastCheck, Publish, Fenced, Calls
  <1>10. CASE FinishCompleted(w)
    BY <1>10 DEF FinishCompleted, Fenced, Calls
  <1>11. CASE ReadForHandler(w) \/ SettleCancelled(w) \/ SettleFailure(w) \/ Report(w)
    BY <1>11 DEF ReadForHandler, SettleCancelled, SettleFailure, Report, Closing, Calls
  <1>12. CASE SettleCancelRequested(w) \/ Schedule(w) \/ Fail(w)
    BY <1>12 DEF SettleCancelRequested, Schedule, Fail, Closing, Calls
  <1> QED
    BY <1>1, <1>2, <1>8, <1>9, <1>10, <1>11, <1>12 DEF RunStep

-----------------------------------------------------------------------------
(* What the store does to the job of a claim it was not called by.         *)

\* A token of j that was issued, or whose job is gone.
Rooted(j, t) == state[j] # "none" /\ (t <= runs[j] \/ state[j] = "dismissed")

\* If t is still the token of j after the step, the row is as it was, but for a
\* cancellation that was requested.
Intact(j, t) ==
    token'[j] = t =>
        /\ token[j] = t
        /\ state'[j] \in {state[j], "cancel_requested"}
        /\ runs'[j] = runs[j] /\ errors[j] \subseteq errors'[j]
        /\ fstate'[j] = fstate[j] /\ done'[j] = done[j] /\ layout'[j] = layout[j]
        /\ snapshot'[j] = snapshot[j]
        /\ model'[j] = model[j] /\ destination'[j] = destination[j]

LEMMA IntactSubmit ==
    ASSUME QueueInv, NEW i \in JobIds, Submit(i) \/ Tick(i),
           NEW j \in JobIds, NEW t \in Nat \ {0}, Rooted(j, t)
    PROVE  Intact(j, t)
  <1> USE DEF QueueInv, TypeOK, ClaimDiscipline, Rooted, Intact, Held, Running, Terminal
  <1>1. CASE \E m \in Models, d \in Destinations : EnqueueRequeues(i, m, d)
    BY <1>1 DEF EnqueueRequeues, identity, totals, rows
  <1>2. CASE \E m \in Models, d \in Destinations : EnqueueInserts(i, m, d)
    BY <1>2 DEF EnqueueInserts, claimVars, totals, rows
  <1>3. CASE Retry(i)
    BY <1>3 DEF Retry, Retryable, FreeClaim, identity, totals, rows
  <1>4. CASE RequestCancel(i)
    BY <1>4 DEF RequestCancel, identity, claimVars, totals, rows
  <1>5. CASE Dismiss(i)
    BY <1>5 DEF Dismiss
  <1>6. CASE Tick(i)
    BY <1>6 DEF Tick, LeaseExpires, RetryDue, identity, totals, rows
  <1> QED
    BY <1>1, <1>2, <1>3, <1>4, <1>5, <1>6 DEF Submit

LEMMA IntactPoll ==
    ASSUME QueueInv, Poll, NEW j \in JobIds, NEW t \in Nat \ {0}, Rooted(j, t)
    PROVE  Intact(j, t)
  <1> USE DEF QueueInv, TypeOK, Rooted, Intact
  <1>1. CASE ClaimNothing
    BY <1>1 DEF ClaimNothing, identity, totals, rows
  <1>2. ASSUME NEW k \in JobIds, Claim(k)
        PROVE  Intact(j, t)
    <2>1. j = k => token'[j] # t
      BY <1>2 DEF Claim, Oldest, Eligible, Lapsed, Held
    <2> QED
      BY <1>2, <2>1 DEF Claim, identity, totals, rows
  <1> QED
    BY <1>1, <1>2 DEF Poll

\* Calls for another job, or with another token of the same job.
LEMMA IntactOther ==
    ASSUME QueueInv, NEW i \in JobIds, NEW u, JobStep(i, u) \/ FileStep(i, u),
           NEW j \in JobIds, NEW t \in Nat \ {0}, i # j \/ u # t
    PROVE  Intact(j, t)
  <1>1. /\ Presents(i, u)
        /\ \A k \in JobIds : token'[k] \in {0, token[k]}
        /\ i # j => /\ state'[j] = state[j] /\ runs'[j] = runs[j] /\ errors'[j] = errors[j]
                    /\ fstate'[j] = fstate[j] /\ done'[j] = done[j]
                    /\ layout'[j] = layout[j] /\ snapshot'[j] = snapshot[j]
                    /\ model'[j] = model[j] /\ destination'[j] = destination[j]
    <2> USE DEF QueueInv, TypeOK, Owns
    <2>1. CASE Heartbeat(i, u) \/ RecordError(i, u) \/ RecordJobError(i, u)
      BY <2>1 DEF Heartbeat, RecordError, CanRecordError, RecordJobError, CanRecordJobError,
                  identity, claimVars, totals, rows
    <2>2. CASE SaveSnapshot(i, u) \/ MarkVerifying(i, u)
      BY <2>2 DEF SaveSnapshot, MarkVerifying, CanMarkVerifying, identity, claimVars, totals,
                  rows
    <2>3. CASE Release(i, u) \/ \E d \in BOOLEAN : ScheduleRetry(i, u, d)
      BY <2>3 DEF Release, ScheduleRetry, FreeClaim, identity, totals, rows
    <2>4. CASE Outcome(i, u)
      BY <2>4 DEF Outcome, Finish, CanFinish, FreeClaim, identity, totals, rows
    <2>5. CASE \E f \in Files, c \in ChunkSizes : PrepareChunks(i, f, u, c)
      BY <2>5 DEF PrepareChunks, identity, claimVars, totals
    <2>6. CASE \E f \in Files : Progress(i, f, u)
      BY <2>6 DEF Progress, RecordProgress, CanRecordProgress, identity, claimVars, totals
    <2>7. CASE \E f \in Files : UpdateFile(i, f, u) \/ \E bad \in BOOLEAN : ResetFile(i, f, u, bad)
      BY <2>7 DEF UpdateFile, ResetFile, CanReset, identity, claimVars, totals
    <2> QED
      BY <2>1, <2>2, <2>3, <2>4, <2>5, <2>6, <2>7 DEF JobStep, FileStep
  <1> QED
    BY <1>1 DEF Intact, Presents

\* Once issued, a token stays issued.
LEMMA RootedNext ==
    ASSUME QueueInv, [Next]_vars, NEW j \in JobIds, NEW t \in Nat \ {0}, Rooted(j, t)
    PROVE  Rooted(j, t)'
  <1> USE DEF QueueInv, TypeOK, Rooted
  <1>1. CASE UNCHANGED vars
    BY <1>1 DEF vars, claimVars
  <1>2. ASSUME NEW i \in JobIds, Submit(i) \/ Tick(i)
        PROVE  Rooted(j, t)'
    BY <1>2 DEF Submit, Tick, EnqueueRequeues, EnqueueInserts, Retry, Retryable, RequestCancel,
                Dismiss, LeaseExpires, RetryDue, claimVars, Terminal, Running, Held
  <1>3. CASE Poll
    <2>1. CASE ClaimNothing
      BY <2>1 DEF ClaimNothing, Reapable
    <2>2. ASSUME NEW k \in JobIds, Claim(k)
          PROVE  Rooted(j, t)'
      <3>1. state[k] # "dismissed" /\ Claimed(k) # "none"
        BY <2>2 DEF Claim, Claimed, Oldest, Eligible, Lapsed, Held
      <3> QED
        BY <2>2, <3>1 DEF Claim, Reapable
    <2> QED
      BY <1>3, <2>1, <2>2 DEF Poll
  <1>4. ASSUME NEW i \in JobIds, NEW u \in Issued(i), JobStep(i, u)
        PROVE  Rooted(j, t)'
    BY <1>4 DEF JobStep, Heartbeat, SaveSnapshot, RecordError, RecordJobError, ScheduleRetry,
                Release, MarkVerifying, CanMarkVerifying, Outcome, Finish, CanFinish, Owns,
                claimVars, Terminal, Held
  <1>5. ASSUME NEW i \in JobIds, NEW u \in Issued(i), FileStep(i, u)
        PROVE  Rooted(j, t)'
    BY <1>5 DEF FileStep, PrepareChunks, Progress, RecordProgress, ResetFile, UpdateFile,
                claimVars
  <1> QED
    BY <1>1, <1>2, <1>3, <1>4, <1>5 DEF Next

-----------------------------------------------------------------------------
(* What a run knows.                                                       *)

Current(w) == token[J(w)] = T(w)

\* What a worker whose claim is still the current one may rely on: a file it has yet
\* to transfer is not completed, a cancellation it has read is still requested, and
\* the failure it is about to retry is on record, unless it was cancelled.
PlanInv(w) ==
    /\ pc[w] \in PlanPcs =>
          \A f \in local[w].todo \ local[w].kept : fstate[J(w)][f] # "completed"
    /\ pc[w] \in FilePcs => fstate[J(w)][F(w)] # "completed"
    /\ pc[w] = "settle" /\ local[w].seen = "cancel_requested" =>
          state[J(w)] = "cancel_requested"
    /\ pc[w] = "schedule" =>
          state[J(w)] = "cancel_requested" \/ runs[J(w)] \in errors[J(w)]

RunInv(w) ==
    /\ TypedRun(w)
    /\ Rooted(J(w), T(w))
    /\ Current(w) => PlanInv(w)

\* A step of others that leaves the claim alone.
LEMMA Bystander ==
    ASSUME NEW w \in Workers, RunInv(w), Same(w), Intact(J(w), T(w)), Rooted(J(w), T(w))'
    PROVE  RunInv(w)'
  <1>1. /\ pc'[w] = pc[w] /\ J(w)' = J(w) /\ T(w)' = T(w) /\ F(w)' = F(w)
        /\ local'[w].kept = local[w].kept /\ local'[w].todo = local[w].todo
        /\ local'[w].have = local[w].have /\ local'[w].range = local[w].range
        /\ local'[w].seen = local[w].seen
    BY DEF Same, Core
  <1>2. TypedRun(w)'
    BY <1>1 DEF RunInv, TypedRun, Chunks
  <1>3. Rooted(J(w), T(w))' => (Rooted(J(w), T(w)))'
    OBVIOUS
  <1>4. ASSUME Current(w)'
        PROVE  PlanInv(w)'
    <2>1. token'[J(w)] = T(w)
      BY <1>1, <1>4 DEF Current
    <2>2. Current(w) /\ PlanInv(w)
      BY <2>1 DEF Intact, RunInv, Current
    <2>3. /\ state'[J(w)] \in {state[J(w)], "cancel_requested"}
          /\ runs'[J(w)] = runs[J(w)] /\ errors[J(w)] \subseteq errors'[J(w)]
          /\ fstate'[J(w)] = fstate[J(w)]
      BY <2>1 DEF Intact
    <2> QED
      BY <1>1, <2>2, <2>3 DEF PlanInv
  <1> QED
    BY <1>2, <1>4 DEF RunInv

LEMMA CallsToken ==
    ASSUME QueueInv, NEW w \in Workers, J(w) \in JobIds, Calls(w)
    PROVE  token'[J(w)] \in {0, token[J(w)]}
  BY DEF QueueInv, TypeOK, Calls, vars, SaveSnapshot, PrepareChunks, RecordProgress,
         RecordError, RecordJobError, ResetFile, UpdateFile, MarkVerifying, Finish, Release,
         ScheduleRetry, FreeClaim, claimVars

\* A step of the worker itself that makes no promise: it only has to keep its claim.
LEMMA NoPlan ==
    ASSUME NEW w \in Workers, TypedRun(w), J(w)' = J(w), T(w)' = T(w),
           Rooted(J(w), T(w))',
           pc'[w] \notin PlanPcs \cup {"settle", "schedule"}
    PROVE  RunInv(w)'
  BY DEF RunInv, TypedRun, PlanInv, PlanPcs, FilePcs

LEMMA NewPlan ==
    ASSUME NEW w \in Workers, TypedRun(w), J(w)' = J(w), T(w)' = T(w),
           Rooted(J(w), T(w))',
           pc'[w] \in PlanPcs,
           Current(w)' => \A f \in local'[w].todo \ local'[w].kept :
                              fstate'[J(w)][f] # "completed",
           pc'[w] \in FilePcs \cup {"forget"} =>
               F(w)' \in local'[w].todo /\ local'[w].have \subseteq Chunks(F(w)'),
           pc'[w] \in FilePcs => (Current(w)' => fstate'[J(w)][F(w)'] # "completed"),
           pc'[w] = "record" => local'[w].range \in Chunks(F(w)')
    PROVE  RunInv(w)'
  <1>1. TypedRun(w)'
    BY DEF TypedRun, Chunks
  <1>2. Current(w)' => PlanInv(w)'
    BY DEF PlanInv, PlanPcs, FilePcs
  <1> QED
    BY <1>1, <1>2 DEF RunInv

\* Before the transfer of a file.
LEMMA RunBefore ==
    ASSUME QueueInv, Shape, DoneTyped, NEW w \in Workers, Working(w), RunInv(w),
           OwnStep(w), Rooted(J(w), T(w))',
           ReadRows(w) \/ CheckDestination(w) \/ Adopt(w) \/ PrepareStaging(w),
           Working(w)'
    PROVE  RunInv(w)'
  <1> USE DEF RunInv
  <1>l. local[w] \in LocalType /\ w \in DOMAIN local
    BY DEF Shape
  <1>j. J(w)' = J(w) /\ T(w)' = T(w)
    BY DEF OwnStep, Working
  <1>h. CASE \E e : Raise(w, e)
    BY <1>h, <1>j, NoPlan DEF Raise, PlanPcs, FilePcs, Shape
  <1>1. CASE ReadRows(w) /\ ~ Raise(w, "permanent")
    <2>1. pc'[w] = "dest"
      BY <1>1 DEF ReadRows, Goto, Shape
    <2>2. local'[w].kept = Complete(fstate[J(w)]) /\ local'[w].todo = Files /\ UNCHANGED vars
      <3>1. /\ local' = [local EXCEPT ![w] =
                            [@ EXCEPT !.kept = Complete(fstate[J(w)]), !.todo = Files]]
            /\ UNCHANGED vars
        BY <1>1 DEF ReadRows
      <3> DEFINE done0 == Complete(fstate[J(w)])
      <3>2. local' = [local EXCEPT ![w] = [@ EXCEPT !.kept = done0, !.todo = Files]]
        BY <3>1
      <3> HIDE DEF done0
      <3>3. local'[w].kept = done0 /\ local'[w].todo = Files
        BY <1>l, <3>2 DEF LocalType
      <3> QED
        BY <3>1, <3>3 DEF done0
    <2>3. \A f \in local'[w].todo \ local'[w].kept : fstate'[J(w)][f] # "completed"
      BY <2>2 DEF Complete, vars, rows
    <2> QED
      BY <1>j, <2>1, <2>3, NewPlan DEF PlanPcs, FilePcs
  <1>2. CASE (CheckDestination(w) /\ ~ Raise(w, "permanent")) \/ PrepareStaging(w)
    <2>1. pc[w] \in PlanPcs /\ pc'[w] \in {"stage", "adopt", "next"}
      BY <1>2 DEF CheckDestination, PrepareStaging, Goto, Shape, PlanPcs
    <2>2. UNCHANGED local /\ UNCHANGED vars
      BY <1>2 DEF CheckDestination, PrepareStaging
    <2>3. Current(w)' => \A f \in local'[w].todo \ local'[w].kept : fstate'[J(w)][f] # "completed"
      BY <1>j, <2>1, <2>2 DEF PlanInv, Current, vars, claimVars, rows
    <2> QED
      BY <1>j, <2>1, <2>3, NewPlan DEF PlanPcs, FilePcs
  <1>3. CASE Adopt(w) /\ ~ Raise(w, "cancelled")
    <2>1. CASE Goto(w, "finish")
      BY <2>1, <1>j, NoPlan DEF Goto, Shape, PlanPcs, FilePcs
    <2>2. ASSUME NEW f \in local[w].todo, UpdateFile(J(w), f, T(w)), UNCHANGED pc,
                 local' = [local EXCEPT ![w].kept = @ \cup {f}]
          PROVE  RunInv(w)'
      <3>1. pc[w] = "adopt" /\ pc'[w] = "adopt"
        BY <1>3, <2>2 DEF Adopt
      <3>2. local'[w].kept = local[w].kept \cup {f} /\ local'[w].todo = local[w].todo
        BY <1>l, <2>2 DEF LocalType
      <3>3. Current(w) /\ \A g \in Files \ {f} : fstate'[J(w)][g] = fstate[J(w)][g]
        BY <2>2 DEF UpdateFile, Owns, Presents, Current, TypedRun, QueueInv, TypeOK
      <3>4. \A g \in local'[w].todo \ local'[w].kept : fstate'[J(w)][g] # "completed"
        BY <1>l, <3>1, <3>2, <3>3 DEF PlanInv, PlanPcs, LocalType
      <3> QED
        BY <1>j, <3>1, <3>4, NewPlan DEF PlanPcs, FilePcs
    <2> QED
      BY <1>3, <2>1, <2>2 DEF Adopt, Fenced
  <1> QED
    BY <1>h, <1>1, <1>2, <1>3

\* During the transfer of a file.
LEMMA RunNextFile ==
    ASSUME QueueInv, Shape, NEW w \in Workers, RunInv(w),
           OwnStep(w), Rooted(J(w), T(w))', NextFile(w), Working(w)'
    PROVE  RunInv(w)'
  <1> USE DEF RunInv
  <1>l. local[w] \in LocalType /\ w \in DOMAIN local
    BY DEF Shape
  <1>j. J(w)' = J(w) /\ T(w)' = T(w)
    BY DEF OwnStep, Working
  <1>p. pc[w] = "next" /\ pc[w] \in PlanPcs
    BY DEF NextFile, PlanPcs
  <1>v. UNCHANGED vars
    BY DEF NextFile
  <1>c. Current(w)' => /\ Current(w) /\ fstate' = fstate
                       /\ \A g \in local[w].todo \ local[w].kept : fstate[J(w)][g] # "completed"
    BY <1>j, <1>p, <1>v DEF PlanInv, Current, vars, claimVars, rows
  <1>1. CASE Goto(w, "mark")
    BY <1>1, <1>j, NoPlan DEF Goto, Shape, PlanPcs, FilePcs
  <1>2. ASSUME NEW f \in local[w].todo, NEW l \in {"chunks", "forget"}, Take(w, f, l),
               l = "chunks" => f \notin local[w].kept
        PROVE  RunInv(w)'
    <2>1. pc'[w] = l
      BY <1>2 DEF Take, Goto, Shape
    <2>2. /\ local'[w].file = f /\ local'[w].have = {}
          /\ local'[w].kept = local[w].kept /\ local'[w].todo = local[w].todo
      BY <1>2, <1>l DEF Take, LocalType
    <2>3. F(w)' = f
      BY <2>2 DEF F
    <2> QED
      BY <1>c, <1>j, <1>2, <2>1, <2>2, <2>3, NewPlan DEF PlanPcs, FilePcs
  <1>3. ASSUME NEW f \in local[w].todo, Skip(w, f)
        PROVE  RunInv(w)'
    <2>1. /\ local'[w].kept = local[w].kept /\ local'[w].todo = local[w].todo \ {f}
          /\ pc'[w] = "next"
      BY <1>3, <1>l, <1>p DEF Skip, LocalType
    <2>2. Current(w)' => \A g \in local'[w].todo \ local'[w].kept : fstate'[J(w)][g] # "completed"
      BY <1>c, <2>1
    <2> QED
      BY <1>j, <2>1, <2>2, NewPlan DEF PlanPcs, FilePcs
  <1> QED
    BY <1>1, <1>2, <1>3 DEF NextFile

LEMMA RunTransfer ==
    ASSUME QueueInv, Shape, DoneTyped, NEW w \in Workers, Working(w), RunInv(w),
           OwnStep(w), Rooted(J(w), T(w))', TransferStep(w), Working(w)'
    PROVE  RunInv(w)'
  <1> USE DEF RunInv
  <1>l. local[w] \in LocalType /\ w \in DOMAIN local
    BY DEF Shape
  <1>j. J(w)' = J(w) /\ T(w)' = T(w)
    BY DEF OwnStep, Working
  <1>f. pc[w] \in FilePcs \cup {"forget"} => F(w) \in Files
    BY <1>l DEF TypedRun, LocalType
  <1>h. CASE \E e : Raise(w, e)
    BY <1>h, <1>j, NoPlan DEF Raise, PlanPcs, FilePcs, Shape
  <1>1. CASE NextFile(w)
    BY <1>1, RunNextFile
  \* Steps that keep the plan and the file; `have` may grow, rows may be reset.
  <1>2. ASSUME pc[w] \in FilePcs, pc'[w] \in FilePcs, F(w)' = F(w),
               local'[w].todo = local[w].todo, local'[w].kept = local[w].kept,
               local'[w].have \subseteq Chunks(F(w)),
               pc'[w] = "record" => local'[w].range \in Chunks(F(w)),
               Current(w)' => /\ Current(w)
                              /\ \A g \in Files : \/ fstate'[J(w)][g] = fstate[J(w)][g]
                                                  \/ fstate'[J(w)][g] # "completed"
        PROVE  RunInv(w)'
    <2>1. Current(w)' => /\ \A g \in local'[w].todo \ local'[w].kept : fstate'[J(w)][g] # "completed"
                         /\ fstate'[J(w)][F(w)'] # "completed"
      BY <1>2, <1>f, <1>l DEF PlanInv, PlanPcs, LocalType
    <2>2. pc'[w] \in PlanPcs
      BY <1>2 DEF PlanPcs
    <2> QED
      BY <1>2, <1>j, <2>1, <2>2, NewPlan DEF TypedRun
  <1>v. ASSUME UNCHANGED vars
        PROVE  Current(w)' => /\ Current(w)
                              /\ \A g \in Files : fstate'[J(w)][g] = fstate[J(w)][g]
    BY <1>j, <1>v DEF Current, vars, claimVars, rows
  <1>3. CASE PrepareChunksOf(w) \/ VerifyFile(w) \/ Mismatch(w) \/ RangeFails(w)
    <2>1. \/ \E e : Raise(w, e)
          \/ /\ UNCHANGED local /\ pc[w] \in FilePcs /\ pc'[w] \in FilePcs \ {"record"}
             /\ fstate' = fstate /\ token' = token
          \/ Goto(w, "update")
      BY <1>3 DEF PrepareChunksOf, PrepareChunks, VerifyFile, Mismatch, RangeFails, Fenced,
                  RecordError, Goto, Shape, FilePcs, vars, rows, claimVars
    <2>2. Goto(w, "update") => /\ UNCHANGED local /\ pc[w] \in FilePcs /\ pc'[w] \in FilePcs \ {"record"}
                               /\ fstate' = fstate /\ token' = token
      BY <1>3 DEF PrepareChunksOf, VerifyFile, Mismatch, RangeFails, Fenced, Raise,
                  Goto, Shape, FilePcs, vars, rows, claimVars
    <2> QED
      BY <1>h, <1>2, <1>j, <2>1, <2>2 DEF Current, TypedRun, F
  <1>4. CASE ResumeChunks(w)
    <2>1. CASE Goto(w, "discard") /\ UNCHANGED local
      BY <1>2, <1>4, <1>v, <2>1 DEF ResumeChunks, Goto, Shape, FilePcs, TypedRun, F
    <2>2. CASE /\ Goto(w, "open")
               /\ local' = [local EXCEPT ![w].have = done[J(w)][F(w)]]
      <3>1. /\ local'[w].have = done[J(w)][F(w)] /\ local'[w].todo = local[w].todo
            /\ local'[w].kept = local[w].kept /\ F(w)' = F(w)
        BY <1>l, <2>2 DEF LocalType, F
      <3>2. done[J(w)][F(w)] \subseteq Chunks(F(w))
        BY <1>4, <1>f DEF ResumeChunks, FilePcs, DoneTyped, TypedRun
      <3> QED
        BY <1>2, <1>4, <1>v, <2>2, <3>1, <3>2 DEF ResumeChunks, Goto, Shape, FilePcs
    <2> QED
      BY <1>4, <2>1, <2>2 DEF ResumeChunks
  \* The two resets of a file that is not there or not right.
  <1>11. ASSUME ResetFile(J(w), F(w), T(w), FALSE), pc[w] \in FilePcs \cup {"forget"}
         PROVE  /\ Current(w) /\ fstate'[J(w)][F(w)] = "failed"
                /\ \A g \in Files \ {F(w)} : fstate'[J(w)][g] = fstate[J(w)][g]
    BY <1>11, <1>f DEF ResetFile, CanReset, Presents, Current, TypedRun, QueueInv, TypeOK
  <1>12. CASE DiscardChunks(w)
    <2>1. CASE Goto(w, "open") /\ UNCHANGED local /\ ResetFile(J(w), F(w), T(w), FALSE)
      <3>1. pc[w] \in FilePcs /\ pc'[w] \in FilePcs \ {"record"}
        BY <1>12, <2>1 DEF DiscardChunks, Goto, Shape, FilePcs
      <3>2. Current(w) /\ \A g \in Files : \/ fstate'[J(w)][g] = fstate[J(w)][g]
                                           \/ fstate'[J(w)][g] # "completed"
        BY <1>11, <2>1, <3>1
      <3> QED
        BY <1>2, <2>1, <3>1, <3>2 DEF TypedRun, F
    <2> QED
      BY <1>12, <1>h, <2>1 DEF DiscardChunks, Fenced
  <1>13. CASE Forget(w)
    <2>1. CASE Goto(w, "chunks") /\ UNCHANGED local /\ ResetFile(J(w), F(w), T(w), FALSE)
      <3>1. pc[w] = "forget" /\ pc'[w] = "chunks"
        BY <1>13, <2>1 DEF Forget, Goto, Shape
      <3>2. F(w)' = F(w) /\ local'[w] = local[w]
        BY <2>1 DEF F
      <3>3. F(w) \in local[w].todo /\ local[w].have \subseteq Chunks(F(w))
        BY <3>1 DEF TypedRun
      <3>4. /\ \A g \in local[w].todo \ local[w].kept : fstate'[J(w)][g] # "completed"
            /\ fstate'[J(w)][F(w)] # "completed"
        BY <1>11, <1>l, <2>1, <3>1 DEF PlanInv, PlanPcs, LocalType
      <3> QED
        BY <1>j, <3>1, <3>2, <3>3, <3>4, NewPlan DEF PlanPcs, FilePcs
    <2> QED
      BY <1>13, <1>h, <2>1 DEF Forget, Fenced
  <1>5. CASE OpenFile(w) \/ FetchDone(w)
    <2>1. CASE \E e : Raise(w, e)
      BY <2>1, <1>h
    <2>2. CASE \E o \in {"staging", "none"} : local' = [local EXCEPT ![w].open = o]
      <3>1. /\ local'[w].have = local[w].have /\ local'[w].todo = local[w].todo
            /\ local'[w].kept = local[w].kept /\ F(w)' = F(w)
        BY <1>l, <2>2 DEF LocalType, F
      <3>2. (pc[w] \in FilePcs /\ pc'[w] \in FilePcs \ {"record"}) \/ \E e : Raise(w, e)
        BY <1>5 DEF OpenFile, FetchDone, Goto, Shape, FilePcs
      <3> QED
        BY <1>2, <1>5, <1>h, <1>v, <3>1, <3>2 DEF OpenFile, FetchDone, TypedRun
    <2> QED
      BY <1>5, <2>1, <2>2 DEF OpenFile, FetchDone
  <1>6. ASSUME NEW r \in Chunks(F(w)), WriteRange(w, r)
        PROVE  RunInv(w)'
    <2>1. /\ local'[w].have = local[w].have /\ local'[w].todo = local[w].todo
          /\ local'[w].kept = local[w].kept /\ F(w)' = F(w) /\ local'[w].range = local[w].range
      BY <1>l, <1>6 DEF WriteRange, LocalType, F
    <2>2. pc' = pc /\ pc[w] \in FilePcs
      BY <1>6 DEF WriteRange, FilePcs
    <2> QED
      BY <1>2, <1>6, <1>v, <2>1, <2>2 DEF WriteRange, TypedRun
  <1>7. ASSUME NEW r \in Chunks(F(w)), SyncRange(w, r)
        PROVE  RunInv(w)'
    <2>1. /\ local'[w].have = local[w].have /\ local'[w].todo = local[w].todo
          /\ local'[w].kept = local[w].kept /\ F(w)' = F(w) /\ local'[w].range = r
      BY <1>l, <1>7 DEF SyncRange, LocalType, F
    <2>2. pc'[w] = "record" /\ pc[w] \in FilePcs /\ pc'[w] \in FilePcs
      BY <1>7 DEF SyncRange, FilePcs, Goto, Shape
    <2> QED
      BY <1>2, <1>7, <1>v, <2>1, <2>2 DEF SyncRange, TypedRun
  <1>8. CASE RecordChunk(w)
    <2>1. CASE Raise(w, "cancelled")
      BY <2>1, <1>h
    <2>2. CASE ~ Raise(w, "cancelled")
      <3> DEFINE r == local[w].range
      <3> DEFINE have == local[w].have \cup {r}
      <3>1. /\ RecordProgress(J(w), F(w), T(w), BytesOf(have), r) /\ Goto(w, "fetch")
            /\ local' = [local EXCEPT ![w] = [@ EXCEPT !.have = have,
                             !.wrote = local[w].wrote \ {r}, !.range = <<>>]]
        BY <1>8, <2>2 DEF RecordChunk, Fenced
      <3>2. /\ local'[w].have = have /\ local'[w].todo = local[w].todo
            /\ local'[w].kept = local[w].kept /\ F(w)' = F(w)
        BY <1>l, <3>1 DEF LocalType, F
      <3>3. have \subseteq Chunks(F(w)) /\ pc[w] \in FilePcs
        BY <1>8 DEF RecordChunk, FilePcs, TypedRun
      <3>4. pc'[w] = "fetch" /\ pc'[w] \in FilePcs
        BY <3>1 DEF Goto, Shape, FilePcs
      <3>5. Current(w) /\ \A g \in Files : \/ fstate'[J(w)][g] = fstate[J(w)][g]
                                           \/ fstate'[J(w)][g] # "completed"
        BY <3>1 DEF RecordProgress, CanRecordProgress, Presents, Current, TypedRun, QueueInv,
                    TypeOK
      <3> HIDE DEF have
      <3> QED
        BY <1>2, <3>2, <3>3, <3>4, <3>5
    <2> QED
      BY <2>1, <2>2
  <1>9. CASE StopFetching(w) \/ ResetCorrupt(w)
    BY <1>9, <1>h DEF StopFetching, ResetCorrupt
  <1>10. CASE CompleteFile(w)
    <2>1. CASE Raise(w, "cancelled")
      BY <2>1, <1>h
    <2>2. CASE ~ Raise(w, "cancelled")
      <3>1. /\ UpdateFile(J(w), F(w), T(w)) /\ Goto(w, "next") /\ pc[w] = "update"
            /\ local' = [local EXCEPT ![w] =
                            [@ EXCEPT !.todo = local[w].todo \ {F(w)}, !.file = "none",
                                      !.have = {}]]
        BY <1>10, <2>2 DEF CompleteFile, Fenced
      <3>2. local'[w].todo = local[w].todo \ {F(w)} /\ local'[w].kept = local[w].kept
        BY <1>l, <3>1 DEF LocalType
      <3>3. Current(w) /\ \A g \in Files \ {F(w)} : fstate'[J(w)][g] = fstate[J(w)][g]
        BY <3>1 DEF UpdateFile, Owns, Presents, Current, TypedRun, QueueInv, TypeOK
      <3>4. \A g \in local'[w].todo \ local'[w].kept : fstate'[J(w)][g] # "completed"
        BY <1>l, <3>1, <3>2, <3>3 DEF PlanInv, PlanPcs, FilePcs, LocalType
      <3>5. pc'[w] = "next"
        BY <3>1 DEF Goto, Shape
      <3> QED
        BY <1>j, <3>4, <3>5, NewPlan DEF PlanPcs, FilePcs
    <2> QED
      BY <2>1, <2>2
  <1> QED
    BY <1>1, <1>3, <1>4, <1>5, <1>6, <1>7, <1>8, <1>9, <1>10, <1>12, <1>13 DEF TransferStep

\* After the transfer, and in the handler.
LEMMA RunRest ==
    ASSUME QueueInv, Shape, NEW w \in Workers, Working(w), RunInv(w),
           OwnStep(w), Rooted(J(w), T(w))', Working(w)',
           \/ Register(w) \/ StoreFails(w) \/ Inventory(w) \/ Save(w)
           \/ Mark(w) \/ OpenSums(w) \/ WriteSums(w) \/ LastCheck(w) \/ Publish(w)
           \/ FinishCompleted(w)
           \/ ReadForHandler(w) \/ SettleCancelled(w) \/ SettleCancelRequested(w)
           \/ SettleFailure(w) \/ Report(w) \/ Schedule(w) \/ Fail(w)
    PROVE  RunInv(w)'
  <1> USE DEF RunInv
  <1>l. local[w] \in LocalType /\ w \in DOMAIN local
    BY DEF Shape
  <1>j. J(w)' = J(w) /\ T(w)' = T(w)
    BY DEF OwnStep, Working
  <1>h. CASE \E e : Raise(w, e)
    BY <1>h, <1>j, NoPlan DEF Raise, PlanPcs, FilePcs, Shape
  <1>1. ASSUME NEW l \in {"inventory", "rows", "save", "sums", "sums2", "check", "rename",
                          "finish", "report", "fail"}, Goto(w, l)
        PROVE  RunInv(w)'
    BY <1>1, <1>j, NoPlan DEF Goto, PlanPcs, FilePcs, Shape
  <1>2. ASSUME NEW l \in {"idle", "dead"}, Goto(w, l)
        PROVE  FALSE
    BY <1>2 DEF Goto, Shape, Working
  <1>3. CASE ReadForHandler(w)
    <2>1. CASE Goto(w, "settle") /\ local' = [local EXCEPT ![w].seen = state[J(w)]]
               /\ UNCHANGED vars
      <3>1. pc'[w] = "settle" /\ local'[w].seen = state[J(w)] /\ state' = state
        BY <1>l, <2>1 DEF Goto, Shape, LocalType, vars
      <3>2. TypedRun(w)'
        BY <1>j, <3>1 DEF TypedRun, FilePcs
      <3>3. PlanInv(w)'
        BY <1>j, <3>1 DEF PlanInv, PlanPcs, FilePcs
      <3> QED
        BY <3>2, <3>3
    <2> QED
      BY <1>2, <1>3, <2>1 DEF ReadForHandler, Leave
  <1>4. CASE Report(w)
    <2>1. CASE Goto(w, "schedule")
      <3>1. pc'[w] = "schedule"
        BY <2>1 DEF Goto, Shape
      <3>2. TypedRun(w)'
        BY <1>j, <3>1 DEF TypedRun, FilePcs
      <3>3. ASSUME Current(w)'
            PROVE  state'[J(w)] = "cancel_requested" \/ runs'[J(w)] \in errors'[J(w)]
        <4>1. token' = token /\ state' = state /\ runs' = runs
          BY <1>4 DEF Report, RecordJobError, vars, claimVars
        <4>2. Current(w) /\ T(w) # 0 /\ J(w) \in JobIds
          BY <1>j, <3>3, <4>1 DEF Current, TypedRun
        <4>3. state[J(w)] \in Held \cup {"cancel_requested"}
          BY <4>2 DEF QueueInv, ClaimDiscipline, Current
        <4>4. CASE state[J(w)] \in Held
          BY <1>4, <4>1, <4>2, <4>4 DEF Report, CanRecordJobError, RecordJobError, Owns,
                                        Presents, Current, QueueInv, TypeOK
        <4> QED
          BY <4>1, <4>3, <4>4
      <3>4. Current(w)' => PlanInv(w)'
        BY <1>j, <3>1, <3>3 DEF PlanInv, PlanPcs, FilePcs
      <3> QED
        BY <3>2, <3>4
    <2> QED
      BY <1>1, <1>4, <2>1 DEF Report
  <1>5. CASE Register(w) \/ StoreFails(w) \/ Inventory(w) \/ Save(w)
             \/ Mark(w) \/ OpenSums(w) \/ WriteSums(w) \/ LastCheck(w) \/ Publish(w)
    BY <1>5, <1>h, <1>1, <1>2 DEF Register, StoreFails, Inventory, Save, Mark, OpenSums,
                                  WriteSums, LastCheck, Publish, Fenced, Leave
  <1>6. CASE FinishCompleted(w) \/ SettleCancelled(w) \/ SettleCancelRequested(w)
             \/ SettleFailure(w) \/ Schedule(w) \/ Fail(w)
    BY <1>6, <1>h, <1>1, <1>2 DEF FinishCompleted, SettleCancelled, SettleCancelRequested,
                                  SettleFailure, Schedule, Fail, Fenced, Closing, End, Leave
  <1> QED
    BY <1>3, <1>4, <1>5, <1>6

LEMMA RunNext ==
    ASSUME QueueInv, Shape, DoneTyped, NEW w \in Workers, Working(w), RunInv(w),
           OwnStep(w), Rooted(J(w), T(w))', RunStep(w), Working(w)'
    PROVE  RunInv(w)'
  <1>1. ~ WorkerExits(w)
    BY DEF WorkerExits, Working
  <1> QED
    BY <1>1, RunBefore, RunTransfer, RunRest DEF RunStep

-----------------------------------------------------------------------------
(* Every call of a worker is a step of the queue.                          *)

LEMMA CallsAreSteps ==
    ASSUME QueueInv, Shape, NEW w \in Workers, RunInv(w), Calls(w)
    PROVE  \/ UNCHANGED vars
           \/ T(w) \in Issued(J(w)) /\ (JobStep(J(w), T(w)) \/ FileStep(J(w), T(w)))
  <1>j. J(w) \in JobIds /\ T(w) \in Nat \ {0}
    BY DEF RunInv, TypedRun
  <1>i. Current(w) => T(w) \in Issued(J(w))
    BY <1>j DEF QueueInv, TypeOK, ClaimDiscipline, Current, Issued
  <1>1. CASE SaveSnapshot(J(w), T(w)) \/ RecordError(J(w), T(w)) \/ RecordJobError(J(w), T(w))
             \/ MarkVerifying(J(w), T(w)) \/ Release(J(w), T(w))
             \/ \E d \in BOOLEAN : ScheduleRetry(J(w), T(w), d)
    BY <1>1, <1>i DEF JobStep, Current, SaveSnapshot, RecordError, CanRecordError,
                      RecordJobError, CanRecordJobError, MarkVerifying, CanMarkVerifying,
                      Release, ScheduleRetry, Owns, Presents
  <1>2. CASE F(w) \in Files /\ PrepareChunks(J(w), F(w), T(w), ChunkSize)
    BY <1>2, <1>i DEF FileStep, PrepareChunks, Owns, Presents, Current
  <1>3. CASE pc[w] = "record" /\ RecordProgress(J(w), F(w), T(w),
                 BytesOf(local[w].have \cup {local[w].range}), local[w].range)
    <2> DEFINE b == BytesOf(local[w].have \cup {local[w].range})
    <2>1. Current(w) /\ b \in 0 .. Size[F(w)]
      BY <1>3 DEF RecordProgress, CanRecordProgress, Presents, Current
    <2>2. fstate[J(w)][F(w)] # "completed" /\ local[w].range \in Ranges(Size[F(w)], ChunkSize)
      BY <1>3, <2>1 DEF RunInv, TypedRun, PlanInv, FilePcs, Chunks
    <2>3. F(w) \in Files
      <3>1. local[w].todo \subseteq Files
        BY DEF Shape, LocalType
      <3> QED
        BY <1>3, <3>1 DEF RunInv, TypedRun, FilePcs
    <2> HIDE DEF b
    <2> QED
      BY <1>3, <1>i, <2>1, <2>2, <2>3 DEF FileStep, Progress, b
  <1>4. CASE \E f \in Files, bad \in BOOLEAN : ResetFile(J(w), f, T(w), bad)
    BY <1>4, <1>i DEF FileStep, ResetFile, CanReset, Presents, Current
  <1>5. CASE \E f \in Files : UpdateFile(J(w), f, T(w))
    BY <1>5, <1>i DEF FileStep, UpdateFile, Owns, Presents, Current
  <1>6. CASE \E s \in {"completed", "failed"} : Finish(J(w), T(w), s)
    BY <1>6, <1>i DEF JobStep, Outcome, Terminal, Finish, CanFinish, Owns, Presents, Current
  <1>7. CASE /\ pc[w] = "settle" /\ local[w].seen = "cancel_requested"
             /\ Finish(J(w), T(w), "cancelled")
    <2>1. Current(w)
      BY <1>7 DEF Finish, CanFinish, Owns, Presents, Current
    <2>2. state[J(w)] = "cancel_requested"
      BY <1>7, <2>1 DEF RunInv, PlanInv
    <2> QED
      BY <1>7, <1>i, <2>1, <2>2 DEF JobStep, Outcome, Terminal
  <1> QED
    BY <1>1, <1>2, <1>3, <1>4, <1>5, <1>6, <1>7 DEF Calls

LEMMA RestingCalls ==
    ASSUME NEW w \in Workers, ~ Working(w), RunStep(w)
    PROVE  UNCHANGED vars
  BY DEF Working, RunStep, TransferStep, Register, WorkerExits, StoreFails, Inventory, Save,
         ReadRows, CheckDestination, Adopt, PrepareStaging, NextFile, Forget, PrepareChunksOf,
         ResumeChunks, DiscardChunks, OpenFile, StopFetching, RecordChunk, RangeFails, FetchDone, VerifyFile,
         Mismatch, ResetCorrupt, CompleteFile, Mark, OpenSums, WriteSums, LastCheck, Publish,
         FinishCompleted, ReadForHandler, SettleCancelled, SettleCancelRequested,
         SettleFailure, Report, Schedule, Fail

LEMMA RestingStays ==
    ASSUME Shape, NEW w \in Workers, RunStep(w), Working(w)'
    PROVE  Working(w)
  BY DEF Working, RunStep, TransferStep, Register, WorkerExits, StoreFails, Polls, StoreCalls,
         HandlerCalls, Inventory,
         Save, Goto, Shape,
         ReadRows, CheckDestination, Adopt, PrepareStaging, NextFile, Forget, PrepareChunksOf,
         ResumeChunks, DiscardChunks, OpenFile, StopFetching, RecordChunk, RangeFails, FetchDone, VerifyFile,
         Mismatch, ResetCorrupt, CompleteFile, Mark, OpenSums, WriteSums, LastCheck, Publish,
         FinishCompleted, ReadForHandler, SettleCancelled, SettleCancelRequested,
         SettleFailure, Report, Schedule, Fail

-----------------------------------------------------------------------------
(* Every step of the system, sorted by what it does to the workers.        *)

\* Nobody's program counter or local variables; the queue's users, time, a poll.
Apart ==
    /\ UNCHANGED <<pc, local>>
    /\ \/ UNCHANGED vars \/ ClaimNothing
       \/ \E j \in JobIds : Submit(j) \/ Tick(j)

\* The queue is untouched, and each worker goes on as it was or stops.
Outside ==
    /\ UNCHANGED vars
    /\ Shape'
    /\ \A w \in Workers : Same(w) \/ pc'[w] \in {"idle", "dead", "exited"}

Beats(w) == Working(w) /\ Heartbeat(J(w), T(w)) /\ UNCHANGED <<pc, local>>

LEMMA StoppedLocal ==
    ASSUME Shape, NEW w \in Workers, local' = [local EXCEPT ![w].stop = TRUE], UNCHANGED pc
    PROVE  Shape' /\ \A v \in Workers : Same(v)
  <1> DEFINE r == [local[w] EXCEPT !.stop = TRUE]
  <1>1. local[w] \in LocalType
    BY DEF Shape
  <1>2. r \in LocalType
    BY <1>1 DEF LocalType
  <1>6. /\ r.job = J(w) /\ r.tok = T(w) /\ r.dest = D(w) /\ r.model = local[w].model
        /\ r.kept = local[w].kept /\ r.todo = local[w].todo /\ r.file = F(w)
        /\ r.have = local[w].have /\ r.wrote = local[w].wrote /\ r.range = local[w].range
        /\ r.exc = local[w].exc /\ r.seen = local[w].seen
    BY <1>1 DEF LocalType, J, T, D, F
  <1>3. local' = [local EXCEPT ![w] = r]
    OBVIOUS
  <1>5. PICK l \in Labels : pc' = [pc EXCEPT ![w] = l] /\ l = pc[w]
    BY DEF Shape
  <1> HIDE DEF r
  <1>4. Shape' /\ (\A v \in Workers \ {w} : Same(v)) /\ local'[w] = r
    BY <1>2, <1>3, <1>5, Assigned
  <1> QED
    BY <1>4, <1>6 DEF Same, Core, J, T, D, F

LEMMA ClosedLocal ==
    ASSUME Shape, UNCHANGED pc,
           local' = [w \in Workers |-> [local[w] EXCEPT !.shutdown = local[w].registered]]
    PROVE  Shape' /\ \A v \in Workers : Same(v)
  <1>1. ASSUME NEW v \in Workers
        PROVE  local'[v] \in LocalType /\ Same(v)
    <2>1. local[v] \in LocalType
      BY DEF Shape
    <2>2. local'[v] = [local[v] EXCEPT !.shutdown = local[v].registered]
      OBVIOUS
    <2>3. local'[v] \in LocalType
      BY <2>1, <2>2 DEF LocalType
    <2>4. Core(v)' = Core(v)
      BY <2>1, <2>2 DEF LocalType, Core, J, T, D, F
    <2> QED
      BY <2>3, <2>4 DEF Same
  <1>2. local' \in [Workers -> LocalType]
    BY <1>1
  <1> QED
    BY <1>1, <1>2 DEF Shape

LEMMA Kinds ==
    ASSUME Shape, [PullNext]_pullVars
    PROVE  \/ Apart \/ Outside
           \/ \E w \in Workers : \/ Beats(w) \/ RunStep(w)
                                 \/ \E k \in JobIds : WorkerClaims(w, k)
  <1>1. CASE UNCHANGED pullVars
    BY <1>1 DEF pullVars, Apart
  <1>2. ASSUME NEW w \in Workers, WorkerPoll(w) \/ WorkerStep(w)
        PROVE  Apart \/ RunStep(w) \/ \E k \in JobIds : WorkerClaims(w, k)
    BY <1>2 DEF WorkerPoll, WorkerFindsNothing, WorkerStep, Apart
  <1>a. AllDown /\ UNCHANGED vars => Outside
    BY IdleTyped DEF AllDown, Outside, Shape, Labels
  <1>3. ASSUME NEW w \in Workers, Crash(w)
        PROVE  Outside
    BY <1>3, <1>a, Left DEF Crash, End, Outside
  <1>4. ASSUME NEW w \in Workers, HeartbeatTask(w)
        PROVE  Outside \/ Beats(w)
    BY <1>4, StoppedLocal DEF HeartbeatTask, Outside, Beats
  <1>5. ASSUME NEW j \in JobIds, UserStep(j) \/ LeaseRunsOut(j) \/ BackoffElapses(j)
        PROVE  Apart
    BY <1>5 DEF UserStep, LeaseRunsOut, BackoffElapses, Apart, Submit, Tick
  <1>6. ASSUME NEW j \in JobIds, NEW f \in Files, LoseCopy(j, f)
        PROVE  Apart
    BY <1>6 DEF LoseCopy, Apart
  <1>7. ASSUME NEW d \in Destinations, RenameSettles(d)
        PROVE  Apart
    BY <1>7 DEF RenameSettles, Apart
  <1>8. CASE Close
    BY <1>8, ClosedLocal DEF Close, Outside
  <1>9. CASE CloseReturns
    BY <1>9 DEF CloseReturns, Outside, Shape, Labels
  <1>10. CASE PowerLoss \/ \E d \in Destinations : LoseRename(d)
    BY <1>10, <1>a DEF PowerLoss, LoseRename
  <1> QED
    BY <1>1, <1>2, <1>3, <1>4, <1>5, <1>6, <1>7, <1>8, <1>9, <1>10 DEF PullNext, Around

\* Two runs of one job hold different tokens.
OneRun ==
    \A v, w \in Workers :
        v # w /\ Working(v) /\ Working(w) /\ J(v) = J(w) => T(v) # T(w)

PullInv ==
    /\ QueueInv
    /\ Shape
    /\ DoneTyped
    /\ \A w \in Workers : Working(w) => RunInv(w)
    /\ OneRun
    /\ RetryIsExplained

\* A step of the system is a step of the queue, or does not touch it.
LEMMA StepIsQueueStep ==
    ASSUME PullInv, [PullNext]_pullVars
    PROVE  [Next]_vars
  <1>1. CASE Apart
    BY <1>1 DEF Apart, Next, Poll
  <1>2. CASE Outside
    BY <1>2 DEF Outside
  <1>3. ASSUME NEW w \in Workers, Beats(w)
        PROVE  Next
    <2>1. J(w) \in JobIds /\ T(w) \in Issued(J(w))
      BY <1>3 DEF Beats, PullInv, RunInv, TypedRun, Heartbeat, Owns, Presents, QueueInv,
                  TypeOK, ClaimDiscipline, Issued
    <2> QED
      BY <1>3, <2>1 DEF Beats, Next, JobStep
  <1>4. ASSUME NEW w \in Workers, RunStep(w)
        PROVE  [Next]_vars
    <2>1. CASE ~ Working(w)
      BY <1>4, <2>1, RestingCalls
    <2>2. CASE Working(w)
      <3>1. RunInv(w) /\ Calls(w)
        BY <1>4, <2>2, RunCalls DEF PullInv, RunInv
      <3> QED
        BY <3>1, CallsAreSteps DEF PullInv, RunInv, TypedRun, Next
    <2> QED
      BY <2>1, <2>2
  <1>5. ASSUME NEW w \in Workers, NEW k \in JobIds, WorkerClaims(w, k)
        PROVE  Next
    BY <1>5 DEF WorkerClaims, Next, Poll
  <1> QED
    BY <1>1, <1>2, <1>3, <1>4, <1>5, Kinds DEF PullInv

-----------------------------------------------------------------------------
(* The invariant of the runs.                                              *)

\* How a run of another worker is left alone.
LEMMA IntactStep ==
    ASSUME PullInv, [PullNext]_pullVars, NEW v \in Workers, Working(v),
           ~ RunStep(v)
    PROVE  Intact(J(v), T(v))
  <1>r. RunInv(v) /\ J(v) \in JobIds /\ T(v) \in Nat \ {0} /\ Rooted(J(v), T(v)) /\ QueueInv
    BY DEF PullInv, RunInv, TypedRun
  <1>u. UNCHANGED vars => Intact(J(v), T(v))
    BY DEF Intact, vars, identity, claimVars, rows
  <1>1. CASE Apart
    BY <1>1, <1>r, <1>u, IntactSubmit, IntactPoll DEF Apart, Poll
  <1>2. CASE Outside
    BY <1>2, <1>u DEF Outside
  <1>3. ASSUME NEW w \in Workers, Beats(w)
        PROVE  Intact(J(v), T(v))
    BY <1>3, <1>r DEF Beats, Heartbeat, Intact, identity, rows
  <1>4. ASSUME NEW w \in Workers, RunStep(w)
        PROVE  Intact(J(v), T(v))
    <2>1. CASE ~ Working(w)
      BY <1>4, <1>u, <2>1, RestingCalls
    <2>2. CASE Working(w)
      <3>1. RunInv(w) /\ J(w) \in JobIds /\ Calls(w)
        BY <1>4, <2>2, RunCalls DEF PullInv, RunInv, TypedRun
      <3>2. w # v
        BY <1>4
      <3>3. J(w) # J(v) \/ T(w) # T(v)
        BY <2>2, <3>2 DEF PullInv, OneRun
      <3>4. \/ UNCHANGED vars
            \/ JobStep(J(w), T(w)) \/ FileStep(J(w), T(w))
        BY <3>1, CallsAreSteps DEF PullInv
      <3> QED
        BY <1>r, <1>u, <3>1, <3>3, <3>4, IntactOther
    <2> QED
      BY <2>1, <2>2
  <1>5. ASSUME NEW w \in Workers, NEW k \in JobIds, WorkerClaims(w, k)
        PROVE  Intact(J(v), T(v))
    BY <1>5, <1>r, IntactPoll DEF WorkerClaims, Poll
  <1> QED
    BY <1>1, <1>2, <1>3, <1>4, <1>5, Kinds DEF PullInv

LEMMA StartTyped ==
    ASSUME TypeOK, NEW k \in JobIds, Claim(k)
    PROVE  Start(k) \in LocalType /\ Start(k).job = k /\ Start(k).tok = token'[k]
           /\ Start(k).model = model[k] /\ Start(k).dest = destination[k]
  <1>1. token'[k] \in Nat /\ model[k] \in Models \cup {"none"}
        /\ destination[k] \in Destinations \cup {"none"}
    BY DEF Claim, TypeOK
  <1> QED
    BY <1>1 DEF Start, Idle, LocalType, NoRow

\* A claim starts a run under a token that no other run of the job has.
LEMMA ClaimStarts ==
    ASSUME PullInv, NEW w \in Workers, NEW k \in JobIds, WorkerClaims(w, k)
    PROVE  /\ Shape' /\ \A v \in Workers \ {w} : Same(v)
           /\ J(w)' = k /\ pc'[w] = "claimed"
           /\ RunInv(w)'
           /\ \A v \in Workers \ {w} : Working(v) /\ J(v) = k => T(v) # T(w)'
  <1>t. Shape /\ TypeOK /\ QueueInv
    BY DEF PullInv, QueueInv
  <1>1. Claim(k) /\ pc' = [pc EXCEPT ![w] = "claimed"] /\ local' = [local EXCEPT ![w] = Start(k)]
    BY DEF WorkerClaims, Goto
  <1>2. Start(k) \in LocalType /\ "claimed" \in Labels
    BY <1>t, <1>1, StartTyped DEF Labels
  <1>3. /\ Shape' /\ \A v \in Workers \ {w} : Same(v)
        /\ local'[w] = Start(k) /\ pc'[w] = "claimed"
    BY <1>t, <1>1, <1>2, Assigned
  <1>4. J(w)' = k /\ T(w)' = token'[k]
    BY <1>t, <1>1, <1>3, StartTyped DEF J, T
  <1>5. token'[k] = runs[k] + 1 /\ runs'[k] = runs[k] + 1 /\ runs[k] \in Nat /\ state'[k] # "none"
    BY <1>t, <1>1 DEF Claim, Claimed, TypeOK
  <1>6. TypedRun(w)'
    BY <1>3, <1>4, <1>5 DEF TypedRun, FilePcs
  <1>7. (Rooted(J(w), T(w)))'
    BY <1>4, <1>5 DEF Rooted
  <1>8. PlanInv(w)'
    BY <1>3 DEF PlanInv, PlanPcs, FilePcs
  <1>9. ASSUME NEW v \in Workers \ {w}, Working(v), J(v) = k
        PROVE  T(v) # T(w)'
    <2>1. Rooted(k, T(v)) /\ T(v) \in Nat
      BY <1>9 DEF PullInv, RunInv, TypedRun
    <2>2. state[k] # "dismissed"
      BY <1>1 DEF Claim, Oldest, Eligible, Lapsed, Held
    <2> QED
      BY <1>4, <1>5, <2>1, <2>2 DEF Rooted
  <1> QED
    BY <1>3, <1>4, <1>6, <1>7, <1>8, <1>9 DEF RunInv

LEMMA RunsNext ==
    ASSUME PullInv, [PullNext]_pullVars
    PROVE  /\ Shape'
           /\ \A w \in Workers : Working(w)' => RunInv(w)'
           /\ OneRun'
  <1>q. [Next]_vars /\ QueueInv /\ Shape /\ DoneTyped /\ TypeOK
    BY StepIsQueueStep DEF PullInv, QueueInv
  <1>r. ASSUME NEW v \in Workers, Working(v)
        PROVE  /\ RunInv(v) /\ TypedRun(v)
               /\ J(v)' = J(v) /\ T(v)' = T(v) => Rooted(J(v), T(v))'
    <2>1. RunInv(v) /\ TypedRun(v) /\ Rooted(J(v), T(v)) /\ J(v) \in JobIds /\ T(v) \in Nat \ {0}
      BY <1>r DEF PullInv, RunInv, TypedRun
    <2>2. ASSUME NEW j \in JobIds, NEW t \in Nat \ {0}, Rooted(j, t)
          PROVE  /\ state'[j] # "none"
                 /\ t <= runs'[j] \/ state'[j] = "dismissed"
      BY <1>q, <2>2, RootedNext DEF Rooted
    <2> QED
      BY <2>1, <2>2 DEF Rooted
  <1>b. ASSUME NEW v \in Workers, Same(v), Working(v)', ~ RunStep(v)
        PROVE  RunInv(v)' /\ Working(v) /\ J(v)' = J(v) /\ T(v)' = T(v)
    <2>1. Working(v) /\ J(v)' = J(v) /\ T(v)' = T(v)
      BY <1>b DEF Same, Core, Working
    <2> QED
      BY <1>b, <1>r, <2>1, IntactStep, Bystander
  <1>1. CASE \E w \in Workers : RunStep(w)
    <2> PICK w \in Workers : RunStep(w)
      BY <1>1
    <2>1. OwnStep(w)
      BY <1>q, <1>r, RunShape
    <2>2. ASSUME Working(w)'
          PROVE  Working(w) /\ J(w)' = J(w) /\ T(w)' = T(w) /\ RunInv(w)'
      <3>1. J(w)' = J(w) /\ T(w)' = T(w)
        BY <2>1, <2>2 DEF OwnStep, Working
      <3>2. Working(w)
        BY <1>q, <2>2, RestingStays
      <3> QED
        BY <1>q, <1>r, <2>1, <2>2, <3>1, <3>2, RunNext
    <2>3. ASSUME NEW v \in Workers \ {w}, Working(v)'
          PROVE  Working(v) /\ J(v)' = J(v) /\ T(v)' = T(v) /\ RunInv(v)'
      <3>1. Same(v)
        BY <2>1 DEF OwnStep
      <3>2. CASE ~ RunStep(v)
        BY <1>b, <2>3, <3>1, <3>2
      <3>3. CASE RunStep(v)
        <4>1. OwnStep(v)
          BY <1>q, <1>r, <3>3, RunShape
        <4>2. J(v)' = J(v) /\ T(v)' = T(v)
          BY <2>3, <4>1 DEF OwnStep, Working
        <4>3. Working(v)
          BY <1>q, <2>3, <3>3, RestingStays
        <4> QED
          BY <1>q, <1>r, <2>3, <3>3, <4>1, <4>2, <4>3, RunNext
      <3> QED
        BY <3>2, <3>3
    <2>4. Shape'
      BY <2>1 DEF OwnStep
    <2>5. \A v \in Workers : Working(v)' => /\ Working(v) /\ J(v)' = J(v) /\ T(v)' = T(v)
                                            /\ RunInv(v)'
      BY <2>2, <2>3
    <2> QED
      BY <2>4, <2>5 DEF PullInv, OneRun
  <1>2. CASE /\ ~ \E w \in Workers : RunStep(w)
             /\ Shape' /\ \A w \in Workers : Same(w) \/ pc'[w] \in {"idle", "dead", "exited"}
    <2>1. \A v \in Workers : Working(v)' => /\ Working(v) /\ J(v)' = J(v) /\ T(v)' = T(v)
                                            /\ RunInv(v)'
      BY <1>2, <1>b DEF Working
    <2> QED
      BY <1>2, <2>1 DEF PullInv, OneRun
  <1>3. ASSUME NEW w \in Workers, NEW k \in JobIds, WorkerClaims(w, k),
               ~ \E u \in Workers : RunStep(u)
        PROVE  /\ Shape'
               /\ \A v \in Workers : Working(v)' => RunInv(v)'
               /\ OneRun'
    <2>1. /\ Shape' /\ \A v \in Workers \ {w} : Same(v)
          /\ J(w)' = k /\ pc'[w] = "claimed"
          /\ RunInv(w)'
          /\ \A v \in Workers \ {w} : Working(v) /\ J(v) = k => T(v) # T(w)'
      BY <1>3, ClaimStarts
    <2>2. \A v \in Workers \ {w} : Working(v)' => /\ Working(v) /\ J(v)' = J(v) /\ T(v)' = T(v)
                                                  /\ RunInv(v)'
      BY <1>3, <2>1, <1>b
    <2>3. OneRun'
      BY <2>1, <2>2 DEF PullInv, OneRun
    <2> QED
      BY <2>1, <2>2, <2>3
  <1>4. (Apart \/ \E w \in Workers : Beats(w)) =>
           Shape' /\ \A w \in Workers : Same(w)
    BY <1>q DEF Apart, Beats, Shape, Same, Core, J, T, D, F
  <1> QED
    BY <1>q, <1>1, <1>2, <1>3, <1>4, Kinds DEF Outside

\* Only record_progress adds a range to those recorded for a file, under the claim of a
\* worker that is at that call.
Records(w, j, f) ==
    /\ Working(w) /\ pc[w] = "record" /\ J(w) = j /\ F(w) = f
    /\ done'[j][f] \subseteq done[j][f] \cup {local[w].range}

LEMMA DoneStep ==
    ASSUME PullInv, [PullNext]_pullVars, NEW j \in JobIds, NEW f \in Files
    PROVE  \/ done'[j][f] \subseteq done[j][f]
           \/ \E w \in Workers : Records(w, j, f)
  <1>q. QueueInv /\ TypeOK /\ DoneTyped /\ Shape
    BY DEF PullInv, QueueInv
  <1> DEFINE Fewer == done'[j][f] \in {{}, done[j][f]}
  <1>k. Fewer => done'[j][f] \subseteq done[j][f]
    OBVIOUS
  <1>v. UNCHANGED vars => Fewer
    BY DEF vars, rows
  <1>1. CASE Apart
    <2>1. CASE ClaimNothing
      BY <2>1, <1>k DEF ClaimNothing, rows
    <2>2. ASSUME NEW i \in JobIds, Submit(i) \/ Tick(i)
          PROVE  done'[j][f] \subseteq done[j][f]
      <3>1. done'[j] \in {NoFiles({}), done[j]}
        BY <1>q, <2>2 DEF Submit, Tick, EnqueueRequeues, EnqueueInserts, Retry, RequestCancel,
                          Dismiss, LeaseExpires, RetryDue, rows, TypeOK
      <3> QED
        BY <1>k, <3>1 DEF NoFiles
    <2> QED
      BY <1>1, <1>k, <1>v, <2>1, <2>2 DEF Apart
  <1>2. CASE Outside
    BY <1>2, <1>k, <1>v DEF Outside
  <1>3. ASSUME NEW w \in Workers, Beats(w)
        PROVE  Fewer
    BY <1>3, <1>k DEF Beats, Heartbeat, rows
  <1>4. ASSUME NEW w \in Workers, RunStep(w)
        PROVE  Fewer \/ Records(w, j, f)
    <2>1. CASE ~ Working(w)
      BY <1>4, <1>v, <2>1, RestingCalls
    <2>2. CASE Working(w)
      <3>1. RunInv(w) /\ TypedRun(w) /\ J(w) \in JobIds /\ Calls(w)
        BY <1>4, <2>2, <1>q, RunCalls DEF PullInv, RunInv, TypedRun
      <3>2. CASE pc[w] = "record" /\ RecordProgress(J(w), F(w), T(w),
                     BytesOf(local[w].have \cup {local[w].range}), local[w].range)
        <4>1. \/ done'[j][f] = done[j][f]
              \/ J(w) = j /\ f = F(w) /\ done'[j][f] \subseteq done[j][f] \cup {local[w].range}
          BY <1>q, <3>1, <3>2 DEF RecordProgress, TypeOK
        <4> QED
          BY <2>2, <3>2, <4>1 DEF Records
      <3>3. CASE SaveSnapshot(J(w), T(w))
        BY <1>q, <3>1, <3>3 DEF SaveSnapshot, NoFiles, TypeOK
      <3>4. CASE \E g \in Files, bad \in BOOLEAN : ResetFile(J(w), g, T(w), bad)
        BY <1>q, <3>1, <3>4 DEF ResetFile, TypeOK
      <3>5. CASE done' = done
        BY <3>5
      <3> QED
        BY <3>1, <3>2, <3>3, <3>4, <3>5 DEF Calls, PrepareChunks, RecordError, RecordJobError,
           UpdateFile, MarkVerifying, Finish, Release, ScheduleRetry, vars, rows
    <2> QED
      BY <2>1, <2>2
  <1>5. ASSUME NEW w \in Workers, NEW k \in JobIds, WorkerClaims(w, k)
        PROVE  Fewer
    BY <1>5 DEF WorkerClaims, Claim, rows
  <1> QED
    BY <1>q, <1>k, <1>1, <1>2, <1>3, <1>4, <1>5, Kinds

\* A recorded range is one that prepare_chunks could have made a row for.
LEMMA DoneNext ==
    ASSUME PullInv, [PullNext]_pullVars
    PROVE  DoneTyped'
  <1> SUFFICES ASSUME NEW j \in JobIds, NEW f \in Files
               PROVE  done'[j][f] \subseteq Chunks(f)
    BY DEF DoneTyped, Chunks
  <1>1. done[j][f] \subseteq Chunks(f)
    BY DEF PullInv, DoneTyped
  <1>2. ASSUME NEW w \in Workers, Records(w, j, f)
        PROVE  local[w].range \in Chunks(f)
    BY <1>2 DEF Records, PullInv, RunInv, TypedRun
  <1> QED
    BY <1>1, <1>2, DoneStep DEF Records

\* Only a worker that saw its failure recorded schedules a retry.
LEMMA RetryNext ==
    ASSUME PullInv, [PullNext]_pullVars
    PROVE  RetryIsExplained'
  <1>q. QueueInv /\ TypeOK /\ Shape /\ RetryIsExplained
    BY DEF PullInv, QueueInv
  <1> DEFINE Kept == \A j \in JobIds : state'[j] = "retry_wait" =>
                        /\ state[j] = "retry_wait"
                        /\ runs'[j] = runs[j] /\ errors[j] \subseteq errors'[j]
  <1>k. Kept => RetryIsExplained'
    BY <1>q DEF RetryIsExplained
  <1>v. UNCHANGED vars => Kept
    BY DEF vars, claimVars
  <1>1. CASE Apart
    <2>1. CASE ClaimNothing
      <3>1. runs' = runs /\ errors' = errors
        BY <2>1 DEF ClaimNothing
      <3>2. \A j \in JobIds : state'[j] \in {"cancelled", state[j]}
        BY <2>1 DEF ClaimNothing
      <3> QED
        BY <1>k, <3>1, <3>2
    <2>2. ASSUME NEW i \in JobIds, Submit(i) \/ Tick(i)
          PROVE  Kept
      BY <1>q, <2>2 DEF Submit, Tick, EnqueueRequeues, EnqueueInserts, Retry, RequestCancel,
                        Dismiss, LeaseExpires, RetryDue, claimVars, TypeOK
    <2> QED
      BY <1>1, <1>k, <1>v, <2>1, <2>2 DEF Apart
  <1>2. CASE Outside
    BY <1>2, <1>k, <1>v DEF Outside
  <1>3. ASSUME NEW w \in Workers, Beats(w)
        PROVE  RetryIsExplained'
    BY <1>3, <1>k DEF Beats, Heartbeat
  <1>4. ASSUME NEW w \in Workers, RunStep(w)
        PROVE  RetryIsExplained'
    <2>1. CASE ~ Working(w)
      BY <1>4, <1>k, <1>v, <2>1, RestingCalls
    <2>2. CASE Working(w)
      <3>1. RunInv(w) /\ TypedRun(w) /\ J(w) \in JobIds /\ Calls(w)
        BY <1>4, <2>2, RunCalls DEF PullInv, RunInv, TypedRun
      <3>2. CASE pc[w] = "schedule" /\ \E d \in BOOLEAN : ScheduleRetry(J(w), T(w), d)
        <4>1. Current(w) /\ state[J(w)] \in Held
          BY <3>2 DEF ScheduleRetry, Owns, Presents, Current
        <4>2. runs[J(w)] \in errors[J(w)]
          BY <3>1, <3>2, <4>1 DEF RunInv, PlanInv, Held
        <4>3. /\ \A j \in JobIds \ {J(w)} : state'[j] = state[j]
              /\ runs' = runs /\ errors' = errors
          BY <1>q, <3>2 DEF ScheduleRetry, TypeOK
        <4> QED
          BY <1>q, <4>2, <4>3 DEF RetryIsExplained
      <3>3. CASE SaveSnapshot(J(w), T(w)) \/ MarkVerifying(J(w), T(w)) \/ Release(J(w), T(w))
                 \/ \E s \in {"completed", "failed", "cancelled"} : Finish(J(w), T(w), s)
        BY <1>k, <1>q, <3>3 DEF SaveSnapshot, MarkVerifying, Release, Finish, claimVars, TypeOK
      <3>4. CASE RecordError(J(w), T(w)) \/ RecordJobError(J(w), T(w))
        <4>1. state' = state /\ runs' = runs
          BY <3>4 DEF RecordError, RecordJobError, claimVars
        <4>2. \A j \in JobIds : errors[j] \subseteq errors'[j]
          <5>1. errors' = [errors EXCEPT ![J(w)] = errors[J(w)] \cup {runs[J(w)]}]
            BY <3>4 DEF RecordError, RecordJobError
          <5> QED
            BY <1>q, <5>1 DEF TypeOK
        <4> QED
          BY <1>k, <4>1, <4>2
      <3>5. CASE state' = state /\ runs' = runs /\ errors' = errors
        BY <1>k, <3>5
      <3> QED
        BY <3>1, <3>2, <3>3, <3>4, <3>5 DEF Calls, PrepareChunks, RecordProgress, ResetFile,
           UpdateFile, vars, claimVars
    <2> QED
      BY <2>1, <2>2
  <1>5. ASSUME NEW w \in Workers, NEW k \in JobIds, WorkerClaims(w, k)
        PROVE  RetryIsExplained'
    BY <1>5, <1>k, <1>q DEF WorkerClaims, Claim, Claimed, TypeOK
  <1> QED
    BY <1>1, <1>2, <1>3, <1>4, <1>5, Kinds DEF PullInv

LEMMA PullInvInit == PullInit => PullInv
  <1> SUFFICES ASSUME PullInit
               PROVE  PullInv
    OBVIOUS
  <1>1. QueueInv
    BY QueueInvInit DEF PullInit
  <1>2. Shape
    BY IdleTyped DEF PullInit, Shape, Labels
  <1>3. DoneTyped
    BY DEF PullInit, Init, DoneTyped, NoFiles
  <1>4. \A w \in Workers : ~ Working(w)
    BY DEF PullInit, Working
  <1>5. RetryIsExplained
    BY DEF PullInit, Init, RetryIsExplained
  <1> QED
    BY <1>1, <1>2, <1>3, <1>4, <1>5 DEF PullInv, OneRun

LEMMA PullInvNext == PullInv /\ [PullNext]_pullVars => PullInv'
  BY StepIsQueueStep, QueueInvNext, RunsNext, DoneNext, RetryNext DEF PullInv

\* What every run knows of its row, and which tokens the runs of a job hold.
THEOREM PullInvariant == PullSpec => []PullInv
  BY PullInvInit, PullInvNext, PTL DEF PullSpec

\* The workers use the store as its specification allows, whatever happens to them:
\* tokens they were issued, no progress on a file completed under the same token,
\* cancelled only where a cancellation was requested.
THEOREM PullRefinesQueue == PullSpec => Spec
  <1>1. PullInit => Init
    BY DEF PullInit
  <1>2. PullInv /\ [PullNext]_pullVars => [Next]_vars
    BY StepIsQueueStep
  <1> QED
    BY <1>1, <1>2, PullInvariant, PTL DEF PullSpec, Spec

\* So workers and store together give a client the lifecycle it is promised.
THEOREM PullImplementsLifecycle == PullSpec => ImplementsLifecycle
  BY PullRefinesQueue, StoreImplementsLifecycle

\* Every variable of the system keeps its type, and a worker that runs a job holds
\* a token of it.
THEOREM PullTypeCorrect == PullSpec => []PullTypeOK
  <1>1. PullInv /\ manager \in {"running", "closing", "restarted"} => PullTypeOK
    <2> SUFFICES ASSUME PullInv, manager \in {"running", "closing", "restarted"}
                 PROVE  PullTypeOK
      OBVIOUS
    <2>1. TypeOK /\ Shape
      BY DEF PullInv, QueueInv
    <2>2. \A w \in Workers : Working(w) => J(w) \in JobIds /\ T(w) \in Nat \ {0}
      BY DEF PullInv, RunInv, TypedRun
    <2>3. \A w \in Workers : local[w].have \subseteq AllRanges
                             /\ local[w].open \in {"none", "staging", "installed"}
      BY <2>1 DEF Shape, LocalType
    <2> QED
      BY <2>1, <2>2, <2>3 DEF PullTypeOK, Shape, Labels, PlanPcs, FilePcs, AllRanges
  <1>2. PullInit => manager \in {"running", "closing", "restarted"}
    BY DEF PullInit
  <1>3. manager \in {"running", "closing", "restarted"} /\ [PullNext]_pullVars =>
           (manager \in {"running", "closing", "restarted"})'
    BY DEF PullNext, WorkerPoll, WorkerStep, Crash, AllDown, NextProcess, Around, Close,
           CloseReturns, PowerLoss, LoseRename, pullVars
  <1> QED
    BY <1>1, <1>2, <1>3, PullInvariant, PTL DEF PullSpec

\* A job that waits for a retry has an error row that says why: _execute records the
\* failure before it schedules the retry, and no other call puts a job there.
THEOREM RetriesExplained == PullSpec => []RetryIsExplained
  <1>1. PullInv => RetryIsExplained
    BY DEF PullInv
  <1> QED
    BY <1>1, PullInvariant, PTL

\* A run that has lost its claim, to another worker or to nobody, writes no file or chunk row
\* any more: each of its calls presents the token of the claim, and a token that is no
\* longer current is refused whatever the state of the job.
THEOREM FencedWriteNothing == PullSpec => FencedRunsWriteNothing
  <1> DEFINE Idles == \A w \in Workers :
                 Working(w) /\ token[J(w)] # T(w)
                    /\ <<pc[w], local[w].kept>>' # <<pc[w], local[w].kept>>
                    => SameRows(J(w))
  <1>1. PullInv /\ [PullNext]_pullVars => [Idles]_pullVars
    <2> SUFFICES ASSUME PullInv, [PullNext]_pullVars, NEW w \in Workers, Working(w), ~ Current(w),
                        <<pc[w], local[w].kept>>' # <<pc[w], local[w].kept>>
                 PROVE  SameRows(J(w))
      BY DEF Current
    <2>q. Shape /\ TypedRun(w)
      BY DEF PullInv, RunInv
    <2>v. UNCHANGED vars => SameRows(J(w))
      BY DEF vars, rows, SameRows
    <2>1. ~ Same(w)
      BY DEF Same, Core
    <2>2. CASE RunStep(w)
      <3>1. Calls(w)
        BY <2>q, <2>2, RunCalls
      <3> QED
        BY <2>v, <3>1 DEF Calls, Current, Presents, Owns, SaveSnapshot, PrepareChunks,
           RecordProgress, CanRecordProgress, RecordError, CanRecordError, RecordJobError,
           CanRecordJobError, ResetFile, CanReset, UpdateFile, MarkVerifying, CanMarkVerifying,
           Finish, CanFinish, Release, ScheduleRetry
    <2>3. ASSUME NEW v \in Workers \ {w}, RunStep(v)
          PROVE  FALSE
      <3>1. OwnStep(v)
        BY <2>3, RunShape DEF PullInv, QueueInv, RunInv
      <3> QED
        BY <2>1, <3>1 DEF OwnStep
    <2>4. CASE Outside
      BY <2>v, <2>4 DEF Outside
    <2>5. CASE Apart \/ \E v \in Workers : Beats(v)
      BY <2>5 DEF Apart, Beats
    <2>6. ASSUME NEW v \in Workers, NEW k \in JobIds, WorkerClaims(v, k)
          PROVE  FALSE
      BY <2>q, <2>6 DEF WorkerClaims, Polls, Working, Goto, Shape
    <2> QED
      BY <2>q, <2>2, <2>3, <2>4, <2>5, <2>6, Kinds
  <1> QED
    BY <1>1, PullInvariant, PTL DEF PullSpec, FencedRunsWriteNothing

-----------------------------------------------------------------------------
(* How a completed file can go back.                                       *)

\* A run that holds j and has found no sound copy of its completed file f.
Forgetting(w, j, f) ==
    pc[w] = "forget" /\ J(w) = j /\ F(w) = f /\ Current(w)

\* The row of a completed file is written under the claim that completed it or a later
\* one, and only reset_file takes it back, which the code calls for a file that it
\* is transferring (so not completed) or whose copy it has found missing or wrong.
LEMMA OnlyForgetTakesBack ==
    ASSUME PullInv, [PullNext]_pullVars, NEW j \in JobIds, NEW f \in Files,
           fstate[j][f] = "completed", fstate'[j][f] # "completed", state'[j] # "dismissed"
    PROVE  \E w \in Workers : Forgetting(w, j, f)
  <1> DEFINE Keeps == \E w \in Workers : Forgetting(w, j, f)
  <1>q. QueueInv /\ TypeOK /\ Shape
    BY DEF PullInv, QueueInv
  <1>v. fstate'[j] = fstate[j] => Keeps
    OBVIOUS
  <1>1. CASE Apart
    <2>1. CASE ClaimNothing \/ UNCHANGED vars
      BY <1>v, <2>1 DEF ClaimNothing, vars, rows
    <2>2. ASSUME NEW i \in JobIds, Submit(i) \/ Tick(i)
          PROVE  Keeps
      <3>1. CASE Dismiss(i)
        <4>1. state'[j] = "dismissed" \/ fstate'[j] = fstate[j]
          BY <1>q, <3>1 DEF Dismiss, TypeOK
        <4> QED
          BY <4>1, <1>v
      <3>2. CASE ~ Dismiss(i)
        BY <1>v, <2>2, <3>2 DEF Submit, Tick, EnqueueRequeues, EnqueueInserts, Retry,
              RequestCancel, LeaseExpires, RetryDue, rows
      <3> QED
        BY <3>1, <3>2
    <2> QED
      BY <1>1, <2>1, <2>2 DEF Apart
  <1>2. CASE Outside
    BY <1>2, <1>v DEF Outside, vars, rows
  <1>3. ASSUME NEW w \in Workers, Beats(w)
        PROVE  Keeps
    BY <1>3, <1>v DEF Beats, Heartbeat, rows
  <1>4. ASSUME NEW w \in Workers, RunStep(w)
        PROVE  Keeps
    <2>1. CASE ~ Working(w)
      BY <1>4, <1>v, <2>1, RestingCalls DEF vars, rows
    <2>2. CASE Working(w)
      <3>1. RunInv(w) /\ TypedRun(w) /\ J(w) \in JobIds /\ Calls(w)
        BY <1>4, <2>2, <1>q, RunCalls DEF PullInv, RunInv, TypedRun
      <3>2. CASE SaveSnapshot(J(w), T(w))
        <4>1. fstate[J(w)] = NoFiles("none")
          BY <1>q, <3>1, <3>2 DEF SaveSnapshot, Owns, QueueInv, RowsInv
        <4>2. fstate[J(w)][f] # "completed"
          BY <4>1 DEF NoFiles
        <4>3. j # J(w) => fstate'[j] = fstate[j]
          BY <1>q, <3>1, <3>2 DEF SaveSnapshot, TypeOK
        <4> QED
          BY <1>v, <4>2, <4>3
      <3>3. CASE pc[w] = "record" /\ RecordProgress(J(w), F(w), T(w),
                     BytesOf(local[w].have \cup {local[w].range}), local[w].range)
        <4>1. fstate[J(w)][F(w)] # "completed"
          BY <3>1, <3>3 DEF RecordProgress, CanRecordProgress, Presents, RunInv, Current,
                            PlanInv, FilePcs
        <4>2. j # J(w) \/ f # F(w) => fstate'[j][f] = fstate[j][f]
          BY <1>q, <3>1, <3>3 DEF RecordProgress, TypeOK
        <4> QED
          BY <4>1, <4>2
      <3>4. ASSUME NEW g \in Files, NEW bad \in BOOLEAN, ResetFile(J(w), g, T(w), bad),
                   pc[w] \in FilePcs \cup {"forget"}, g = F(w)
            PROVE  Keeps
        <4>1. j # J(w) \/ f # g => fstate'[j][f] = fstate[j][f]
          BY <1>q, <3>1, <3>4 DEF ResetFile, TypeOK
        <4>2. Current(w)
          BY <3>4 DEF ResetFile, CanReset, Presents, Current
        <4>3. pc[w] \in FilePcs => fstate[J(w)][F(w)] # "completed"
          BY <3>1, <4>2 DEF RunInv, PlanInv
        <4> QED
          BY <3>4, <4>1, <4>2, <4>3 DEF Forgetting
      <3>5. ASSUME NEW g \in Files, UpdateFile(J(w), g, T(w))
            PROVE  Keeps
        BY <1>q, <3>1, <3>5 DEF UpdateFile, TypeOK
      <3>6. CASE fstate' = fstate
        BY <1>v, <3>6
      <3> QED
        BY <3>1, <3>2, <3>3, <3>4, <3>5, <3>6 DEF Calls, PrepareChunks, RecordError,
           RecordJobError, MarkVerifying, Finish, Release, ScheduleRetry, vars, rows
    <2> QED
      BY <2>1, <2>2
  <1>5. ASSUME NEW w \in Workers, NEW k \in JobIds, WorkerClaims(w, k)
        PROVE  Keeps
    BY <1>5, <1>v DEF WorkerClaims, Claim, rows
  <1> QED
    BY <1>q, <1>1, <1>2, <1>3, <1>4, <1>5, Kinds
=============================================================================
