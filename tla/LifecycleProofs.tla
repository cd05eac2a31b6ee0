--------------------------- MODULE LifecycleProofs ---------------------------
(***************************************************************************)
(* The store implements the lifecycle of a download (JobLifecycle): every  *)
(* step of QueueStore is a step of it or changes neither phase nor what is *)
(* verified.                                                               *)
(***************************************************************************)
EXTENDS QueueStoreProofs

\* The refinement mapping of QueueStore!Lifecycle.
phases == [j \in JobIds |-> Phase(state[j])]
verifiedFiles == [j \in JobIds |-> Complete(fstate[j])]

LifecycleStep == [Lifecycle!LifecycleNext]_(Lifecycle!lifecycleVars)

\* The phase of each state a job can be in.
LEMMA PhaseOf ==
    /\ Phase("none") = "none" /\ Phase("dismissed") = "gone"
    /\ \A s \in {"queued", "retry_wait"} : Phase(s) = "waiting"
    /\ \A s \in Held : Phase(s) = "working"
    /\ Phase("cancel_requested") = "cancelling"
    /\ \A s \in Terminal : Phase(s) = s
  BY DEF Phase, Held, Terminal

-----------------------------------------------------------------------------
(* Steps of one job.                                                       *)

\* A step that moves one job and completes or forgets no file.
LEMMA MoveJob ==
    ASSUME TypeOK, NEW j \in JobIds, NEW s, state' = [state EXCEPT ![j] = s],
           fstate' = fstate
    PROVE  /\ phases' = [phases EXCEPT ![j] = Phase(s)]
           /\ verifiedFiles' = verifiedFiles
           /\ phases[j] = Phase(state[j])
  <1>1. phases' = [i \in JobIds |-> IF i = j THEN Phase(s) ELSE Phase(state[i])]
    BY DEF phases, TypeOK
  <1>2. [phases EXCEPT ![j] = Phase(s)]
          = [i \in JobIds |-> IF i = j THEN Phase(s) ELSE Phase(state[i])]
    BY DEF phases
  <1> QED
    BY <1>1, <1>2 DEF phases, verifiedFiles, Complete

\* A step that changes neither a state nor which files are completed.
LEMMA NoMove ==
    ASSUME state' = state, \A i \in JobIds : Complete(fstate'[i]) = Complete(fstate[i])
    PROVE  UNCHANGED <<phases, verifiedFiles>>
  BY DEF phases, verifiedFiles

LEMMA Stutter ==
    ASSUME UNCHANGED <<phases, verifiedFiles>>
    PROVE  LifecycleStep
  BY DEF LifecycleStep, Lifecycle!lifecycleVars, phases, verifiedFiles

\* The abstract operators, in terms of the mapping.
LEMMA MoveIs ==
    ASSUME NEW j, NEW from, NEW to,
           phases[j] \in from, phases' = [phases EXCEPT ![j] = to]
    PROVE  Lifecycle!Move(j, from, to)
  BY DEF Lifecycle!Move, phases

LEMMA Unverified ==
    ASSUME verifiedFiles' = verifiedFiles
    PROVE  UNCHANGED [j \in JobIds |-> Complete(fstate[j])]
  BY DEF verifiedFiles

LEMMA MoveStep ==
    ASSUME TypeOK, NEW j \in JobIds, NEW s, state' = [state EXCEPT ![j] = s],
           fstate' = fstate, NEW from, Phase(state[j]) \in from
    PROVE  /\ Lifecycle!Move(j, from, Phase(s))
           /\ UNCHANGED [i \in JobIds |-> Complete(fstate[i])]
  BY MoveJob, MoveIs, Unverified

\* What a user asks for.
LEMMA RefineSubmit ==
    ASSUME QueueInv, NEW j \in JobIds, Submit(j)
    PROVE  LifecycleStep
  <1>0. TypeOK
    BY DEF QueueInv
  <1>1. CASE RequestCancel(j)
    <2>1. fstate' = fstate
      BY <1>1 DEF RequestCancel, rows
    <2>2. ASSUME state[j] = "queued"
          PROVE  Lifecycle!Cancel(j)
      <3>1. Phase(state[j]) \in {"waiting"} /\ Phase("cancelled") = "cancelled"
        BY <2>2, PhaseOf DEF Terminal
      <3>2. state' = [state EXCEPT ![j] = "cancelled"]
        BY <1>1, <2>2 DEF RequestCancel
      <3>3. /\ Lifecycle!Move(j, {"waiting"}, Phase("cancelled"))
            /\ UNCHANGED [i \in JobIds |-> Complete(fstate[i])]
        BY <1>0, <2>1, <3>1, <3>2, MoveStep
      <3> QED
        BY <3>1, <3>3 DEF Lifecycle!Cancel
    <2>3. ASSUME state[j] # "queued"
          PROVE  Lifecycle!Cancel(j)
      <3>1. /\ Phase(state[j]) \in {"waiting", "working"}
            /\ Phase("cancel_requested") = "cancelling"
        BY <1>1, <2>3, PhaseOf DEF RequestCancel, Running
      <3>2. state' = [state EXCEPT ![j] = "cancel_requested"]
        BY <1>1, <2>3 DEF RequestCancel
      <3>3. /\ Lifecycle!Move(j, {"waiting", "working"}, Phase("cancel_requested"))
            /\ UNCHANGED [i \in JobIds |-> Complete(fstate[i])]
        BY <1>0, <2>1, <3>1, <3>2, MoveStep
      <3> QED
        BY <3>1, <3>3 DEF Lifecycle!Cancel
    <2>4. Lifecycle!Cancel(j)
      BY <2>2, <2>3
    <2> QED
      BY <2>4 DEF LifecycleStep, Lifecycle!LifecycleNext
  <1>2. CASE Dismiss(j)
    <2>1. /\ phases' = [phases EXCEPT ![j] = "gone"]
          /\ phases[j] \in {"completed", "failed", "cancelled"}
      <3>1. phases[j] \in {"completed", "failed", "cancelled"}
        BY <1>2, PhaseOf DEF Dismiss, phases, Terminal
      <3>2. state' = [state EXCEPT ![j] = "dismissed"]
        BY <1>2 DEF Dismiss
      <3>3. phases' = [i \in JobIds |-> IF i = j THEN "gone" ELSE Phase(state[i])]
        BY <1>0, <3>2, PhaseOf DEF phases, TypeOK
      <3> QED
        BY <3>1, <3>3 DEF phases
    <2>2. Complete(NoFiles("none")) = {}
      BY NoneComplete
    <2>3. verifiedFiles' = [verifiedFiles EXCEPT ![j] = {}]
      <3>1. fstate' = [fstate EXCEPT ![j] = NoFiles("none")]
        BY <1>2 DEF Dismiss
      <3>2. verifiedFiles' = [i \in JobIds |-> IF i = j THEN {} ELSE Complete(fstate[i])]
        BY <1>0, <2>2, <3>1 DEF verifiedFiles, TypeOK
      <3> QED
        BY <3>2 DEF verifiedFiles
    <2>4. Lifecycle!Move(j, {"completed", "failed", "cancelled"}, "gone")
      BY <2>1 DEF Lifecycle!Move, phases
    <2>5. Lifecycle!Dismiss(j)
      BY <2>3, <2>4 DEF Lifecycle!Dismiss, verifiedFiles
    <2> QED
      BY <2>5 DEF LifecycleStep, Lifecycle!LifecycleNext
  <1>3. CASE ~ RequestCancel(j) /\ ~ Dismiss(j)
    <2>1. /\ state[j] \in {"none", "failed"} /\ fstate' = fstate
          /\ state' = [state EXCEPT ![j] = "queued"]
      BY <1>3 DEF Submit, EnqueueRequeues, EnqueueInserts, Retry, Retryable, rows
    <2>2. Phase(state[j]) \in {"none", "failed"} /\ Phase("queued") = "waiting"
      BY <2>1, PhaseOf DEF Terminal
    <2>3. Lifecycle!Submit(j)
      BY <1>0, <2>1, <2>2, MoveStep DEF Lifecycle!Submit
    <2> QED
      BY <2>3 DEF LifecycleStep, Lifecycle!LifecycleNext
  <1> QED
    BY <1>1, <1>2, <1>3

-----------------------------------------------------------------------------
(* Polling, and the holders of claims.                                     *)

LEMMA AcknowledgeStep ==
    ASSUME NEW reaped \in SUBSET JobIds, NEW started \in SUBSET JobIds,
           \A i \in reaped : phases[i] = "cancelling",
           \A i \in started : phases[i] = "waiting",
           \A i, j \in started : i = j,
           \A i \in JobIds : phases'[i] = IF i \in reaped THEN "cancelled"
                                         ELSE IF i \in started THEN "working" ELSE phases[i],
           verifiedFiles' = verifiedFiles
    PROVE  LifecycleStep
  <1>1. Lifecycle!Acknowledge(reaped, started)
    BY DEF Lifecycle!Acknowledge, phases, verifiedFiles
  <1> QED
    BY <1>1 DEF LifecycleStep, Lifecycle!LifecycleNext

\* A poll acknowledges every reaped cancellation, and starts a job that was waiting
\* (one taken over from a lapsed lease is still being worked on).
LEMMA RefinePoll ==
    ASSUME QueueInv, Poll
    PROVE  LifecycleStep
  <1> DEFINE reaped == {i \in JobIds : Reapable(i)}
  <1>1. reaped \in SUBSET JobIds /\ \A i \in reaped : phases[i] = "cancelling"
    BY PhaseOf DEF Reapable, phases
  <1>2. CASE ClaimNothing
    <2> DEFINE started == {i \in JobIds : FALSE}
    <2>1. \A i \in JobIds : phases'[i] = IF i \in reaped THEN "cancelled"
                                         ELSE IF i \in started THEN "working" ELSE phases[i]
      BY <1>2, PhaseOf DEF ClaimNothing, phases, Terminal
    <2>2. verifiedFiles' = verifiedFiles
      BY <1>2 DEF ClaimNothing, rows, verifiedFiles, Complete
    <2>3. started \in SUBSET JobIds /\ \A i \in started : FALSE
      OBVIOUS
    <2> HIDE DEF reaped, started
    <2> QED
      BY <1>1, <2>1, <2>2, <2>3, AcknowledgeStep
  <1>3. ASSUME NEW k \in JobIds, Claim(k)
        PROVE  LifecycleStep
    <2> DEFINE started == {i \in {k} : phases[i] = "waiting"}
    <2>1. Phase(Claimed(k)) = "working"
      BY PhaseOf DEF Claimed, Held
    <2>2. phases[k] \in {"waiting", "working"} /\ k \notin reaped
      BY <1>3, PhaseOf DEF Claim, Oldest, Eligible, Lapsed, Held, Reapable, phases
    <2>3. \A i \in JobIds : phases'[i] = IF i \in reaped THEN "cancelled"
                                      ELSE IF i = k THEN "working" ELSE phases[i]
      BY <1>3, <2>1, <2>2, PhaseOf DEF Claim, phases, Terminal
    <2>4. \A i \in JobIds : phases'[i] = IF i \in reaped THEN "cancelled"
                                         ELSE IF i \in started THEN "working" ELSE phases[i]
      BY <2>2, <2>3
    <2>6. /\ started \in SUBSET JobIds
          /\ \A i \in started : phases[i] = "waiting"
          /\ \A i, j \in started : i = j
      OBVIOUS
    <2>5. verifiedFiles' = verifiedFiles
      BY <1>3 DEF Claim, rows, verifiedFiles, Complete
    <2> HIDE DEF reaped, started
    <2> QED
      BY <1>1, <2>4, <2>5, <2>6, AcknowledgeStep
  <1> QED
    BY <1>2, <1>3 DEF Poll

LEMMA RefineFinish ==
    ASSUME QueueInv, NEW j \in JobIds, NEW t, NEW s \in Terminal, Finish(j, t, s),
           s = "cancelled" => state[j] = "cancel_requested"
    PROVE  LifecycleStep
  <1>0. TypeOK /\ state' = [state EXCEPT ![j] = s] /\ fstate' = fstate /\ Phase(s) = s
    BY PhaseOf DEF Finish, rows, QueueInv
  <1>1. CASE s = "completed"
    <2>1. jobFiles[j] = Cardinality(Files) /\ state[j] = "verifying"
      BY <1>1 DEF Finish, CanFinish, AllCounted, Owns
    <2>2. verifiedFiles[j] = Files
      BY <2>1, FullCount DEF QueueInv, RowsInv, verifiedFiles
    <2>3. Phase(state[j]) \in {"working"}
      BY <2>1, PhaseOf DEF Held
    <2>4. /\ Lifecycle!Move(j, {"working"}, "completed")
          /\ UNCHANGED [i \in JobIds |-> Complete(fstate[i])]
      BY <1>0, <1>1, <2>3, MoveStep
    <2>5. Lifecycle!Complete(j)
      BY <2>2, <2>4 DEF Lifecycle!Complete, verifiedFiles
    <2> QED
      BY <2>5 DEF LifecycleStep, Lifecycle!LifecycleNext
  <1>2. CASE s = "failed"
    <2>1. Phase(state[j]) \in {"working", "cancelling"}
      BY <1>2, PhaseOf DEF Finish, CanFinish, Owns
    <2>2. Lifecycle!Fail(j)
      BY <1>0, <1>2, <2>1, MoveStep DEF Lifecycle!Fail
    <2> QED
      BY <2>2 DEF LifecycleStep, Lifecycle!LifecycleNext
  <1>3. CASE s = "cancelled"
    <2> DEFINE reaped == {j}
    <2> DEFINE started == {i \in JobIds : FALSE}
    <2>1. /\ reaped \in SUBSET JobIds /\ \A i \in reaped : phases[i] = "cancelling"
          /\ started \in SUBSET JobIds /\ \A i \in started : FALSE
      BY <1>3, PhaseOf DEF phases
    <2>2. phases' = [phases EXCEPT ![j] = "cancelled"] /\ verifiedFiles' = verifiedFiles
      <3>1. phases' = [phases EXCEPT ![j] = Phase(s)] /\ verifiedFiles' = verifiedFiles
        BY <1>0, MoveJob
      <3> QED
        BY <1>0, <1>3, <3>1
    <2>3. \A i \in JobIds : phases'[i] = IF i \in reaped THEN "cancelled"
                                         ELSE IF i \in started THEN "working" ELSE phases[i]
      BY <2>2 DEF phases
    <2> HIDE DEF reaped, started
    <2> QED
      BY <2>1, <2>2, <2>3, AcknowledgeStep
  <1> QED
    BY <1>1, <1>2, <1>3 DEF Terminal

LEMMA RefineJobStep ==
    ASSUME QueueInv, NEW j \in JobIds, NEW t \in Issued(j), JobStep(j, t)
    PROVE  LifecycleStep
  <1>0. TypeOK
    BY DEF QueueInv
  <1>1. CASE Heartbeat(j, t) \/ RecordError(j, t) \/ RecordJobError(j, t)
    <2>1. state' = state /\ fstate' = fstate
      BY <1>1 DEF Heartbeat, RecordError, RecordJobError, rows
    <2> QED
      BY <2>1, NoMove, Stutter
  <1>2. CASE SaveSnapshot(j, t)
    <2>1. fstate[j] = NoFiles("none")
      BY <1>2 DEF SaveSnapshot, Owns, QueueInv, RowsInv
    <2>2. Complete(fstate'[j]) = Complete(fstate[j])
      BY <1>0, <1>2, <2>1, NoneComplete DEF SaveSnapshot, TypeOK
    <2>3. \A i \in JobIds : Complete(fstate'[i]) = Complete(fstate[i])
      BY <1>0, <1>2, <2>2 DEF SaveSnapshot, TypeOK, Complete
    <2>4. \A i \in JobIds : Phase(state'[i]) = Phase(state[i])
      BY <1>0, <1>2, PhaseOf DEF SaveSnapshot, Owns, TypeOK, Held
    <2>5. UNCHANGED <<phases, verifiedFiles>>
      BY <2>3, <2>4 DEF phases, verifiedFiles
    <2> QED
      BY <2>5, Stutter
  <1>3. CASE Release(j, t) \/ \E d \in BOOLEAN : ScheduleRetry(j, t, d)
    <2>1. PICK s \in {"queued", "retry_wait"} :
             state' = [state EXCEPT ![j] = s] /\ fstate' = fstate
      BY <1>3 DEF Release, ScheduleRetry, rows
    <2>2. Phase(state[j]) \in {"working"} /\ Phase(s) = "waiting"
      BY <1>3, PhaseOf DEF Release, ScheduleRetry, Owns
    <2>3. Lifecycle!Suspend(j)
      BY <1>0, <2>1, <2>2, MoveStep DEF Lifecycle!Suspend
    <2> QED
      BY <2>3 DEF LifecycleStep, Lifecycle!LifecycleNext
  <1>4. CASE MarkVerifying(j, t)
    <2>1. \A i \in JobIds : Phase(state'[i]) = Phase(state[i])
      BY <1>0, <1>4, PhaseOf DEF MarkVerifying, CanMarkVerifying, Owns, TypeOK, Held
    <2>2. UNCHANGED <<phases, verifiedFiles>>
      BY <1>4, <2>1 DEF MarkVerifying, rows, phases, verifiedFiles, Complete
    <2> QED
      BY <2>2, Stutter
  <1>5. CASE Outcome(j, t)
    BY <1>5, RefineFinish DEF Outcome
  <1> QED
    BY <1>1, <1>2, <1>3, <1>4, <1>5 DEF JobStep

\* Only the file rows of a job that is worked on, or being cancelled, change.
LEMMA RefineFileStep ==
    ASSUME QueueInv, NEW j \in JobIds, NEW t \in Issued(j), FileStep(j, t)
    PROVE  LifecycleStep
  <1>0. TypeOK
    BY DEF QueueInv
  <1>1. Presents(j, t) /\ state' = state
    BY DEF FileStep, PrepareChunks, Progress, RecordProgress, CanRecordProgress, ResetFile,
           CanReset, UpdateFile, Owns
  <1>2. phases' = phases /\ phases[j] \in {"working", "cancelling"}
    BY <1>1, PhaseOf DEF Presents, QueueInv, ClaimDiscipline, phases
  <1>3. \A i \in JobIds : i # j => fstate'[i] = fstate[i]
    BY <1>0 DEF FileStep, PrepareChunks, Progress, RecordProgress, ResetFile, UpdateFile, TypeOK
  <1>4. verifiedFiles' = [verifiedFiles EXCEPT ![j] = Complete(fstate'[j])]
    BY <1>3 DEF verifiedFiles, Complete
  <1>5. Complete(fstate'[j]) \in SUBSET Files
    BY DEF Complete
  <1>6. Lifecycle!Attempt(j)
    BY <1>2, <1>4, <1>5 DEF Lifecycle!Attempt, phases, verifiedFiles
  <1> QED
    BY <1>6 DEF LifecycleStep, Lifecycle!LifecycleNext

-----------------------------------------------------------------------------

LEMMA RefineInit == Init => Lifecycle!LifecycleInit
  <1> SUFFICES ASSUME Init
               PROVE  Lifecycle!LifecycleInit
    OBVIOUS
  <1>1. \A j \in JobIds : Phase(state[j]) = "none"
    BY PhaseOf DEF Init
  <1>2. \A j \in JobIds : Complete(fstate[j]) = {}
    BY NoneComplete DEF Init
  <1> QED
    BY <1>1, <1>2 DEF Lifecycle!LifecycleInit

LEMMA RefineNext ==
    ASSUME QueueInv, [Next]_vars
    PROVE  LifecycleStep
  <1>1. CASE UNCHANGED vars
    <2>1. state' = state /\ fstate' = fstate
      BY <1>1 DEF vars, rows
    <2> QED
      BY <2>1, NoMove, Stutter
  <1>2. ASSUME NEW j \in JobIds, Tick(j)
        PROVE  LifecycleStep
    <2>1. state' = state /\ fstate' = fstate
      BY <1>2 DEF Tick, LeaseExpires, RetryDue, rows
    <2> QED
      BY <2>1, NoMove, Stutter
  <1>3. CASE Next
    BY <1>2, <1>3, RefineSubmit, RefinePoll, RefineJobStep, RefineFileStep DEF Next
  <1> QED
    BY <1>1, <1>3

\* The store implements the lifecycle, for every set of jobs, snapshot and number of
\* claims: what a client is promised does not depend on who owns a job, on leases or
\* on the order in which late workers' calls arrive.
THEOREM StoreImplementsLifecycle == Spec => ImplementsLifecycle
  <1>1. QueueInv /\ [Next]_vars => [Lifecycle!LifecycleNext]_(Lifecycle!lifecycleVars)
    BY RefineNext DEF LifecycleStep
  <1> QED
    BY <1>1, RefineInit, QueueInvariant, PTL
    DEF Spec, ImplementsLifecycle, Lifecycle!LifecycleSpec
=============================================================================
