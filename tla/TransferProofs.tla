--------------------------- MODULE TransferProofs ---------------------------
(***************************************************************************)
(* Proofs about RangeTransfer, for every set of ranges and any number of   *)
(* blocks, permits and retries: what is recorded is on the disk until the  *)
(* descriptor's number is reused, and a call that returns has the whole    *)
(* file.                                                                   *)
(*                                                                         *)
(* The invariant says what the phase of the call means for the descriptor  *)
(* and the tasks (CallInv), what the place of a task means for its rows    *)
(* and its object (TaskInv), and what both mean for the bytes (DiskInv).   *)
(***************************************************************************)
EXTENDS RangeTransfer, FiniteSetTheorems, TLAPS

Busy == {"wait", "begin", "request", "stream", "write", "retry", "lock", "sync"}

TypeInv ==
    /\ call \in {"access", "open", "gather", "sync", "close", "abort", "check",
                 "returned", "raised"}
    /\ task \in [Indexes -> Busy \cup Ended \cup {"mark"}]
    /\ block \in [Indexes -> 0 .. Blocks]
    /\ using \in [Indexes -> Objects \cup {"none"}]
    /\ descriptor \in {"none", "open", "closed", "other"}
    /\ remote \in Objects /\ verify \in BOOLEAN
    /\ content \in [Cells -> Objects \cup {"zeros", "short"}] /\ dirty \subseteq Cells
    /\ completed \subseteq Indexes /\ recorded \subseteq completed

CallInv ==
    /\ call \in {"access", "open"} => descriptor = "none" /\ recorded = completed
    /\ call \in {"gather", "sync", "close", "abort"} => descriptor = "open"
    /\ call \in {"check", "returned"} => descriptor \in {"closed", "other"}
    /\ descriptor = "none" => \A r \in Indexes : task[r] = "none"
    /\ call = "open" => cached = "v1"
    /\ call \in {"sync", "close", "check", "returned"} =>
           /\ \A r \in Indexes : task[r] = "done"
           /\ \A c \in Cells : content[c] # "zeros"
    /\ call \in {"close", "check", "returned"} => dirty = {}
    /\ call = "returned" /\ verify => HashMatches

TaskInv ==
    \A r \in Indexes :
        /\ task[r] # "none" => cached = "v1"
        /\ task[r] \in Busy => r \notin completed
        /\ task[r] = "mark" => r \in completed
        /\ task[r] = "done" => r \in recorded
        /\ ~ verify /\ task[r] = "request" => using[r] = "v1"
        /\ task[r] \in {"stream", "write"} =>
               using[r] \in Objects /\ (verify \/ using[r] = "v1")
        /\ task[r] = "write" => block[r] < Blocks

DiskInv ==
    /\ ~ verify => \A c \in Cells : content[c] \in {"v1", "zeros", "short"}
    /\ \A c \in Cells : content[c] = "short" => "full" \in Events
    /\ descriptor # "other" =>
         \A r \in Indexes :
            /\ task[r] \in {"stream", "write"} =>
                   \A b \in 1 .. block[r] : content[<<r, b>>] # "zeros"
            /\ task[r] \in {"lock", "sync"} => \A c \in BlocksOf(r) : content[c] # "zeros"
            /\ r \in completed => \A c \in BlocksOf(r) : content[c] # "zeros" /\ c \notin dirty

TransferInv == TypeInv /\ CallInv /\ TaskInv /\ DiskInv

-----------------------------------------------------------------------------
(* The call and the environment.                                           *)

LEMMA CellFacts ==
    \A r \in Indexes : \A b \in 1 .. Blocks : <<r, b>> \in Cells /\ <<r, b>> \in BlocksOf(r)
BY DEF Cells, BlocksOf

LEMMA RangeFacts ==
    \A r \in Indexes : \A c \in BlocksOf(r) :
        /\ c \in Cells
        /\ \E b \in 1 .. Blocks : c = <<r, b>>
BY DEF Cells, BlocksOf

LEMMA RangesAreDisjoint ==
    \A r, s \in Indexes : \A c \in BlocksOf(r) : c \in BlocksOf(s) => r = s
BY DEF BlocksOf

LEMMA InitHolds == TransferInit => TransferInv
<1> SUFFICES ASSUME TransferInit PROVE TransferInv
    OBVIOUS
<1>1. \A c \in Cells : content[c] = "short" => "full" \in Events
    BY DEF TransferInit, Put
<1>2. TypeInv
    BY BlocksAssumption DEF TransferInit, TypeInv, Objects, Ended
<1>3. CallInv /\ TaskInv
    BY DEF TransferInit, CallInv, TaskInv, Busy
<1>4. ASSUME NEW r \in completed, NEW c \in BlocksOf(r)
      PROVE  content[c] # "zeros"
    <2>1. r \in Indexes /\ c \in Cells /\ c[1] = r
        BY <1>2, <1>4, RangeFacts DEF TypeInv
    <2> QED BY <2>1, <1>4 DEF TransferInit, Put
<1>5. DiskInv
    BY <1>1, <1>4 DEF TransferInit, DiskInv
<1> QED BY <1>2, <1>3, <1>5 DEF TransferInv

LEMMA FirstAccessKeeps == TransferInv /\ FirstAccess => TransferInv'
BY DEF TransferInv, TypeInv, CallInv, TaskInv, DiskInv,
       FirstAccess, taskVars, accessVars, callerVars, fileVars, rowVars

LEMMA OpenPartialKeeps == TransferInv /\ OpenPartial => TransferInv'
BY DEF TransferInv, TypeInv, CallInv, TaskInv, DiskInv,
       OpenPartial, Busy, Ended, taskVars, accessVars, callerVars, fileVars, rowVars

LEMMA GatherKeeps == TransferInv /\ Gather => TransferInv'
BY DEF TransferInv, TypeInv, CallInv, TaskInv, DiskInv,
       Gather, BlocksOf, Cells, taskVars, accessVars, callerVars, fileVars, rowVars

LEMMA FinalSyncKeeps == TransferInv /\ FinalSync => TransferInv'
BY DEF TransferInv, TypeInv, CallInv, TaskInv, DiskInv,
       FinalSync, taskVars, accessVars, callerVars, fileVars, rowVars

LEMMA CloseDescriptorKeeps == TransferInv /\ CloseDescriptor => TransferInv'
BY DEF TransferInv, TypeInv, CallInv, TaskInv, DiskInv,
       CloseDescriptor, taskVars, accessVars, callerVars, fileVars, rowVars

LEMMA FinalCheckKeeps == TransferInv /\ FinalCheck => TransferInv'
BY DEF TransferInv, TypeInv, CallInv, TaskInv, DiskInv,
       FinalCheck, HashMatches, taskVars, accessVars, callerVars, fileVars, rowVars

LEMMA EnvironmentKeeps == TransferInv /\ Environment => TransferInv'
<1> SUFFICES ASSUME TransferInv, Environment PROVE TransferInv'
    OBVIOUS
<1>1. CASE CancelCall
    BY <1>1 DEF TransferInv, TypeInv, CallInv, TaskInv, DiskInv, CancelCall,
                HashMatches, taskVars, accessVars, callerVars, fileVars, rowVars
<1>2. CASE AskToStop
    BY <1>2 DEF TransferInv, TypeInv, CallInv, TaskInv, DiskInv, AskToStop,
                HashMatches, taskVars, accessVars, callerVars, fileVars, rowVars
<1>3. CASE LoseClaim
    BY <1>3 DEF TransferInv, TypeInv, CallInv, TaskInv, DiskInv, LoseClaim,
                HashMatches, taskVars, accessVars, callerVars, fileVars, rowVars
<1>4. CASE CallerEnds
    BY <1>4 DEF TransferInv, TypeInv, CallInv, TaskInv, DiskInv, CallerEnds,
                HashMatches, taskVars, accessVars, callerVars, fileVars, rowVars
<1>5. CASE ReplaceObject
    BY <1>5 DEF TransferInv, TypeInv, CallInv, TaskInv, DiskInv, ReplaceObject,
                HashMatches, Objects, taskVars, accessVars, callerVars, fileVars, rowVars
<1>6. CASE ReuseDescriptor
    BY <1>6 DEF TransferInv, TypeInv, CallInv, TaskInv, DiskInv, ReuseDescriptor,
                HashMatches, taskVars, accessVars, callerVars, fileVars, rowVars
<1> QED BY <1>1, <1>2, <1>3, <1>4, <1>5, <1>6 DEF Environment

-----------------------------------------------------------------------------
(* The tasks, where they leave the file and the rows alone.                *)

\* A task that was at work and is left has no part in the invariant any more.
LEMMA FailKeeps ==
    ASSUME TransferInv, NEW r \in Indexes, Fail(r), task[r] \in Busy \cup {"mark"},
           UNCHANGED <<call, descriptor, cached, remote, verify, content, dirty, completed, recorded>>
    PROVE  TransferInv'
<1>1. /\ task' = [task EXCEPT ![r] = "failed"] /\ block' = [block EXCEPT ![r] = 0]
      /\ using' = [using EXCEPT ![r] = "none"]
    BY DEF Fail, Left, Step
<1>2. TypeInv'
    BY <1>1, BlocksAssumption DEF TransferInv, TypeInv, Ended
<1>3. CallInv' /\ TaskInv'
    BY <1>1 DEF TransferInv, TypeInv, CallInv, TaskInv, HashMatches, Busy
<1>4. DiskInv'
    BY <1>1 DEF TransferInv, TypeInv, DiskInv
<1> QED BY <1>2, <1>3, <1>4 DEF TransferInv

LEMMA DeliverKeeps ==
    ASSUME TransferInv, NEW r \in Indexes, Deliver(r)
    PROVE  TransferInv'
BY FailKeeps DEF Deliver, Busy, accessVars, fileVars, rowVars

LEMMA EnterKeeps ==
    ASSUME TransferInv, NEW r \in Indexes, Enter(r)
    PROVE  TransferInv'
BY DEF TransferInv, TypeInv, CallInv, TaskInv, DiskInv,
       Enter, Busy, Ended, Step, taskVars, accessVars, callerVars, fileVars, rowVars

\* A refreshed access describes the object of the cached one, which is the snapshot's.
LEMMA GetAccessKeeps ==
    ASSUME TransferInv, NEW r \in Indexes, NEW refresh, NEW next \in {"request", "retry"},
           task[r] \in {"begin", "request"}, GetAccess(r, refresh, next),
           UNCHANGED <<call, descriptor, remote, verify, content, dirty, completed, recorded>>
    PROVE  TransferInv'
<1>1. cached = "v1" /\ remote \in Objects
    BY DEF TransferInv, TypeInv, TaskInv
<1>2. CASE Fail(r) /\ UNCHANGED cached
    BY <1>2, FailKeeps DEF Busy
<1>3. CASE /\ Step(r, next) /\ UNCHANGED block
           /\ cached' = "v1" /\ using' = [using EXCEPT ![r] = "v1"]
    <2>1. TypeInv' /\ TaskInv'
        BY <1>1, <1>3 DEF TransferInv, TypeInv, TaskInv, Step, Busy, Objects
    <2>2. CallInv' /\ DiskInv'
        BY <1>1, <1>3 DEF TransferInv, TypeInv, CallInv, DiskInv, Step, HashMatches
    <2> QED BY <2>1, <2>2 DEF TransferInv
<1> QED BY <1>1, <1>2, <1>3 DEF GetAccess, Changed

LEMMA BeginKeeps ==
    ASSUME TransferInv, NEW r \in Indexes, Begin(r)
    PROVE  TransferInv'
<1>1. /\ UNCHANGED <<call, descriptor, remote, verify, content, dirty, completed, recorded>>
      /\ task[r] = "begin"
    BY DEF Begin, fileVars, rowVars
<1>2. CASE Fail(r) /\ UNCHANGED cached
    BY <1>1, <1>2, FailKeeps DEF Busy
<1>3. CASE GetAccess(r, attempt[r] > 0 /\ attempt[r] % 2 = 0, "request")
    BY <1>1, <1>3, GetAccessKeeps
<1> QED BY <1>2, <1>3 DEF Begin

LEMMA RequestKeeps ==
    ASSUME TransferInv, NEW r \in Indexes, Request(r)
    PROVE  TransferInv'
<1>1. /\ UNCHANGED <<call, descriptor, remote, verify, content, dirty, completed, recorded>>
      /\ task[r] = "request" /\ cached = "v1" /\ remote \in Objects
    BY DEF Request, fileVars, rowVars, TransferInv, TypeInv, TaskInv
<1>2. CASE /\ using[r] = remote \/ verify
           /\ Step(r, "stream") /\ block' = [block EXCEPT ![r] = 0]
           /\ using' = [using EXCEPT ![r] = remote]
           /\ UNCHANGED <<attempt, cached>>
    <2>1. verify \/ remote = "v1"
        BY <1>1, <1>2 DEF TransferInv, TaskInv
    <2>2. TypeInv' /\ CallInv' /\ TaskInv'
        BY <1>1, <1>2, <2>1, BlocksAssumption
        DEF TransferInv, TypeInv, CallInv, TaskInv, Step, Busy, HashMatches
    <2>3. DiskInv'
        BY <1>1, <1>2 DEF TransferInv, TypeInv, DiskInv, Step
    <2> QED BY <2>2, <2>3 DEF TransferInv
<1>3. CASE Fail(r) /\ UNCHANGED cached
    BY <1>1, <1>3, FailKeeps DEF Busy
<1>4. CASE GetAccess(r, TRUE, "retry")
    BY <1>1, <1>4, GetAccessKeeps
<1>5. CASE Step(r, "retry") /\ UNCHANGED <<attempt, block, using, cached>>
    BY <1>1, <1>5 DEF TransferInv, TypeInv, CallInv, TaskInv, DiskInv, Step, Busy, HashMatches
<1> QED BY <1>2, <1>3, <1>4, <1>5 DEF Request

LEMMA ReceiveKeeps ==
    ASSUME TransferInv, NEW r \in Indexes, Receive(r)
    PROVE  TransferInv'
<1>1. /\ UNCHANGED <<call, descriptor, cached, remote, verify, content, dirty, completed, recorded>>
      /\ task[r] = "stream"
    BY DEF Receive, accessVars, fileVars, rowVars
<1>2. CASE Fail(r)
    BY <1>1, <1>2, FailKeeps DEF Busy
<1>3. CASE /\ Step(r, "retry") \/ (block[r] < Blocks /\ Step(r, "write"))
           /\ UNCHANGED <<attempt, block, using>>
    BY <1>1, <1>3 DEF TransferInv, TypeInv, CallInv, TaskInv, DiskInv, Step, Busy, HashMatches
<1>4. CASE block[r] = Blocks /\ Step(r, "lock") /\ Left(r)
    <2>1. TypeInv' /\ CallInv' /\ TaskInv'
        BY <1>1, <1>4, BlocksAssumption
        DEF TransferInv, TypeInv, CallInv, TaskInv, Step, Left, Busy, HashMatches
    <2>2. DiskInv'
        BY <1>1, <1>4 DEF TransferInv, TypeInv, DiskInv, Step, Left, BlocksOf
    <2> QED BY <2>1, <2>2 DEF TransferInv
<1> QED BY <1>2, <1>3, <1>4 DEF Receive

LEMMA RetryKeeps ==
    ASSUME TransferInv, NEW r \in Indexes, Retry(r)
    PROVE  TransferInv'
<1>1. /\ UNCHANGED <<call, descriptor, cached, remote, verify, content, dirty, completed, recorded>>
      /\ task[r] = "retry"
    BY DEF Retry, accessVars, fileVars, rowVars
<1>2. CASE Fail(r)
    BY <1>1, <1>2, FailKeeps DEF Busy
<1>3. CASE Step(r, "begin") /\ UNCHANGED <<block, using>>
    BY <1>1, <1>3 DEF TransferInv, TypeInv, CallInv, TaskInv, DiskInv, Step, Busy, HashMatches
<1> QED BY <1>2, <1>3 DEF Retry

LEMMA LockKeeps ==
    ASSUME TransferInv, NEW r \in Indexes, Lock(r)
    PROVE  TransferInv'
BY DEF TransferInv, TypeInv, CallInv, TaskInv, DiskInv,
       Lock, Busy, Ended, Step, taskVars, accessVars, callerVars, fileVars, rowVars

-----------------------------------------------------------------------------
(* The system calls.                                                       *)

\* A write fills one block of a range that is not recorded, with the task's object.
LEMMA WriteBlockKeeps ==
    ASSUME TransferInv, NEW r \in Indexes, WriteBlock(r)
    PROVE  TransferInv'
<1> DEFINE cell == <<r, block[r] + 1>>
<1>1. /\ UNCHANGED <<call, descriptor, cached, remote, verify, completed, recorded>>
      /\ task[r] = "write" /\ r \notin completed /\ block[r] \in 0 .. Blocks
      /\ block[r] < Blocks /\ using[r] \in Objects /\ (verify \/ using[r] = "v1")
    BY DEF WriteBlock, accessVars, rowVars, TransferInv, TypeInv, TaskInv, Busy
<1>2. CASE /\ Returns(r, /\ Step(r, "stream") /\ block' = [block EXCEPT ![r] = @ + 1]
                          /\ UNCHANGED <<attempt, using>>)
           /\ \/ /\ descriptor = "open"
                 /\ \E written \in Put(content[cell], using[r]) :
                        content' = [content EXCEPT ![cell] = written]
                 /\ dirty' = dirty \cup {cell}
              \/ descriptor = "other" /\ UNCHANGED fileVars
    <2>1. /\ task'[r] \in {"stream", "failed"}
          /\ task' = [task EXCEPT ![r] = task'[r]]
          /\ block' \in [Indexes -> 0 .. Blocks] /\ using' \in [Indexes -> Objects \cup {"none"}]
          /\ \A s \in Indexes \ {r} : block'[s] = block[s] /\ using'[s] = using[s]
          /\ task'[r] = "stream" => block'[r] = block[r] + 1 /\ using'[r] = using[r]
        BY <1>1, <1>2, BlocksAssumption DEF Returns, Fail, Left, Step, TransferInv, TypeInv
    <2>2. TaskInv'
        BY <1>1, <2>1 DEF TransferInv, TypeInv, TaskInv, Busy
    <2>3. CASE descriptor = "open"
        <3>1. cell \in Cells /\ cell \in BlocksOf(r)
            BY <1>1, BlocksAssumption, CellFacts
        <3>2. PICK written \in Put(content[cell], using[r]) :
                  content' = [content EXCEPT ![cell] = written] /\ dirty' = dirty \cup {cell}
            BY <1>2, <2>3
        <3>3. /\ written \in Objects \cup {"short"} /\ written # "zeros"
              /\ written = "short" => "full" \in Events
              /\ ~ verify => written \in {"v1", "short"}
            BY <1>1, <3>2 DEF Put, Objects
        <3> HIDE DEF cell
        <3>4. /\ content'[cell] = written
              /\ \A c \in Cells \ {cell} : content'[c] = content[c]
            BY <3>1, <3>2 DEF TransferInv, TypeInv
        <3>5. TypeInv'
            <4>1. content' \in [Cells -> Objects \cup {"zeros", "short"}] /\ dirty' \subseteq Cells
                BY <3>1, <3>2, <3>3 DEF TransferInv, TypeInv
            <4> QED BY <1>1, <2>1, <4>1 DEF TransferInv, TypeInv, Busy, Ended
        <3>6. CallInv'
            BY <1>1, <2>1, <2>3 DEF TransferInv, TypeInv, CallInv
        <3>7. \A c \in Cells : content[c] # "zeros" => content'[c] # "zeros"
            BY <3>3, <3>4
        <3>8. DiskInv'
            <4>1. /\ ~ verify => \A c \in Cells : content'[c] \in {"v1", "zeros", "short"}
                  /\ \A c \in Cells : content'[c] = "short" => "full" \in Events
                BY <3>3, <3>4 DEF TransferInv, DiskInv
            <4>2. ASSUME NEW s \in Indexes, task'[s] \in {"stream", "write"},
                         NEW b \in 1 .. block'[s]
                  PROVE  content'[<<s, b>>] # "zeros"
                <5>1. CASE s = r /\ b = block[r] + 1
                    BY <5>1, <3>3, <3>4 DEF cell
                <5>2. CASE ~ (s = r /\ b = block[r] + 1)
                    <6>1. task[s] \in {"stream", "write"}
                        BY <1>1, <2>1, <4>2 DEF TransferInv, TypeInv
                    <6>2. b \in 1 .. block[s] /\ block[s] \in 0 .. Blocks
                        BY <1>1, <2>1, <4>2, <5>2 DEF TransferInv, TypeInv
                    <6>3. content[<<s, b>>] # "zeros" /\ <<s, b>> \in Cells
                        BY <2>3, <6>1, <6>2, BlocksAssumption, CellFacts
                        DEF TransferInv, DiskInv
                    <6> QED BY <6>3, <3>7
                <5> QED BY <5>1, <5>2
            <4>3. ASSUME NEW s \in Indexes, task'[s] \in {"lock", "sync"}, NEW c \in BlocksOf(s)
                  PROVE  content'[c] # "zeros"
                <5>1. s # r /\ task[s] \in {"lock", "sync"}
                    BY <2>1, <4>3 DEF TransferInv, TypeInv
                <5>2. content[c] # "zeros" /\ c \in Cells
                    BY <5>1, <4>3, <2>3, RangeFacts DEF TransferInv, DiskInv
                <5> QED BY <5>2, <3>7
            <4>4. ASSUME NEW s \in completed, NEW c \in BlocksOf(s)
                  PROVE  content'[c] # "zeros" /\ c \notin dirty'
                <5>1. s \in Indexes /\ s # r
                    BY <1>1 DEF TransferInv, TypeInv
                <5>2. content[c] # "zeros" /\ c \notin dirty /\ c \in Cells
                    BY <5>1, <2>3, RangeFacts DEF TransferInv, DiskInv
                <5>3. c # cell
                    BY <5>1, <3>1, RangesAreDisjoint
                <5> QED BY <5>2, <5>3, <3>2, <3>7
            <4> QED BY <1>1, <4>1, <4>2, <4>3, <4>4 DEF DiskInv
        <3> QED BY <2>2, <3>5, <3>6, <3>8 DEF TransferInv
    <2>4. CASE descriptor = "other"
        <3>1. UNCHANGED <<content, dirty>>
            BY <1>2, <2>4 DEF fileVars
        <3> QED BY <1>1, <2>1, <2>2, <2>4, <3>1
                DEF TransferInv, TypeInv, CallInv, DiskInv, Busy, Ended, HashMatches
    <2> QED BY <1>2, <2>3, <2>4
<1>3. CASE UNCHANGED fileVars /\ Fail(r)
    BY <1>1, <1>3, FailKeeps DEF fileVars, Busy
<1>4. CASE UNCHANGED fileVars /\ Step(r, "retry") /\ UNCHANGED <<attempt, block, using>>
    BY <1>1, <1>4 DEF TransferInv, TypeInv, CallInv, TaskInv, DiskInv, fileVars, Step, Busy,
                      HashMatches
<1> QED BY <1>2, <1>3, <1>4 DEF WriteBlock

\* fsync covers every block there is before the range is marked as completed.
LEMMA SyncFileKeeps ==
    ASSUME TransferInv, NEW r \in Indexes, SyncFile(r)
    PROVE  TransferInv'
<1>1. /\ UNCHANGED <<call, descriptor, cached, remote, verify, content, recorded>>
      /\ task[r] = "sync" /\ r \notin completed /\ descriptor # "none"
      /\ cached = "v1"
    BY DEF SyncFile, accessVars, TransferInv, TypeInv, CallInv, TaskInv, Busy
<1>2. CASE Fail(r) /\ UNCHANGED <<dirty, completed>>
    BY <1>1, <1>2, FailKeeps DEF Busy
<1>3. CASE descriptor # "closed" /\ Flushed
    <2>1. dirty' = {} \/ (descriptor = "other" /\ dirty' = dirty)
        BY <1>1, <1>3 DEF Flushed, TransferInv, TypeInv
    <2>2. CASE Fail(r) /\ UNCHANGED completed
        <3>1. TypeInv' /\ CallInv' /\ TaskInv'
            BY <1>1, <2>1, <2>2, BlocksAssumption
            DEF TransferInv, TypeInv, CallInv, TaskInv, Fail, Left, Step, Ended, Busy
        <3>2. DiskInv'
            BY <1>1, <2>1, <2>2 DEF TransferInv, TypeInv, DiskInv, Fail, Left, Step
        <3> QED BY <3>1, <3>2 DEF TransferInv
    <2>3. CASE /\ Step(r, "mark") /\ UNCHANGED <<attempt, block, using>>
               /\ completed' = completed \cup {r}
        <3>1. TypeInv' /\ CallInv' /\ TaskInv'
            BY <1>1, <2>1, <2>3 DEF TransferInv, TypeInv, CallInv, TaskInv, Step, Ended, Busy
        <3>2. DiskInv'
            <4>1. CASE descriptor = "other"
                BY <1>1, <4>1 DEF TransferInv, DiskInv
            <4>2. CASE descriptor # "other"
                <5>1. dirty' = {}
                    BY <2>1, <4>2
                <5>2. \A c \in BlocksOf(r) : content[c] # "zeros"
                    BY <1>1, <4>2 DEF TransferInv, DiskInv
                <5> QED BY <1>1, <2>3, <4>2, <5>1, <5>2 DEF TransferInv, TypeInv, DiskInv, Step
            <4> QED BY <4>1, <4>2
        <3> QED BY <3>1, <3>2 DEF TransferInv
    <2>4. \/ Fail(r) /\ UNCHANGED completed
          \/ /\ Step(r, "mark") /\ UNCHANGED <<attempt, block, using>>
             /\ completed' = completed \cup {r}
        BY <1>3 DEF SyncFile, Returns
    <2> QED BY <2>2, <2>3, <2>4
<1> QED BY <1>2, <1>3 DEF SyncFile

\* mark_complete records what is on the disk already.
LEMMA MarkCompleteKeeps ==
    ASSUME TransferInv, NEW r \in Indexes, MarkComplete(r)
    PROVE  TransferInv'
<1>1. /\ UNCHANGED <<call, descriptor, cached, remote, verify, content, dirty, completed>>
      /\ task[r] = "mark" /\ r \in completed
    BY DEF MarkComplete, accessVars, fileVars, TransferInv, TaskInv
<1>2. CASE Fail(r) /\ recorded' = recorded
    BY <1>1, <1>2, FailKeeps
<1>3. CASE /\ recorded' = recorded \cup {r}
           /\ Fail(r) \/ (Step(r, "done") /\ UNCHANGED <<attempt, block, using>>)
    <2>1. TypeInv' /\ CallInv' /\ TaskInv'
        BY <1>1, <1>3, BlocksAssumption
        DEF TransferInv, TypeInv, CallInv, TaskInv, Fail, Left, Step, Ended, Busy, HashMatches
    <2>2. DiskInv'
        BY <1>1, <1>3 DEF TransferInv, TypeInv, DiskInv, Fail, Left, Step
    <2> QED BY <2>1, <2>2 DEF TransferInv
<1> QED BY <1>2, <1>3 DEF MarkComplete, Returns

-----------------------------------------------------------------------------
(* Permits, the lock, and the numbers.                                     *)

BoundInv ==
    /\ attempt \in [Indexes -> 0 .. RequestRetries]
    /\ cancelled \subseteq Indexes
    /\ cached \in Objects \cup {"none"}
    /\ stop \in BOOLEAN /\ claim \in BOOLEAN
    /\ bytes \in [Indexes -> 0 .. Cardinality(Indexes)]
    /\ counter \in 0 .. Cardinality(Indexes)

InsideSet == {r \in Indexes : Inside(r)}
PermitInv == Cardinality(InsideSet) <= Permits
LockInv   == \A r, s \in Indexes : Locked(r) /\ Locked(s) => r = s

LEMMA SubsetBound ==
    ASSUME NEW S \in SUBSET Indexes
    PROVE  IsFiniteSet(S) /\ Cardinality(S) \in 0 .. Cardinality(Indexes)
BY IndexesAssumption, FS_Subset, FS_CardinalityType

\* Only Enter takes a permit, and only Lock the lock.
LEMMA WhoEnters ==
    ASSUME TransferInv, [TransferNext]_transferVars
    PROVE  /\ \/ \E r \in Indexes : Enter(r)
              \/ \A s \in Indexes : Inside(s)' => Inside(s)
           /\ \/ \E r \in Indexes : Lock(r)
              \/ \A s \in Indexes : Locked(s)' => Locked(s)
<1> USE DEF Inside, Locked, Ended
<1>1. CASE UNCHANGED task
    BY <1>1
<1>2. CASE OpenPartial
    BY <1>2 DEF OpenPartial
<1>3. ASSUME NEW r \in Indexes, TaskStep(r), ~ Enter(r), ~ Lock(r)
      PROVE  \A s \in Indexes : (Inside(s)' => Inside(s)) /\ (Locked(s)' => Locked(s))
    <2>1. task \in [Indexes -> Busy \cup Ended \cup {"mark"}]
        BY DEF TransferInv, TypeInv
    <2>2. Deliver(r) \/ Begin(r) \/ Request(r) \/ Receive(r)
            => \A s \in Indexes : (Inside(s)' => Inside(s)) /\ (Locked(s)' => Locked(s))
        BY <2>1 DEF Deliver, Begin, Request, Receive, GetAccess, Fail, Step
    <2>3. WriteBlock(r) \/ Retry(r) \/ SyncFile(r) \/ MarkComplete(r)
            => \A s \in Indexes : (Inside(s)' => Inside(s)) /\ (Locked(s)' => Locked(s))
        BY <2>1 DEF WriteBlock, Retry, SyncFile, MarkComplete, Returns, Fail, Step
    <2> QED BY <1>3, <2>2, <2>3 DEF TaskStep
<1>4. ASSUME NEW r \in Indexes, Enter(r)
      PROVE  \A s \in Indexes : Locked(s)' => Locked(s)
    BY <1>4 DEF Enter, Step, TransferInv, TypeInv
<1>5. ASSUME NEW r \in Indexes, Lock(r)
      PROVE  \A s \in Indexes : Inside(s)' => Inside(s)
    BY <1>5 DEF Lock, Step, TransferInv, TypeInv
<1>6. CallStep \/ Environment => UNCHANGED task \/ OpenPartial
    BY DEF CallStep, Environment, FirstAccess, Gather, FinalSync, CloseDescriptor, FinalCheck,
           CancelCall, AskToStop, LoseClaim, CallerEnds, ReplaceObject, ReuseDescriptor, taskVars
<1> QED BY <1>1, <1>2, <1>3, <1>4, <1>5, <1>6 DEF TransferNext, transferVars, taskVars

LEMMA PermitKeeps ==
    ASSUME TransferInv, PermitInv, [TransferNext]_transferVars
    PROVE  PermitInv'
<1>1. InsideSet \subseteq Indexes /\ InsideSet' \subseteq Indexes
    BY DEF InsideSet
<1>2. ASSUME NEW r \in Indexes, Enter(r)
      PROVE  PermitInv'
    <2>1. InsideSet' = InsideSet \cup {r}
        BY <1>2 DEF Enter, Step, InsideSet, Inside, Ended, TransferInv, TypeInv
    <2>2. Cardinality(InsideSet) < Permits
        BY <1>2 DEF Enter, InsideSet
    <2>3. Cardinality(InsideSet \cup {r}) <= Cardinality(InsideSet) + 1
        BY <1>1, SubsetBound, FS_AddElement, FS_CardinalityType
    <2>4. Cardinality(InsideSet) \in Nat /\ Cardinality(InsideSet \cup {r}) \in Nat
        BY <1>1, <2>1, SubsetBound
    <2> QED BY <2>1, <2>2, <2>3, <2>4, PermitsAssumption DEF PermitInv
<1>3. CASE \A s \in Indexes : Inside(s)' => Inside(s)
    <2>1. InsideSet' \subseteq InsideSet
        BY <1>3 DEF InsideSet
    <2>2. Cardinality(InsideSet') <= Cardinality(InsideSet)
        BY <1>1, <2>1, SubsetBound, FS_Subset
    <2>3. Cardinality(InsideSet) \in Nat /\ Cardinality(InsideSet') \in Nat
        BY <1>1, SubsetBound
    <2> QED BY <2>2, <2>3, PermitsAssumption DEF PermitInv
<1> QED BY <1>2, <1>3, WhoEnters

LEMMA LockKeepsOne ==
    ASSUME TransferInv, LockInv, [TransferNext]_transferVars
    PROVE  LockInv'
<1>1. ASSUME NEW r \in Indexes, Lock(r)
      PROVE  LockInv'
    BY <1>1 DEF Lock, LockIsFree, Step, Locked, LockInv, TransferInv, TypeInv
<1> QED BY <1>1, WhoEnters DEF LockInv

LEMMA BoundKeeps ==
    ASSUME TransferInv, BoundInv, [TransferNext]_transferVars
    PROVE  BoundInv'
<1> USE DEF BoundInv
<1>1. CASE UNCHANGED <<attempt, cancelled, cached, stop, claim, bytes, counter>>
    BY <1>1
<1>2. CASE CallStep \/ Environment
    BY <1>2 DEF CallStep, Environment, FirstAccess, OpenPartial, Gather, FinalSync,
       CloseDescriptor, FinalCheck, CancelCall, AskToStop, LoseClaim, CallerEnds, ReplaceObject,
       ReuseDescriptor, taskVars, accessVars, callerVars, rowVars, TransferInv, TypeInv
<1>3. ASSUME NEW r \in Indexes, Deliver(r) \/ Enter(r) \/ Receive(r) \/ WriteBlock(r) \/ Lock(r)
      PROVE  BoundInv'
    BY <1>3, AttemptsAssumption DEF Deliver, Enter, Receive, WriteBlock, Lock, Returns, Fail, Left, accessVars, callerVars,
       rowVars
<1>4. ASSUME NEW r \in Indexes, Begin(r) \/ Request(r)
      PROVE  BoundInv'
    BY <1>4, AttemptsAssumption DEF Begin, Request, GetAccess, Fail, Left, callerVars, rowVars, TransferInv, TypeInv
<1>5. ASSUME NEW r \in Indexes, Retry(r)
      PROVE  BoundInv'
    BY <1>5, AttemptsAssumption DEF Retry, NextAttempt, Fail, Left, accessVars, callerVars, rowVars
<1>6. ASSUME NEW r \in Indexes, SyncFile(r)
      PROVE  BoundInv'
    <2>1. bytes' \in [Indexes -> 0 .. Cardinality(Indexes)]
        <3>1. completed' \subseteq Indexes
            BY <1>6, SyncFileKeeps DEF TransferInv, TypeInv
        <3>2. Cardinality(completed') \in 0 .. Cardinality(Indexes)
            BY <3>1, SubsetBound
        <3> QED BY <1>6, <3>2 DEF SyncFile
    <2> QED BY <1>6, <2>1, AttemptsAssumption DEF SyncFile, Returns, Fail, Left, accessVars, callerVars
<1>7. ASSUME NEW r \in Indexes, MarkComplete(r)
      PROVE  BoundInv'
    BY <1>7, AttemptsAssumption DEF MarkComplete, Returns, Fail, Left, accessVars, callerVars
<1> QED BY <1>1, <1>2, <1>3, <1>4, <1>5, <1>6, <1>7
        DEF TransferNext, TaskStep, transferVars, taskVars, accessVars, callerVars, rowVars

-----------------------------------------------------------------------------
(* The counter of the file row.                                            *)

\* A cancelled call has cancelled every task that still runs.
CancelInv ==
    /\ descriptor = "none" => cancelled = {}
    /\ descriptor = "open" /\ cancelled # {} =>
           \A r \in Indexes : Running(r) => r \in cancelled

\* A task that is about to record its range has counted the chunk rows as they will be.  It can
\* count only while nothing that was completed was left unrecorded, but for a task that is
\* still at it.
CountInv ==
    /\ descriptor # "other" =>
         /\ counter = Cardinality(recorded)
         /\ claim => \A r \in Indexes :
                task[r] = "mark" => bytes[r] = Cardinality(recorded \cup {r})
    /\ descriptor = "open" /\ claim /\ (\E r \in Indexes : Running(r) /\ r \notin cancelled) =>
           \A r \in completed \ recorded : task[r] = "mark"

RowsInv == TransferInv /\ BoundInv /\ PermitInv /\ LockInv /\ CancelInv /\ CountInv

LEMMA CancelKeeps ==
    ASSUME TransferInv, CancelInv, [TransferNext]_transferVars
    PROVE  CancelInv'
<1> USE DEF CancelInv, Running, Ended
<1>t. task \in [Indexes -> Busy \cup Ended \cup {"mark"}]
    BY DEF TransferInv, TypeInv
<1>1. CASE UNCHANGED <<task, cancelled, descriptor>>
    BY <1>1
<1>2. CASE CallStep \/ Environment
    BY <1>2 DEF CallStep, Environment, FirstAccess, OpenPartial, Gather, FinalSync,
       CloseDescriptor, FinalCheck, CancelCall, AskToStop, LoseClaim, CallerEnds, ReplaceObject,
       ReuseDescriptor, taskVars, TransferInv, CallInv
<1>3. ASSUME NEW r \in Indexes, TaskStep(r)
      PROVE  CancelInv'
    <2>1. descriptor' = descriptor /\ task[r] # "none"
        BY <1>3 DEF TaskStep, Deliver, Enter, Begin, Request, Receive, WriteBlock, Retry, Lock,
           SyncFile, MarkComplete
    <2>2. descriptor # "none"
        BY <2>1 DEF TransferInv, CallInv
    <2> DEFINE Quits == /\ Running(r) /\ \A s \in Indexes \ {r} : Running(s)' => Running(s)
                        /\ \/ cancelled' = cancelled
                           \/ /\ cancelled' = cancelled \ {r}
                              /\ ~ Running(r)' \/ r \notin cancelled
                           \/ descriptor = "closed"
    <2>3. Quits
        <3>1. Deliver(r) \/ Enter(r) \/ Begin(r) \/ Request(r) \/ Receive(r) \/ Retry(r) \/ Lock(r)
                => Quits
            BY <1>t DEF Deliver, Enter, Begin, Request, Receive, Retry, Lock, GetAccess, Fail, Step
        <3>2. WriteBlock(r) \/ SyncFile(r) \/ MarkComplete(r) => Quits
            BY <1>t DEF WriteBlock, SyncFile, MarkComplete, Returns, Fail, Step
        <3> QED BY <1>3, <3>1, <3>2 DEF TaskStep
    <2> QED BY <2>1, <2>2, <2>3
<1> QED BY <1>1, <1>2, <1>3 DEF TransferNext, transferVars, taskVars

LEMMA CountKeeps ==
    ASSUME RowsInv, [TransferNext]_transferVars
    PROVE  CountInv'
<1>t. /\ TransferInv /\ BoundInv /\ LockInv /\ CancelInv /\ CountInv
      /\ task \in [Indexes -> Busy \cup Ended \cup {"mark"}]
      /\ completed \subseteq Indexes /\ recorded \subseteq completed
    BY DEF RowsInv, TransferInv, TypeInv
<1> USE DEF CountInv, Running, Ended
<1>1. CASE UNCHANGED <<task, cancelled, descriptor, claim, completed, bytes, recorded, counter>>
    BY <1>t, <1>1
<1>2. CASE CallStep
    BY <1>t, <1>2 DEF CallStep, FirstAccess, OpenPartial, Gather, FinalSync, CloseDescriptor,
       FinalCheck, taskVars, callerVars, rowVars, TransferInv, CallInv
<1>3. CASE Environment
    BY <1>t, <1>3 DEF Environment, CancelCall, AskToStop, LoseClaim, CallerEnds, ReplaceObject,
       ReuseDescriptor, taskVars, callerVars, rowVars
<1>4. ASSUME NEW r \in Indexes,
             \/ Enter(r) \/ Begin(r) \/ Request(r) \/ Receive(r) \/ WriteBlock(r) \/ Retry(r)
             \/ Lock(r)
      PROVE  CountInv'
    <2> DEFINE Counts == /\ UNCHANGED <<descriptor, claim, completed, bytes, recorded, counter>>
                         /\ task[r] \in Busy \ {"sync"} /\ task'[r] # "mark"
                         /\ \A s \in Indexes \ {r} : task'[s] = task[s]
    <2>1. Counts
        <3>1. Enter(r) \/ Begin(r) \/ Request(r) \/ Receive(r) \/ Retry(r) \/ Lock(r) => Counts
            BY <1>t DEF Enter, Begin, Request, Receive, Retry, Lock, GetAccess, Fail, Step, Busy,
               callerVars, rowVars
        <3>2. WriteBlock(r) => Counts
            BY <1>t DEF WriteBlock, Returns, Fail, Step, Busy, callerVars, rowVars
        <3> QED BY <1>4, <3>1, <3>2
    <2>2. descriptor = "open" => cancelled' = cancelled \/ (cancelled' = cancelled \ {r}
                                   /\ (r \notin cancelled \/ task'[r] = "failed"))
        BY <1>t, <1>4 DEF Enter, Begin, Request, Receive, Retry, Lock, WriteBlock, Returns, Fail,
           Step
    <2> QED BY <1>t, <2>1, <2>2 DEF Busy
\* A task that is cancelled before it records its range: no task goes on to count.
<1>5. ASSUME NEW r \in Indexes, Deliver(r)
      PROVE  CountInv'
    <2>1. /\ UNCHANGED <<descriptor, claim, completed, bytes, recorded, counter>>
          /\ r \in cancelled /\ cancelled' = cancelled \ {r}
          /\ task' = [task EXCEPT ![r] = "failed"]
        BY <1>5 DEF Deliver, Fail, Step, callerVars, rowVars
    <2>2. descriptor = "open" => \A s \in Indexes : Running(s)' => s \in cancelled'
        BY <1>t, <2>1 DEF CancelInv
    <2> QED BY <1>t, <2>1, <2>2
<1>6. ASSUME NEW r \in Indexes, SyncFile(r)
      PROVE  CountInv'
    <2>1. /\ UNCHANGED <<descriptor, claim, recorded, counter>>
          /\ task[r] = "sync" /\ r \notin completed
          /\ \A s \in Indexes \ {r} : task[s] # "mark"
        BY <1>t, <1>6 DEF SyncFile, callerVars, LockInv, Locked, Busy, TransferInv, TaskInv
    <2>2. CASE task' = [task EXCEPT ![r] = "failed"] /\ UNCHANGED <<completed, bytes>>
               /\ cancelled' = cancelled \ {r}
        BY <1>t, <2>1, <2>2
    <2>3. CASE /\ task' = [task EXCEPT ![r] = "mark"] /\ r \notin cancelled
               /\ completed' = completed \cup {r} /\ cancelled' = cancelled \ {r}
               /\ bytes' = [bytes EXCEPT ![r] = Cardinality(completed')]
               /\ descriptor # "closed"
        <3>1. descriptor = "open" /\ claim => completed = recorded
            BY <1>t, <2>1, <2>3
        <3>2. descriptor \in {"open", "other"}
            BY <1>t, <2>1, <2>3 DEF TransferInv, TypeInv, CallInv
        <3>3. bytes'[r] = Cardinality(completed') /\ task'[r] = "mark"
              /\ \A s \in Indexes \ {r} : task'[s] = task[s]
            BY <1>t, <2>3 DEF BoundInv
        <3> QED BY <1>t, <2>1, <2>3, <3>1, <3>2, <3>3
    <2> QED BY <1>6, <2>2, <2>3 DEF SyncFile, Fail, Step, Returns
<1>7. ASSUME NEW r \in Indexes, MarkComplete(r)
      PROVE  CountInv'
    <2>1. /\ UNCHANGED <<descriptor, claim, completed, bytes>> /\ cancelled' = cancelled \ {r}
          /\ task[r] = "mark" /\ \A s \in Indexes \ {r} : task[s] # "mark" /\ task'[s] = task[s]
          /\ task'[r] \in Ended
        BY <1>t, <1>7 DEF MarkComplete, callerVars, LockInv, Locked, Returns, Fail, Step
    <2>2. CASE claim
        <3>1. recorded' = recorded \cup {r} /\ counter' = bytes[r]
            BY <1>7, <2>2 DEF MarkComplete
        <3> QED BY <1>t, <2>1, <2>2, <3>1
    <2>3. CASE ~ claim
        <3>1. recorded' = recorded /\ counter' = counter
            BY <1>7, <2>3 DEF MarkComplete
        <3> QED BY <1>t, <2>1, <2>3, <3>1
    <2> QED BY <2>2, <2>3
<1> QED BY <1>1, <1>2, <1>3, <1>4, <1>5, <1>6, <1>7
        DEF TransferNext, TaskStep, transferVars, taskVars, callerVars, rowVars

-----------------------------------------------------------------------------
(* The theorems.                                                           *)

\* The invariant the theorems below rest on.
THEOREM TransferInvariant == TransferSpec => []TransferInv
<1>1. TransferInv /\ TransferNext => TransferInv'
    <2> SUFFICES ASSUME TransferInv, TransferNext PROVE TransferInv'
        OBVIOUS
    <2>1. CASE CallStep
        BY <2>1, FirstAccessKeeps, OpenPartialKeeps, GatherKeeps, FinalSyncKeeps,
           CloseDescriptorKeeps, FinalCheckKeeps DEF CallStep
    <2>2. CASE \E r \in Indexes : TaskStep(r)
        BY <2>2, DeliverKeeps, EnterKeeps, BeginKeeps, RequestKeeps, ReceiveKeeps,
           WriteBlockKeeps, RetryKeeps, LockKeeps, SyncFileKeeps, MarkCompleteKeeps DEF TaskStep
    <2>3. CASE Environment
        BY <2>3, EnvironmentKeeps
    <2> QED BY <2>1, <2>2, <2>3 DEF TransferNext
<1>2. TransferInv /\ UNCHANGED transferVars => TransferInv'
    BY DEF transferVars, taskVars, accessVars, callerVars, fileVars, rowVars,
           TransferInv, TypeInv, CallInv, TaskInv, DiskInv, HashMatches
<1> QED BY <1>1, <1>2, InitHolds, PTL DEF TransferSpec

\* Every block of a recorded chunk was written and is on the disk as long as the number of
\* the descriptor names no other file, whatever fails and whichever tasks outlive the call;
\* where no disk is full, all of it was.
THEOREM RecordedUntilReused == TransferSpec => []RecordedUntilReuse
<1>1. TransferInv => RecordedUntilReuse
    <2> SUFFICES ASSUME TransferInv, descriptor # "other", NEW r \in recorded, NEW c \in BlocksOf(r)
                 PROVE  Written(c) /\ c \notin dirty
        BY DEF RecordedUntilReuse, RecordedIsWritten
    <2>1. r \in Indexes /\ r \in completed
        BY DEF TransferInv, TypeInv
    <2>2. content[c] # "zeros" /\ c \notin dirty /\ c \in Cells
        BY <2>1, RangeFacts DEF TransferInv, DiskInv
    <2> QED BY <2>2 DEF TransferInv, TypeInv, DiskInv, Written
<1> QED BY <1>1, TransferInvariant, PTL

\* A call that returns has the whole file of one object when it hashes it or no disk is
\* full, and otherwise that file but for the ends of blocks; all of it fsynced and recorded,
\* with no task left behind.
THEOREM ReturnedWhole == TransferSpec => []ReturnedIsWhole
<1>1. TransferInv => ReturnedIsWhole
    <2> SUFFICES ASSUME TransferInv, call = "returned"
                 PROVE  /\ IF verify \/ "full" \notin Events THEN HashMatches
                           ELSE \A c \in Cells : content[c] \in {"v1", "short"}
                        /\ dirty = {}
                        /\ recorded = Indexes
                        /\ descriptor # "open"
                        /\ \A r \in Indexes : ~ Running(r)
        BY DEF ReturnedIsWhole
    <2>1. /\ \A r \in Indexes : task[r] = "done"
          /\ \A c \in Cells : content[c] # "zeros"
          /\ dirty = {} /\ descriptor # "open"
        BY DEF TransferInv, CallInv
    <2>2. recorded = Indexes
        BY <2>1 DEF TransferInv, TypeInv, TaskInv
    <2>3. verify => HashMatches
        BY DEF TransferInv, CallInv
    <2>4. ~ verify => \A c \in Cells : content[c] = "v1" \/ (content[c] = "short" /\ "full" \in Events)
        BY <2>1 DEF TransferInv, DiskInv
    <2>5. IF verify \/ "full" \notin Events THEN HashMatches
          ELSE \A c \in Cells : content[c] \in {"v1", "short"}
        BY <2>3, <2>4 DEF HashMatches, TransferInv, TypeInv
    <2> QED BY <2>1, <2>2, <2>5 DEF Running, Ended
<1> QED BY <1>1, TransferInvariant, PTL

\* The invariant of the permits, the lock, the cancellation of a call and the counter.
THEOREM RowsInvariant == TransferSpec => []RowsInv
<1>1. TransferInit => BoundInv /\ PermitInv /\ LockInv /\ CancelInv /\ CountInv
    <2> SUFFICES ASSUME TransferInit
                 PROVE  BoundInv /\ PermitInv /\ LockInv /\ CancelInv /\ CountInv
        OBVIOUS
    <2>1. BoundInv
        <3>1. /\ Cardinality(completed) \in 0 .. Cardinality(Indexes)
              /\ 0 \in 0 .. Cardinality(Indexes)
            BY SubsetBound DEF TransferInit
        <3>2. 0 \in 0 .. RequestRetries
            BY AttemptsAssumption
        <3> QED BY <3>1, <3>2 DEF TransferInit, BoundInv, Objects
    <2>2. PermitInv
        <3>1. InsideSet = {}
            BY DEF TransferInit, InsideSet, Inside, Ended
        <3> QED BY <3>1, FS_EmptySet, PermitsAssumption DEF PermitInv
    <2>3. LockInv /\ CancelInv /\ CountInv
        BY DEF TransferInit, LockInv, CancelInv, CountInv, Locked
    <2> QED BY <2>1, <2>2, <2>3
<1>2. TransferInv /\ TransferInv' /\ RowsInv /\ [TransferNext]_transferVars => RowsInv'
    BY BoundKeeps, PermitKeeps, LockKeepsOne, CancelKeeps, CountKeeps DEF RowsInv
<1>3. TransferInv /\ BoundInv /\ PermitInv /\ LockInv /\ CancelInv /\ CountInv => RowsInv
    BY DEF RowsInv
<1> QED BY <1>1, <1>2, <1>3, InitHolds, TransferInvariant, PTL DEF TransferSpec

\* Every variable keeps its type, no more than `workers' tasks hold a permit, and one
\* the lock under which ranges are synced and recorded.
THEOREM TransferTypes == TransferSpec => []TransferTypeOK
<1>1. RowsInv => TransferTypeOK
    <2> SUFFICES ASSUME RowsInv PROVE TransferTypeOK
        OBVIOUS
    <2>1. Cardinality({r \in Indexes : Locked(r)}) <= 1
        <3>1. CASE {r \in Indexes : Locked(r)} = {}
            BY <3>1, FS_EmptySet
        <3>2. ASSUME NEW s \in Indexes, Locked(s)
              PROVE  Cardinality({r \in Indexes : Locked(r)}) <= 1
            <4>1. {r \in Indexes : Locked(r)} = {s}
                BY <3>2 DEF RowsInv, LockInv
            <4>2. Cardinality({s}) = 1
                BY FS_Singleton
            <4> QED BY <4>1, <4>2
        <3> QED BY <3>1, <3>2
    <2>2. Cardinality({r \in Indexes : Inside(r)}) <= Permits
        BY DEF RowsInv, PermitInv, InsideSet
    <2>3. recorded \subseteq Indexes
        BY DEF RowsInv, TransferInv, TypeInv
    <2> QED BY <2>1, <2>2, <2>3
            DEF RowsInv, TransferInv, TypeInv, BoundInv, TransferTypeOK, Busy, Ended
<1> QED BY <1>1, RowsInvariant, PTL

\* record_progress overwrites completed_bytes with what the task has computed under the
\* lock: it is the size of the recorded chunks, in whatever order the tasks finish, although
\* a cancelled or refused task leaves a chunk that is counted in memory and not recorded.
THEOREM CounterMatches == TransferSpec => []CounterMatchesRecorded
<1>1. RowsInv => CounterMatchesRecorded
    BY DEF RowsInv, CountInv, CounterMatchesRecorded
<1> QED BY <1>1, RowsInvariant, PTL
=============================================================================
