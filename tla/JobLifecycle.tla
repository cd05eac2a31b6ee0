---------------------------- MODULE JobLifecycle ----------------------------
(***************************************************************************)
(* What SQLiteQueueStore promises a client about one download, without     *)
(* owners, leases, tokens, retries or chunks: the states its methods let a *)
(* client see, and the steps between them.                                 *)
(*                                                                         *)
(* A download waits, is worked on (perhaps many times, by many workers) or *)
(* is being cancelled, and ends.  The files verified so far are the        *)
(* progress that the client keeps between two attempts.                    *)
(***************************************************************************)
CONSTANTS Jobs, Files

VARIABLES phase, verified

lifecycleVars == <<phase, verified>>

Phases == {"none", "waiting", "working", "cancelling", "completed", "failed", "cancelled",
           "gone"}

LifecycleInit ==
    /\ phase = [j \in Jobs |-> "none"]
    /\ verified = [j \in Jobs |-> {}]

Move(j, from, to) == phase[j] \in from /\ phase' = [phase EXCEPT ![j] = to]

\* Only an attempt in progress changes what is verified; a file can be lost again.
Attempt(j) ==
    /\ phase[j] \in {"working", "cancelling"}
    /\ \E done \in SUBSET Files : verified' = [verified EXCEPT ![j] = done]
    /\ UNCHANGED phase

Submit(j)  == Move(j, {"none", "failed"}, "waiting") /\ UNCHANGED verified
Suspend(j) == Move(j, {"working"}, "waiting") /\ UNCHANGED verified
Cancel(j)  == /\ \/ Move(j, {"waiting"}, "cancelled")
                 \/ Move(j, {"waiting", "working"}, "cancelling")
              /\ UNCHANGED verified
Fail(j)    == Move(j, {"working", "cancelling"}, "failed") /\ UNCHANGED verified
Complete(j) ==
    /\ Move(j, {"working"}, "completed")
    /\ verified[j] = Files
    /\ UNCHANGED verified
Dismiss(j) ==
    /\ Move(j, {"completed", "failed", "cancelled"}, "gone")
    /\ verified' = [verified EXCEPT ![j] = {}]

\* Cancellations are acknowledged in any number at once, and in the same
\* transaction at most one waiting download is started.
Acknowledge(done, started) ==
    /\ \A j \in done : phase[j] = "cancelling"
    /\ \A j \in started : phase[j] = "waiting"
    /\ \A i, j \in started : i = j
    /\ phase' = [j \in Jobs |-> IF j \in done THEN "cancelled"
                                ELSE IF j \in started THEN "working" ELSE phase[j]]
    /\ UNCHANGED verified

LifecycleNext ==
    \/ \E j \in Jobs : \/ Attempt(j) \/ Submit(j) \/ Suspend(j) \/ Cancel(j)
                       \/ Fail(j) \/ Complete(j) \/ Dismiss(j)
    \/ \E done, started \in SUBSET Jobs : Acknowledge(done, started)

LifecycleSpec == LifecycleInit /\ [][LifecycleNext]_lifecycleVars
=============================================================================
