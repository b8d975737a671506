---------------------------- MODULE JobLifecycle ----------------------------
(***************************************************************************)
(* What the worker promises about a submitted job, whatever happens to     *)
(* messages, processes and transactions: it is tried a bounded number of   *)
(* times, each try fails at most once, it completes only out of a try that *)
(* has not failed, it is given up only when its budget is spent, and a     *)
(* finished job never changes again.                                       *)
(***************************************************************************)
EXTENDS Naturals

CONSTANTS Jobs, MaxTries

VARIABLES status, tries, failures

lifecycle == <<status, tries, failures>>

Init ==
  /\ status   = [j \in Jobs |-> "absent"]
  /\ tries    = [j \in Jobs |-> 0]
  /\ failures = [j \in Jobs |-> 0]

Submit(j) ==
  /\ status[j] = "absent"
  /\ status' = [status EXCEPT ![j] = "pending"]
  /\ UNCHANGED <<tries, failures>>

Try(j) ==
  /\ status[j] = "pending" /\ tries[j] < MaxTries
  /\ tries' = [tries EXCEPT ![j] = @ + 1]
  /\ UNCHANGED <<status, failures>>

\* A try fails: the job waits for another one, or the budget is spent.
FailedTry(j) ==
  /\ status[j] = "pending" /\ failures[j] < tries[j]
  /\ failures' = [failures EXCEPT ![j] = @ + 1]
  /\ \/ failures[j] + 1 < MaxTries /\ UNCHANGED status
     \/ /\ failures[j] + 1 >= MaxTries \/ tries[j] >= MaxTries
        /\ status' = [status EXCEPT ![j] = "failed"]
  /\ UNCHANGED tries

Succeed(j) ==
  /\ status[j] = "pending" /\ failures[j] < tries[j]
  /\ status' = [status EXCEPT ![j] = "completed"]
  /\ UNCHANGED <<tries, failures>>

\* Every try was lost with its worker: one claim too many ends the job.
GiveUp(j) ==
  /\ status[j] = "pending" /\ tries[j] = MaxTries
  /\ tries' = [tries EXCEPT ![j] = @ + 1]
  /\ status' = [status EXCEPT ![j] = "failed"]
  /\ UNCHANGED failures

Next == \E j \in Jobs : \/ Submit(j) \/ Try(j) \/ FailedTry(j)
                        \/ Succeed(j) \/ GiveUp(j)

Spec == Init /\ [][Next]_lifecycle
=============================================================================
