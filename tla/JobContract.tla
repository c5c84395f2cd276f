---------------------------- MODULE JobContract ----------------------------
(***************************************************************************)
(* What the JobQueue interface promises about a one-off job, whatever the  *)
(* driver: it is handed to its handler until that succeeds once or has     *)
(* failed as often as the job allows, never twice at a time, and a job     *)
(* that is finished stays finished.  A queue that stops or dies may lose   *)
(* the job or, when it is durable, hand it out again.                      *)
(***************************************************************************)
EXTENDS Naturals

CONSTANTS Jobs,        \* one-off jobs
          MaxAttempts  \* the largest number of attempts a job may ask for

VARIABLE job

vars == job

States == {"new", "waiting", "running", "done", "failed", "lost"}

Init == job = [j \in Jobs |-> [state |-> "new", budget |-> 1, fails |-> 0]]

Become(j, s) == job' = [job EXCEPT ![j].state = s]

Add(j, n) ==
  /\ job[j].state = "new"
  /\ job' = [job EXCEPT ![j] = [state |-> "waiting", budget |-> n, fails |-> 0]]

Begin(j) == job[j].state = "waiting" /\ Become(j, "running")

Succeed(j) == job[j].state = "running" /\ Become(j, "done")

Fail(j) ==
  /\ job[j].state = "running"
  /\ job[j].fails < job[j].budget
  /\ job' = [job EXCEPT ![j] =
       [state |-> IF job[j].fails + 1 < job[j].budget THEN "waiting" ELSE "failed",
        budget |-> job[j].budget, fails |-> job[j].fails + 1]]

\* The queue stops or dies: of the unfinished jobs some are lost for good and
\* some that were running wait again.
Interrupt ==
  \E Lost, Again \in SUBSET {j \in Jobs : job[j].state \in {"waiting", "running"}} :
    job' = [j \in Jobs |-> IF j \in Lost THEN [state |-> "lost", budget |-> job[j].budget, fails |-> 0]
                           ELSE IF j \in Again THEN [job[j] EXCEPT !.state = "waiting"]
                           ELSE job[j]]

Next ==
  \/ \E j \in Jobs : (\E n \in 1..MaxAttempts : Add(j, n)) \/ Begin(j) \/ Succeed(j) \/ Fail(j)
  \/ Interrupt

Spec == Init /\ [][Next]_vars
=============================================================================
