----------------------------- MODULE QueueProofs -----------------------------
(***************************************************************************)
(* Proofs about the job queue and about the poll of a portal, the job it   *)
(* runs every few minutes.  Of JobQueue: type correctness, and that both   *)
(* drivers keep the contract of the JobQueue interface, for any names, any *)
(* boot sequence, any jobs and any number of stops and crashes.  Of Radar: *)
(* its safety properties, for any portals, rates, listings, vocabularies,  *)
(* policies, pool sizes, polls at once and failures.                       *)
(***************************************************************************)
EXTENDS JobQueue, Radar, FiniteSetTheorems, WellFoundedInduction, TLAPS

-----------------------------------------------------------------------------
(* The job queue. *)

JobRecord == [state : {"new", "waiting", "running", "done", "failed", "lost"},
              attempts : 1..MaxAttempts, attempt : 0..MaxAttempts]

\* A job's attempts agree with its state: a job that waits has an attempt left,
\* and the attempt of a running job is one of those it asked for.
AttemptsFit(r) ==
  /\ r.state = "new" => r.attempt = 0 /\ r.attempts = 1
  /\ r.state = "waiting" => r.attempt < r.attempts
  /\ r.state \in {"running", "done"} => 1 <= r.attempt /\ r.attempt <= r.attempts

\* The part of the invariant that speaks of the one-off jobs.
JobsFit == job \in [Jobs -> JobRecord] /\ \A j \in Jobs : AttemptsFit(job[j])

IInv == TypeOK /\ JobsFit

-----------------------------------------------------------------------------
(* One job changes. *)

\* A job that becomes a fitting record leaves all jobs fitting.
LEMMA OneJobFits ==
  ASSUME JobsFit, NEW j \in Jobs, NEW r \in JobRecord, AttemptsFit(r),
         job' = [job EXCEPT ![j] = r]
  PROVE  JobsFit'
BY DEF JobsFit, AttemptsFit

\* What the contract sees of that change.
LEMMA OneJobSeen ==
  ASSUME JobsFit, NEW j \in Jobs, NEW r \in JobRecord, job' = [job EXCEPT ![j] = r]
  PROVE  Seen' = [Seen EXCEPT ![j] = Abstract(r)]
<1>1. ASSUME NEW k \in Jobs
      PROVE  Abstract(job'[k]) = IF k = j THEN Abstract(r) ELSE Seen[k]
  <2>1. CASE k = j
    <3>1. job'[k] = r
      BY <2>1 DEF JobsFit
    <3>2. QED
      BY <3>1, <2>1
  <2>2. CASE k # j
    <3>1. job'[k] = job[k]
      BY <2>2 DEF JobsFit
    <3>2. Seen[k] = Abstract(job[k])
      BY DEF Seen
    <3>3. QED
      BY <3>1, <3>2, <2>2
  <2>3. QED
    BY <2>1, <2>2
<1>2. Seen' = [k \in Jobs |-> Abstract(job'[k])]
  BY DEF Seen
<1>3. Seen' = [k \in Jobs |-> IF k = j THEN Abstract(r) ELSE Seen[k]]
  BY <1>1, <1>2
<1>4. Seen = [k \in Jobs |-> Seen[k]]
  BY DEF Seen
<1>5. QED
  BY <1>3, <1>4

\* A change of the state alone is the contract's Become.
LEMMA BecomeSeen ==
  ASSUME JobsFit, NEW j \in Jobs, NEW r \in JobRecord, job' = [job EXCEPT ![j] = r],
         NEW s, Abstract(r) = [Abstract(job[j]) EXCEPT !.state = s]
  PROVE  Contract!Become(j, s)
<1>1. Seen[j] = Abstract(job[j])
  BY DEF Seen
<1>2. [Seen EXCEPT ![j].state = s] = [Seen EXCEPT ![j] = Abstract(r)]
  BY <1>1
<1>3. QED
  BY <1>2, OneJobSeen DEF Contract!Become

\* Enqueue gives a new job its attempts.
LEMMA EnqueueJob ==
  ASSUME JobsFit, NEW j \in Jobs, NEW n \in 1..MaxAttempts, Enqueue(j, n)
  PROVE  JobsFit' /\ Contract!Add(j, n)
<1> USE JobQueueAssumption
<1> DEFINE r == [state |-> "waiting", attempts |-> n, attempt |-> 0]
<1>1. r \in JobRecord /\ AttemptsFit(r)
  BY DEF JobRecord, AttemptsFit
<1>2. job' = [job EXCEPT ![j] = r] /\ job[j].state = "new"
  BY DEF Enqueue
<1>3. JobsFit'
  BY <1>1, <1>2, OneJobFits
<1>4. Abstract(r) = [state |-> "waiting", budget |-> n, fails |-> 0]
  BY DEF Abstract, Fails
<1> HIDE DEF r
<1>5. Contract!Add(j, n)
  <2>1. Seen[j].state = job[j].state
    BY DEF Seen, Abstract
  <2>2. QED
    BY <1>1, <1>2, <1>4, <2>1, OneJobSeen DEF Contract!Add
<1>6. QED
  BY <1>3, <1>5

\* Begin starts the next attempt of a job that has one left.
LEMMA BeginJob ==
  ASSUME JobsFit, NEW j \in Jobs, Begin(j)
  PROVE  JobsFit' /\ Contract!Begin(j)
<1> USE JobQueueAssumption
<1> DEFINE r == [state |-> "running", attempts |-> job[j].attempts, attempt |-> job[j].attempt + 1]
<1>1. job[j] \in JobRecord /\ job[j].state = "waiting" /\ job[j].attempt < job[j].attempts
  BY DEF JobsFit, AttemptsFit, Begin
<1>2. r \in JobRecord /\ AttemptsFit(r)
  BY <1>1 DEF JobRecord, AttemptsFit
<1>3. job' = [job EXCEPT ![j] = r]
  BY DEF Begin
<1>4. Abstract(r) = [Abstract(job[j]) EXCEPT !.state = "running"]
  BY <1>1 DEF Abstract, Fails, JobRecord
<1> HIDE DEF r
<1>5. JobsFit'
  BY <1>2, <1>3, OneJobFits
<1>6. Contract!Begin(j)
  <2>1. Seen[j].state = job[j].state
    BY DEF Seen, Abstract
  <2>2. QED
    BY <1>1, <1>2, <1>3, <1>4, <2>1, BecomeSeen DEF Contract!Begin
<1>7. QED
  BY <1>5, <1>6

\* A handler that succeeds ends the job.
LEMMA SucceedJob ==
  ASSUME JobsFit, NEW j \in Jobs, Succeed(j)
  PROVE  JobsFit' /\ Contract!Succeed(j)
<1> DEFINE r == [state |-> "done", attempts |-> job[j].attempts, attempt |-> job[j].attempt]
<1>1. job[j] \in JobRecord /\ job[j].state = "running" /\ AttemptsFit(job[j])
  BY DEF JobsFit, Succeed
<1>2. r \in JobRecord /\ AttemptsFit(r)
  BY <1>1 DEF JobRecord, AttemptsFit
<1>3. job' = [job EXCEPT ![j] = r]
  <2>1. [job[j] EXCEPT !.state = "done"] = r
    BY <1>1 DEF JobRecord
  <2>2. QED
    BY <2>1 DEF Succeed
<1>4. Abstract(r) = [Abstract(job[j]) EXCEPT !.state = "done"]
  BY <1>1 DEF Abstract, Fails, JobRecord
<1> HIDE DEF r
<1>5. JobsFit'
  BY <1>2, <1>3, OneJobFits
<1>6. Contract!Succeed(j)
  <2>1. Seen[j].state = job[j].state
    BY DEF Seen, Abstract
  <2>2. QED
    BY <1>1, <1>2, <1>3, <1>4, <2>1, BecomeSeen DEF Contract!Succeed
<1>7. QED
  BY <1>5, <1>6

\* A handler that rejects costs the job one attempt, and its last one the job.
LEMMA FailJob ==
  ASSUME JobsFit, NEW j \in Jobs, Fail(j)
  PROVE  JobsFit' /\ Contract!Fail(j)
<1> USE JobQueueAssumption
<1> DEFINE again == IF job[j].attempt < job[j].attempts THEN "waiting" ELSE "failed"
<1> DEFINE r == [state |-> again, attempts |-> job[j].attempts, attempt |-> job[j].attempt]
<1>1. job[j] \in JobRecord /\ job[j].state = "running" /\ AttemptsFit(job[j])
  BY DEF JobsFit, Fail
<1>2. r \in JobRecord /\ AttemptsFit(r)
  BY <1>1 DEF JobRecord, AttemptsFit
<1>3. job' = [job EXCEPT ![j] = r]
  <2>1. [job[j] EXCEPT !.state = again] = r
    BY <1>1 DEF JobRecord
  <2>2. QED
    BY <2>1 DEF Fail, Retries
<1>4. /\ Abstract(job[j]).fails = job[j].attempt - 1
      /\ Abstract(job[j]).budget = job[j].attempts
      /\ Abstract(job[j]).state = "running"
  BY <1>1 DEF Abstract, Fails
<1>5. job[j].attempt \in Nat /\ job[j].attempts \in Nat /\ 1 <= job[j].attempt /\ job[j].attempt <= job[j].attempts
  BY <1>1 DEF JobRecord, AttemptsFit
<1>6. Abstract(r) = [state |-> again, budget |-> job[j].attempts, fails |-> job[j].attempt]
  BY <1>1 DEF Abstract, Fails
<1>7. Abstract(job[j]) = [state |-> "running", budget |-> job[j].attempts, fails |-> job[j].attempt - 1]
  BY <1>1 DEF Abstract, Fails
<1> HIDE DEF r
<1>8. JobsFit'
  BY <1>2, <1>3, OneJobFits
<1>9. Contract!Fail(j)
  <2>1. Seen[j] = [state |-> "running", budget |-> job[j].attempts, fails |-> job[j].attempt - 1]
    BY <1>7 DEF Seen
  <2>2. (job[j].attempt - 1) + 1 = job[j].attempt
    BY <1>5
  <2>3. again = IF Seen[j].fails + 1 < Seen[j].budget THEN "waiting" ELSE "failed"
    BY <1>5, <2>1, <2>2
  <2>4. Abstract(r) = [state |-> again, budget |-> Seen[j].budget, fails |-> Seen[j].fails + 1]
    BY <1>6, <2>1, <2>2
  <2>5. Seen' = [Seen EXCEPT ![j] = Abstract(r)]
    BY <1>2, <1>3, OneJobSeen
  <2>6. Seen[j].state = "running" /\ Seen[j].fails < Seen[j].budget
    BY <1>5, <2>1
  <2>7. QED
    BY <2>3, <2>4, <2>5, <2>6 DEF Contract!Fail
<1>10. QED
  BY <1>8, <1>9

-----------------------------------------------------------------------------
(* Many jobs change: timers are cleared, the process stops or dies. *)

\* A job that is lost, and a durable job that waits for a worker again.
AsLost(r) == [r EXCEPT !.state = "lost"]
AsWaiting(r) == [state |-> "waiting", attempts |-> r.attempts, attempt |-> r.attempt - 1]

\* A job that is lost stays a fitting record, and the contract sees it lost.
LEMMA LostJob ==
  ASSUME NEW r \in JobRecord
  PROVE  /\ AsLost(r) \in JobRecord
         /\ AttemptsFit(AsLost(r))
         /\ Abstract(AsLost(r)) = [state |-> "lost", budget |-> Abstract(r).budget, fails |-> 0]
<1>1. AsLost(r) = [state |-> "lost", attempts |-> r.attempts, attempt |-> r.attempt]
  BY DEF AsLost, JobRecord
<1>2. AsLost(r) \in JobRecord /\ AttemptsFit(AsLost(r))
  BY <1>1 DEF JobRecord, AttemptsFit
<1>3. QED
  BY <1>1, <1>2 DEF Abstract, Fails

\* A job handed out again has the attempts it had, so the contract sees it wait.
LEMMA AgainJob ==
  ASSUME NEW r \in JobRecord, AttemptsFit(r), r.state = "running"
  PROVE  /\ AsWaiting(r) \in JobRecord
         /\ AttemptsFit(AsWaiting(r))
         /\ Abstract(AsWaiting(r)) = [Abstract(r) EXCEPT !.state = "waiting"]
<1> USE JobQueueAssumption
<1>1. AsWaiting(r) \in JobRecord /\ AttemptsFit(AsWaiting(r))
  BY DEF AsWaiting, JobRecord, AttemptsFit
<1>2. Abstract(r) = [state |-> "running", budget |-> r.attempts, fails |-> r.attempt - 1]
  BY DEF Abstract, Fails
<1>3. Abstract(AsWaiting(r)) = [state |-> "waiting", budget |-> r.attempts, fails |-> r.attempt - 1]
  BY DEF AsWaiting, Abstract, Fails
<1>4. QED
  BY <1>1, <1>2, <1>3

\* Jobs that are lost or handed out again are an Interrupt of the contract.
LEMMA InterruptedJobs ==
  ASSUME JobsFit, NEW Lost \in SUBSET Jobs, NEW Again \in SUBSET Jobs,
         \A j \in Lost : job[j].state \in {"waiting", "running"},
         \A j \in Again : job[j].state = "running",
         job' = [j \in Jobs |-> IF j \in Lost THEN AsLost(job[j])
                                ELSE IF j \in Again THEN AsWaiting(job[j]) ELSE job[j]]
  PROVE  JobsFit' /\ Contract!Interrupt
<1>1. \A j \in Jobs : job[j] \in JobRecord /\ AttemptsFit(job[j])
  BY DEF JobsFit
<1>2. JobsFit'
  <2>1. ASSUME NEW j \in Jobs
        PROVE  job'[j] \in JobRecord /\ AttemptsFit(job'[j])
    <3>1. CASE j \in Lost
      BY <1>1, <3>1, LostJob
    <3>2. CASE j \notin Lost /\ j \in Again
      BY <1>1, <3>2, AgainJob
    <3>3. CASE j \notin Lost /\ j \notin Again
      BY <1>1, <3>3
    <3>4. QED
      BY <3>1, <3>2, <3>3
  <2>2. job' = [j \in Jobs |-> job'[j]]
    OBVIOUS
  <2>3. (\A j \in Jobs : AttemptsFit(job[j]))' /\ job' \in [Jobs -> JobRecord]
    BY <2>1, <2>2 DEF AttemptsFit
  <2>4. QED
    BY <2>3 DEF JobsFit
<1>3. \A j \in Jobs : Seen[j] = Abstract(job[j]) /\ Seen[j].state = job[j].state
  BY DEF Seen, Abstract
<1>4. Seen' = [j \in Jobs |-> IF j \in Lost
                              THEN [state |-> "lost", budget |-> Seen[j].budget, fails |-> 0]
                              ELSE IF j \in Again THEN [Seen[j] EXCEPT !.state = "waiting"]
                              ELSE Seen[j]]
  <2>1. ASSUME NEW j \in Jobs
        PROVE  Abstract(job'[j]) = IF j \in Lost
                 THEN [state |-> "lost", budget |-> Seen[j].budget, fails |-> 0]
                 ELSE IF j \in Again THEN [Seen[j] EXCEPT !.state = "waiting"] ELSE Seen[j]
    <3>1. CASE j \in Lost
      <4>1. job'[j] = AsLost(job[j])
        BY <3>1
      <4>2. QED
        BY <1>1, <1>3, <3>1, <4>1, LostJob
    <3>2. CASE j \notin Lost /\ j \in Again
      <4>1. job'[j] = AsWaiting(job[j])
        BY <3>2
      <4>2. QED
        BY <1>1, <1>3, <3>2, <4>1, AgainJob
    <3>3. CASE j \notin Lost /\ j \notin Again
      <4>1. job'[j] = job[j]
        BY <3>3
      <4>2. QED
        BY <1>3, <3>3, <4>1
    <3>4. QED
      BY <3>1, <3>2, <3>3
  <2>2. Seen' = [j \in Jobs |-> Abstract(job'[j])]
    BY DEF Seen
  <2>3. QED
    BY <2>1, <2>2
<1>5. Lost \in SUBSET {j \in Jobs : Seen[j].state \in {"waiting", "running"}}
  BY <1>3
<1>6. Again \in SUBSET {j \in Jobs : Seen[j].state \in {"waiting", "running"}}
  BY <1>3
<1>7. QED
  BY <1>2, <1>4, <1>5, <1>6 DEF Contract!Interrupt

\* A timer that fires in vain loses its job.
LEMMA DropJob ==
  ASSUME JobsFit, NEW j \in Jobs, Drop(j)
  PROVE  JobsFit' /\ Contract!Interrupt
<1> DEFINE Lost == {j}
<1> DEFINE Again == {k \in Jobs : FALSE}
<1>1. job' = [job EXCEPT ![j] = AsLost(job[j])] /\ job[j].state = "waiting"
  BY DEF Drop, AsLost
<1>2. job' = [k \in Jobs |-> IF k \in Lost THEN AsLost(job[k])
                             ELSE IF k \in Again THEN AsWaiting(job[k]) ELSE job[k]]
  BY <1>1 DEF JobsFit
<1>3. Lost \in SUBSET Jobs /\ \A k \in Lost : job[k].state \in {"waiting", "running"}
  BY <1>1
<1>4. Again \in SUBSET Jobs /\ \A k \in Again : job[k].state = "running"
  OBVIOUS
<1> HIDE DEF Lost, Again
<1>5. QED
  BY <1>2, <1>3, <1>4, InterruptedJobs

\* stop() clears the timers of MemoryQueue; Redis keeps its jobs.
LEMMA StopJobs ==
  ASSUME JobsFit, Stop
  PROVE  JobsFit' /\ Contract!Interrupt
<1> DEFINE Lost == {j \in Jobs : driver = "memory" /\ job[j].state = "waiting"}
<1> DEFINE Again == {j \in Jobs : FALSE}
<1>1. job' = [j \in Jobs |-> IF j \in Lost THEN AsLost(job[j])
                             ELSE IF j \in Again THEN AsWaiting(job[j]) ELSE job[j]]
  BY DEF Stop, WithoutTimers, AsLost
<1>2. Lost \in SUBSET Jobs /\ \A j \in Lost : job[j].state \in {"waiting", "running"}
  OBVIOUS
<1>3. Again \in SUBSET Jobs /\ \A j \in Again : job[j].state = "running"
  OBVIOUS
<1> HIDE DEF Lost, Again
<1>4. QED
  BY <1>1, <1>2, <1>3, InterruptedJobs

\* A process that exits loses the jobs of MemoryQueue; Redis hands its own out again.
LEMMA ExitJobs ==
  ASSUME JobsFit, Exit
  PROVE  JobsFit' /\ Contract!Interrupt
<1> DEFINE Lost == {j \in Jobs : driver = "memory" /\ job[j].state \in {"waiting", "running"}}
<1> DEFINE Again == {j \in Jobs : driver = "redis" /\ job[j].state = "running"}
<1>1. Lost \in SUBSET Jobs /\ \A j \in Lost : job[j].state \in {"waiting", "running"}
  OBVIOUS
<1>2. Again \in SUBSET Jobs /\ \A j \in Again : job[j].state = "running"
  OBVIOUS
<1>3. job' = [j \in Jobs |-> IF j \in Lost THEN AsLost(job[j])
                             ELSE IF j \in Again THEN AsWaiting(job[j]) ELSE job[j]]
  BY DEF Exit, WithoutTimers, AsLost, AsWaiting
<1> HIDE DEF Lost, Again
<1>4. QED
  BY <1>1, <1>2, <1>3, InterruptedJobs

-----------------------------------------------------------------------------
(* The invariant. *)

LEMMA InitIInv == Init => IInv
<1> SUFFICES ASSUME Init PROVE IInv
  OBVIOUS
<1> USE JobQueueAssumption
<1>1. job \in [Jobs -> JobRecord] /\ \A j \in Jobs : AttemptsFit(job[j])
  BY DEF Init, JobRecord, AttemptsFit
<1>2. 1 \in 1..Len(Boot[driver]) + 1
  <2>1. Len(Boot[driver]) \in Nat
    BY DEF Init
  <2>2. QED
    BY <2>1
<1>3. /\ live \in [Names -> 0..MaxOverlap]
      /\ exits \in 0..MaxExits
  BY DEF Init
<1>4. /\ handlers \subseteq Names /\ workers \subseteq handlers
      /\ schedules \subseteq Names /\ ran \subseteq schedules
      /\ running \in BOOLEAN
  BY DEF Init
<1>5. driver \in Drivers /\ proc \in {"up", "stopping", "down"} /\ next = 1
  BY DEF Init
<1>6. TypeOK
  BY <1>1, <1>2, <1>3, <1>4, <1>5 DEF TypeOK, JobRecord
<1>7. QED
  BY <1>1, <1>6 DEF IInv, JobsFit

\* Each action keeps the types of the process and its repeating jobs; what it
\* does to the one-off jobs is the subject of the lemmas above.
LEMMA BootStepTyped ==
  ASSUME IInv, BootStep
  PROVE  IInv'
<1> USE JobQueueAssumption
<1> DEFINE call == Boot[driver][next]
<1>1. Len(Boot[driver]) \in Nat /\ next \in 1..Len(Boot[driver])
  BY DEF IInv, TypeOK, BootStep
<1>2. next' \in 1..Len(Boot[driver]) + 1
  BY <1>1 DEF BootStep
<1>3. call.op # "start" => call.name \in Names
  BY <1>1 DEF IInv, TypeOK
<1>4. /\ running' \in BOOLEAN
      /\ handlers' \subseteq Names
      /\ workers' \subseteq handlers'
      /\ schedules' \subseteq Names
      /\ ran' \subseteq schedules'
  <2>1. CASE call.op = "start" /\ Start
    BY <2>1 DEF Start, IInv, TypeOK
  <2>2. CASE call.op = "register" /\ Register(call.name)
    BY <1>3, <2>2 DEF Register, IInv, TypeOK
  <2>3. CASE call.op = "repeat" /\ ScheduleRepeating(call.name)
    BY <1>3, <2>3 DEF ScheduleRepeating, IInv, TypeOK
  <2>4. QED
    BY <2>1, <2>2, <2>3 DEF BootStep
<1>5. UNCHANGED <<driver, proc, live, job, exits>>
  BY DEF BootStep
<1>6. TypeOK'
  BY <1>2, <1>4, <1>5 DEF IInv, TypeOK
<1>7. JobsFit'
  BY <1>5 DEF IInv, JobsFit, AttemptsFit
<1>8. QED
  BY <1>6, <1>7 DEF IInv

\* An action on one-off jobs leaves the process alone.
LEMMA JobStepTyped ==
  ASSUME IInv, JobsFit', UNCHANGED <<processVars, schedules, live, ran, exits>>
  PROVE  IInv'
BY DEF IInv, TypeOK, JobsFit, JobRecord, processVars

LEMMA RepeatingTyped ==
  ASSUME IInv, NEW n \in Names, FireRepeating(n) \/ EndRepeating(n)
  PROVE  IInv'
<1> USE JobQueueAssumption
<1>1. live' \in [Names -> 0..MaxOverlap]
  BY DEF IInv, TypeOK, FireRepeating, EndRepeating
<1>2. ran' \subseteq schedules
  BY DEF IInv, TypeOK, FireRepeating, EndRepeating
<1>3. UNCHANGED <<driver, proc, next, running, handlers, workers, schedules, job, exits>>
  BY DEF FireRepeating, EndRepeating, processVars
<1>4. TypeOK'
  BY <1>1, <1>2, <1>3 DEF IInv, TypeOK
<1>5. JobsFit'
  BY <1>3 DEF IInv, JobsFit, AttemptsFit
<1>6. QED
  BY <1>4, <1>5 DEF IInv

LEMMA StopTyped ==
  ASSUME IInv, Stop
  PROVE  IInv'
<1>1. JobsFit'
  BY StopJobs DEF IInv
<1>2. TypeOK'
  BY <1>1 DEF IInv, TypeOK, Stop, JobsFit, JobRecord
<1>3. QED
  BY <1>1, <1>2 DEF IInv

LEMMA ExitTyped ==
  ASSUME IInv, Exit
  PROVE  IInv'
<1> USE JobQueueAssumption
<1>1. JobsFit'
  BY ExitJobs DEF IInv
<1>2. exits' \in 0..MaxExits /\ live' \in [Names -> 0..MaxOverlap]
  BY DEF IInv, TypeOK, Exit
<1>3. Len(Boot[driver]) \in Nat /\ next' \in 1..Len(Boot[driver]) + 1
  BY DEF IInv, TypeOK, Exit
<1>4. TypeOK'
  BY <1>1, <1>2, <1>3 DEF IInv, TypeOK, Exit, JobsFit, JobRecord
<1>5. QED
  BY <1>1, <1>4 DEF IInv

LEMMA RestartTyped ==
  ASSUME IInv, Restart
  PROVE  IInv'
BY DEF IInv, TypeOK, JobsFit, AttemptsFit, Restart

-----------------------------------------------------------------------------
(* Every step keeps the invariant and is a step of the contract. *)

LEMMA EveryStep ==
  ASSUME IInv, [Next]_vars
  PROVE  IInv' /\ [Contract!Next]_(Contract!vars)
<1>1. JobsFit
  BY DEF IInv
<1>2. ASSUME UNCHANGED job
      PROVE  [Contract!Next]_(Contract!vars)
  BY <1>2 DEF Seen, Contract!vars
<1>3. CASE BootStep
  BY <1>2, <1>3, BootStepTyped DEF BootStep
<1>4. ASSUME NEW j \in Jobs, NEW n \in 1..MaxAttempts, Enqueue(j, n)
      PROVE  IInv' /\ Contract!Next
  BY <1>1, <1>4, EnqueueJob, JobStepTyped DEF Enqueue, Contract!Next
<1>5. ASSUME NEW n \in Names, FireRepeating(n) \/ EndRepeating(n)
      PROVE  IInv' /\ UNCHANGED job
  BY <1>5, RepeatingTyped DEF FireRepeating, EndRepeating
<1>6. ASSUME NEW j \in Jobs, Begin(j)
      PROVE  IInv' /\ Contract!Next
  BY <1>1, <1>6, BeginJob, JobStepTyped DEF Begin, Contract!Next
<1>7. ASSUME NEW j \in Jobs, Drop(j)
      PROVE  IInv' /\ Contract!Next
  BY <1>1, <1>7, DropJob, JobStepTyped DEF Drop, Contract!Next
<1>8. ASSUME NEW j \in Jobs, Succeed(j)
      PROVE  IInv' /\ Contract!Next
  BY <1>1, <1>8, SucceedJob, JobStepTyped DEF Succeed, Contract!Next
<1>9. ASSUME NEW j \in Jobs, Fail(j)
      PROVE  IInv' /\ Contract!Next
  BY <1>1, <1>9, FailJob, JobStepTyped DEF Fail, Contract!Next
<1>10. CASE Stop
  BY <1>1, <1>10, StopTyped, StopJobs DEF Contract!Next
<1>11. CASE Exit
  BY <1>1, <1>11, ExitTyped, ExitJobs DEF Contract!Next
<1>12. CASE Restart
  BY <1>2, <1>12, RestartTyped DEF Restart
<1>13. CASE UNCHANGED vars
  <2>1. IInv'
    BY <1>13 DEF IInv, TypeOK, JobsFit, AttemptsFit, vars
  <2>2. QED
    BY <1>2, <1>13, <2>1 DEF vars
<1>14. QED
  BY <1>2, <1>3, <1>4, <1>5, <1>6, <1>7, <1>8, <1>9, <1>10, <1>11, <1>12, <1>13 DEF Next

LEMMA Invariance == Spec => []IInv
<1>1. IInv /\ [Next]_vars => IInv'
  BY EveryStep
<1>2. QED
  BY InitIInv, <1>1, PTL DEF Spec

\* The types of the queue's state: among them that Redis has workers only for
\* names with a handler, and that what has run was scheduled.
THEOREM TypeCorrect == Spec => []TypeOK
<1>1. IInv => TypeOK
  BY DEF IInv
<1>2. QED
  BY Invariance, <1>1, PTL

\* Both drivers keep the contract of the JobQueue interface for every one-off
\* job, whatever boot sequence the process has and however often it stops or dies.
THEOREM KeepsContract == Spec => ImplementsContract
<1>1. Init => Contract!Init
  BY DEF Init, Contract!Init, Seen, Abstract, Fails
<1>2. IInv /\ [Next]_vars => [Contract!Next]_(Contract!vars)
  BY EveryStep
<1>3. QED
  BY Invariance, <1>1, <1>2, PTL DEF Spec, ImplementsContract, Contract!Spec

-----------------------------------------------------------------------------
(* After stop(). *)

\* A process that is not up has cleared the running flag.
StoppedIsQuiet == proc # "up" => running = FALSE

LEMMA StoppedStaysQuiet ==
  ASSUME StoppedIsQuiet, [Next]_vars
  PROVE  StoppedIsQuiet'
<1>1. CASE BootStep
  BY <1>1 DEF BootStep, StoppedIsQuiet
<1>2. CASE UNCHANGED processVars
  BY <1>2 DEF processVars, StoppedIsQuiet
<1>3. CASE Stop \/ Exit \/ Restart
  BY <1>3 DEF Stop, Exit, Restart, StoppedIsQuiet
<1>4. CASE \E j \in Jobs, n \in 1..MaxAttempts : Enqueue(j, n)
  BY <1>2, <1>4 DEF Enqueue
<1>5. CASE \E n \in Names : FireRepeating(n) \/ EndRepeating(n)
  BY <1>2, <1>5 DEF FireRepeating, EndRepeating
<1>6. CASE \E j \in Jobs : Begin(j) \/ Drop(j) \/ Succeed(j) \/ Fail(j)
  BY <1>2, <1>6 DEF Begin, Drop, Succeed, Fail
<1>7. CASE UNCHANGED vars
  BY <1>2, <1>7 DEF vars, processVars
<1>8. QED
  BY <1>1, <1>3, <1>4, <1>5, <1>6, <1>7 DEF Next

\* No handler starts in a step that begins and ends between stop() and the exit.
LEMMA StoppedStep ==
  ASSUME IInv, StoppedIsQuiet, [Next]_vars, proc = "stopping", proc' = "stopping"
  PROVE  /\ \A j \in Jobs : job'[j].state = "running" => job[j].state = "running"
         /\ \A n \in Names : live'[n] <= live[n]
<1> USE JobQueueAssumption
<1>1. ~running
  BY DEF StoppedIsQuiet
<1>2. \A n \in Names : ~CanRun(n)
  BY <1>1 DEF CanRun
<1>3. live \in [Names -> Nat] /\ job \in [Jobs -> JobRecord]
  BY DEF IInv, TypeOK, JobsFit
<1>4. CASE UNCHANGED <<live, job>>
  BY <1>3, <1>4
<1>5. CASE \E n \in Names : EndRepeating(n)
  BY <1>3, <1>5 DEF EndRepeating
<1>6. CASE \E j \in Jobs : Drop(j) \/ Succeed(j) \/ Fail(j)
  <2>1. PICK j \in Jobs : Drop(j) \/ Succeed(j) \/ Fail(j)
    BY <1>6
  <2>2. \A k \in Jobs : job'[k].state = "running" => job[k].state = "running"
    <3>1. CASE Drop(j)
      BY <1>3, <3>1 DEF Drop, JobRecord
    <3>2. CASE Succeed(j)
      BY <1>3, <3>2 DEF Succeed, JobRecord
    <3>3. CASE Fail(j)
      BY <1>3, <3>3 DEF Fail, JobRecord
    <3>4. QED
      BY <2>1, <3>1, <3>2, <3>3
  <2>3. UNCHANGED live
    BY <2>1 DEF Drop, Succeed, Fail
  <2>4. QED
    BY <1>3, <2>2, <2>3
<1>7. ~BootStep /\ ~Stop /\ ~Exit /\ ~Restart /\ ~ \E j \in Jobs, n \in 1..MaxAttempts : Enqueue(j, n)
  BY DEF BootStep, Stop, Exit, Restart, Enqueue
<1>8. /\ ~ \E n \in Names : FireRepeating(n)
      /\ ~ \E j \in Jobs : Begin(j)
  BY <1>2 DEF FireRepeating, Begin
<1>9. CASE UNCHANGED vars
  BY <1>4, <1>9 DEF vars
<1>10. QED
  BY <1>5, <1>6, <1>7, <1>8, <1>9 DEF Next

\* types.ts:40: once stop() has been called no handler is started, neither by a
\* timer nor for the retry of a job that was still at work.
THEOREM StopIsFinal == Spec => NothingStartsAfterStop
<1>1. Init => StoppedIsQuiet
  BY DEF Init, StoppedIsQuiet
<1>2. StoppedIsQuiet /\ [Next]_vars => StoppedIsQuiet'
  BY StoppedStaysQuiet
<1>3. IInv /\ StoppedIsQuiet /\ [Next]_vars =>
        [proc = "stopping" /\ proc' = "stopping" =>
           /\ \A j \in Jobs : job'[j].state = "running" => job[j].state = "running"
           /\ \A n \in Names : live'[n] <= live[n]]_vars
  BY StoppedStep
<1>4. QED
  BY Invariance, <1>1, <1>2, <1>3, PTL DEF Spec, NothingStartsAfterStop

-----------------------------------------------------------------------------
(* The poll of a portal: its inductive invariant. *)

\* A value is known exactly if it is positive.
Sound(row) == row.status = "known" <=> row.value \in Nat \ {0}

\* A listing as normalizeListing makes it: its value has hundredths, not thousandths.
Normal(t) ==
  \/ t.status = "known" /\ t.value \in Nat \ {0} /\ t.value % 10 = 0
  \/ t.status = "unknown" /\ t.value = Absent

\* What a poll is about to ask for is allowed and what it is about to write is normal,
\* its outcome comes with its report, and when it has waited for its turn an interval
\* has passed, if nobody overtook it.
PollFits(p) ==
  /\ poll[p].pc \in {"acquire", "wait"} => IsAllowed(poll[p].rules)
  /\ poll[p].pc = "upsert" => Normal(poll[p].cur)
  /\ poll[p].pc # "report" => poll[p].outcome = "none"
  /\ poll[p].pc = "wait" /\ ~poll[p].overtaken =>
       poll[p].wait + since[poll[p].portal] >= Interval(poll[p].portal)

\* The limiter knows of the last request of each portal this process has asked.
LimiterFits ==
  \A s \in Portals : /\ limiter[s] # Absent => limiter[s] = since[s]
                     /\ s \in asked => limiter[s] # Absent

RowsSound ==
  /\ \A k \in Keys : Sound(stored[k])
  /\ \A p \in Polls, k \in Keys : Sound(view[p][k])

RadarIInv ==
  /\ RadarTypeOK /\ ConnectionsAccounted /\ LimiterFits /\ RowsSound
  /\ \A p \in Polls : PollFits(p)

-----------------------------------------------------------------------------
(* Listings and rows. *)

LEMMA Constants ==
  /\ IsFiniteSet(Polls)
  /\ Absent \notin Int /\ Absent \notin Portals
  /\ PoolSizes \subseteq Nat \ {0} /\ MaxBatch \in [PoolSizes -> Nat] /\ MaxFaults \in Nat
  /\ \A s \in Portals : Interval(s) \in Nat
<1>1. ASSUME NEW s \in Portals PROVE Interval(s) \in Nat
  <2> DEFINE rate == IF Rpm[s] > 0 THEN Rpm[s] ELSE MinRpm
  <2>1. rate \in Nat \ {0} /\ Minute \in Nat
    BY RadarAssumption DEF RadarAssumption
  <2> HIDE DEF rate
  <2>2. Minute \div rate \in Nat
    BY <2>1
  <2> QED BY <2>2 DEF Interval, rate
<1> QED BY <1>1, RadarAssumption DEF RadarAssumption

\* Halves upwards to the next ten: a multiple of ten.
LEMMA Quantized ==
  ASSUME NEW v \in Int
  PROVE  Quantize(v) \in Int /\ Quantize(v) % 10 = 0
<1> DEFINE n == (v + 5) \div 10
<1>1. n \in Int
  OBVIOUS
<1> HIDE DEF n
<1>2. 10 * n \in Int /\ (10 * n) % 10 = 0
  BY <1>1
<1> QED BY <1>2 DEF Quantize, n

LEMMA RegionNormal ==
  ASSUME NEW raw
  PROVE  NormalizeRegion(raw) \in Canonical \union {Absent}
BY DEF NormalizeRegion, Canonical

LEMMA Normalized ==
  ASSUME NEW raw \in RawListings
  PROVE  Normalize(raw) \in Listing /\ Normal(Normalize(raw))
<1>0. raw.id \in Identifiers /\ raw.value \in Int \union {Absent} /\ Absent \notin Int
  BY RadarAssumption DEF RadarAssumption
<1>1. NormalizeRegion(raw.region) \in Canonical \union {Absent}
  BY RegionNormal
<1> DEFINE known == raw.value # Absent /\ Quantize(raw.value) > 0
<1>2. CASE known
  <2>1. Quantize(raw.value) \in Nat \ {0} /\ Quantize(raw.value) % 10 = 0
    BY <1>0, <1>2, Quantized
  <2>2. Normalize(raw) = [id |-> raw.id, region |-> NormalizeRegion(raw.region),
                          value |-> Quantize(raw.value), status |-> "known"]
    BY <1>2 DEF Normalize
  <2> QED BY <1>0, <1>1, <2>1, <2>2 DEF Listing, Normal
<1>3. CASE ~known
  <2>1. Normalize(raw) = [id |-> raw.id, region |-> NormalizeRegion(raw.region),
                          value |-> Absent, status |-> "unknown"]
    BY <1>3 DEF Normalize
  <2> QED BY <1>0, <1>1, <2>1 DEF Listing, Normal
<1> QED BY <1>2, <1>3

LEMMA SameListing ==
  ASSUME NEW s \in Listing, NEW t \in Listing,
         s.id = t.id, s.region = t.region, s.value = t.value, s.status = t.status
  PROVE  s = t
BY DEF Listing

\* The stored form keeps what a normal listing says.
LEMMA StoredForm ==
  ASSUME NEW t \in Listing, Normal(t)
  PROVE  ToStored(t) \in Listing /\ Sound(ToStored(t)) /\ FromStored(ToStored(t)) = t
<1>0. Absent \notin Int
  BY Constants
<1>1. CASE t.value = Absent
  <2>1. ToStored(t) = t
    BY <1>1 DEF ToStored, Listing
  <2>2. FromStored(t) = t
    BY <1>1 DEF FromStored, Listing
  <2> QED BY <1>0, <1>1, <2>1, <2>2 DEF Sound, Normal
<1>2. CASE t.value # Absent
  <2> DEFINE v == t.value \div 10
  <2>1. t.value \in Nat \ {0} /\ t.value % 10 = 0 /\ t.status = "known"
    BY <1>2 DEF Normal
  <2>2. v \in Nat \ {0} /\ v * 10 = t.value
    BY <2>1
  <2> HIDE DEF v
  <2> DEFINE s == [t EXCEPT !.value = v]
  <2>3. ToStored(t) = s
    BY <1>2 DEF ToStored, v
  <2>4. s \in Listing /\ s.id = t.id /\ s.region = t.region /\ s.value = v /\ s.status = t.status
    BY <2>2 DEF Listing
  <2> HIDE DEF s
  <2> DEFINE u == FromStored(s)
  <2>5. u = [s EXCEPT !.value = v * 10]
    BY <1>0, <2>2, <2>4 DEF FromStored
  <2>6. u \in Listing /\ u.id = s.id /\ u.region = s.region /\ u.value = v * 10 /\ u.status = s.status
    BY <2>2, <2>4, <2>5 DEF Listing
  <2> HIDE DEF u
  <2>7. u = t
    BY <2>2, <2>4, <2>6, SameListing
  <2> QED BY <2>1, <2>2, <2>3, <2>4, <2>7 DEF Sound, u
<1> QED BY <1>1, <1>2

LEMMA Merged ==
  ASSUME NEW row \in Row, NEW s \in Listing, Sound(row), Sound(s)
  PROVE  Merge(row, s) \in Row /\ Sound(Merge(row, s))
BY Constants DEF Merge, Row, Listing, Sound

LEMMA Blank == NoRow \in Row /\ Sound(NoRow) /\ NoRows \in [Keys -> Row]
BY Constants DEF NoRow, NoRows, Row, Sound

-----------------------------------------------------------------------------
(* The decision on a path.  IsAllowed is a loop, and what it returns for every   *)
(* policy takes induction.  The induction theorems of the library are about    *)
(* operators; this one is about a set.                                          *)

LessThan == OpToRel(<, Nat)

\* Every set of naturals that is not empty has a least element.
LEMMA LeastElement ==
  ASSUME NEW T, T \subseteq Nat, T # {}
  PROVE  \E m \in T : \A k \in T : m <= k
<1>1. IsWellFoundedOn(LessThan, Nat)
  BY NatLessThanWellFounded DEF LessThan
<1>2. PICK m \in T : \A k \in T : <<k, m>> \notin LessThan
  BY <1>1, WFMin
<1>3. \A k \in T : k < m => <<k, m>> \in LessThan
  BY DEF LessThan, OpToRel
<1>4. \A k \in T : ~(k < m) => m <= k
  OBVIOUS
<1> QED BY <1>2, <1>3, <1>4

LEMMA Induction ==
  ASSUME NEW S, 0 \in S, \A n \in Nat : n \in S => n + 1 \in S
  PROVE  Nat \subseteq S
<1> DEFINE T == Nat \ S
<1> SUFFICES ASSUME T # {} PROVE FALSE
  OBVIOUS
<1>1. T \subseteq Nat
  OBVIOUS
<1>2. PICK m \in T : \A k \in T : m <= k
  <2> HIDE DEF T
  <2> QED BY <1>1, LeastElement
<1>3. m \in Nat \ {0} /\ m - 1 \in Nat /\ m - 1 \in T
  OBVIOUS
<1> QED BY <1>2, <1>3

Verdict == [allow : BOOLEAN, len : Nat]

LEMMA Weighed ==
  ASSUME NEW d \in Verdict, NEW r \in Rule
  PROVE  Weigh(d, r) \in Verdict
BY DEF Weigh, Verdict, Rule

LEMMA DecisionExists ==
  ASSUME NEW rules \in Seq(Rule)
  PROVE  \E d \in [0..Len(rules) -> Verdict] :
            d = [n \in 0..Len(rules) |-> IF n = 0 THEN Undecided ELSE Weigh(d[n - 1], rules[n])]
<1> DEFINE L == Len(rules)
    Good(d, m) == d[0] = Undecided /\ \A n \in 1..m : d[n] = Weigh(d[n - 1], rules[n])
    S == {m \in Nat : m <= L => \E d \in [0..L -> Verdict] : Good(d, m)}
<1>0. L \in Nat /\ \A n \in 1..L : rules[n] \in Rule
  OBVIOUS
<1> HIDE DEF L
<1>1. 0 \in S
  <2>1. [n \in 0..L |-> Undecided] \in [0..L -> Verdict]
    BY DEF Undecided, Verdict
  <2>2. Good([n \in 0..L |-> Undecided], 0)
    BY <1>0
  <2> QED BY <2>1, <2>2
<1>2. ASSUME NEW m \in Nat, m \in S PROVE m + 1 \in S
  <2> SUFFICES ASSUME m + 1 <= L PROVE \E d \in [0..L -> Verdict] : Good(d, m + 1)
    OBVIOUS
  <2>1. PICK d \in [0..L -> Verdict] : Good(d, m)
    BY <1>0, <1>2
  <2> DEFINE v == Weigh(d[m], rules[m + 1])
             e == [d EXCEPT ![m + 1] = v]
  <2>2. v \in Verdict
    BY <1>0, Weighed
  <2> HIDE DEF v
  <2>3. e \in [0..L -> Verdict] /\ e[m + 1] = v /\ \A n \in 0..m : e[n] = d[n]
    BY <1>0, <2>2
  <2> HIDE DEF e
  <2>4. e[0] = Undecided
    BY <2>1, <2>3
  <2>5. ASSUME NEW n \in 1..(m + 1) PROVE e[n] = Weigh(e[n - 1], rules[n])
    <3>1. CASE n = m + 1
      <4>1. e[n - 1] = d[m]
        BY <2>3, <3>1
      <4> QED BY <2>3, <3>1, <4>1 DEF v
    <3>2. CASE n # m + 1
      <4>1. n \in 1..m /\ n \in 0..m /\ n - 1 \in 0..m
        BY <3>2
      <4> QED BY <2>1, <2>3, <4>1
    <3> QED BY <3>1, <3>2
  <2> QED BY <2>3, <2>4, <2>5
<1>3. L \in S
  <2> HIDE DEF S
  <2> QED BY <1>0, <1>1, <1>2, Induction
<1>4. PICK d \in [0..L -> Verdict] : Good(d, L)
  BY <1>0, <1>3
<1>5. d = [n \in 0..L |-> IF n = 0 THEN Undecided ELSE Weigh(d[n - 1], rules[n])]
  <2>1. \A n \in 0..L : d[n] = IF n = 0 THEN Undecided ELSE Weigh(d[n - 1], rules[n])
    BY <1>0, <1>4
  <2> QED BY <2>1
<1> QED BY <1>4, <1>5 DEF L

LEMMA DecisionIs ==
  ASSUME NEW rules \in Seq(Rule)
  PROVE  Decision(rules) = [n \in 0..Len(rules) |->
                              IF n = 0 THEN Undecided ELSE Weigh(Decision(rules)[n - 1], rules[n])]
<1> DEFINE D(d) == d = [n \in 0..Len(rules) |-> IF n = 0 THEN Undecided ELSE Weigh(d[n - 1], rules[n])]
<1>1. \E d : D(d)
  BY DecisionExists
<1>2. Decision(rules) = CHOOSE d : D(d)
  BY DEF Decision
<1> HIDE DEF D
<1>3. D(Decision(rules))
  BY <1>1, <1>2
<1> QED BY <1>3 DEF D

Matches(rule) == rule.prefix /\ rule.len > 0

\* After n rules the decision is by the longest of those that match, one that
\* allows if there is a choice.
LEMMA LongestMatch ==
  ASSUME NEW rules \in Seq(Rule), NEW n \in 0..Len(rules)
  PROVE  LET d == Decision(rules)[n] IN
         /\ d \in Verdict
         /\ \A i \in 1..n : Matches(rules[i]) => rules[i].len <= d.len
         /\ d = Undecided \/ \E i \in 1..n : /\ Matches(rules[i])
                                             /\ rules[i].allow = d.allow /\ rules[i].len = d.len
<1> DEFINE L == Len(rules)
           v == Decision(rules)
           Good(m) == /\ v[m] \in Verdict
                      /\ \A i \in 1..m : Matches(rules[i]) => rules[i].len <= v[m].len
                      /\ v[m] = Undecided \/ \E i \in 1..m : /\ Matches(rules[i])
                                                             /\ rules[i].allow = v[m].allow
                                                             /\ rules[i].len = v[m].len
           S == {m \in Nat : m <= L => Good(m)}
<1>0. L \in Nat /\ \A i \in 1..L : rules[i] \in Rule
  OBVIOUS
<1> HIDE DEF L
<1>1. v[0] = Undecided /\ \A m \in 1..L : v[m] = Weigh(v[m - 1], rules[m])
  BY <1>0, DecisionIs DEF L
<1> HIDE DEF v
<1>2. 0 \in S
  <2>1. Undecided \in Verdict
    BY DEF Undecided, Verdict
  <2>2. Good(0)
    BY <1>1, <2>1
  <2> QED BY <2>2
<1>3. ASSUME NEW m \in Nat, m \in S PROVE m + 1 \in S
  <2> SUFFICES ASSUME m + 1 <= L PROVE Good(m + 1)
    OBVIOUS
  <2> DEFINE rule == rules[m + 1]
  <2>1. Good(m) /\ v[m + 1] = Weigh(v[m], rule) /\ rule \in Rule
    BY <1>0, <1>1, <1>3
  <2>2. v[m].len \in Nat /\ rule.len \in Nat
    BY <2>1 DEF Verdict, Rule
  <2>3. CASE Matches(rule) /\ (rule.len > v[m].len \/ (rule.len = v[m].len /\ rule.allow))
    <3>1. v[m + 1] = [allow |-> rule.allow, len |-> rule.len]
      BY <2>1, <2>3 DEF Weigh, Matches
    <3>2. v[m + 1] \in Verdict /\ v[m + 1].len = rule.len /\ v[m + 1].allow = rule.allow
      <4>1. Weigh(v[m], rule) \in Verdict
        BY <2>1, Weighed
      <4>2. v[m + 1].len = rule.len /\ v[m + 1].allow = rule.allow
        BY <3>1
      <4> QED BY <2>1, <4>1, <4>2
    <3>3. ASSUME NEW i \in 1..(m + 1), Matches(rules[i]) PROVE rules[i].len <= v[m + 1].len
      <4>1. CASE i = m + 1
        BY <2>2, <3>2, <4>1
      <4>2. CASE i # m + 1
        <5>1. i \in 1..m /\ rules[i].len \in Nat
          BY <1>0, <4>2 DEF Rule
        <5>2. rules[i].len <= v[m].len
          BY <2>1, <3>3, <5>1
        <5> QED BY <2>2, <2>3, <3>2, <5>1, <5>2
      <4> QED BY <4>1, <4>2
    <3> QED BY <2>3, <3>2, <3>3
  <2>4. CASE ~(Matches(rule) /\ (rule.len > v[m].len \/ (rule.len = v[m].len /\ rule.allow)))
    <3>1. v[m + 1] = v[m]
      BY <2>1, <2>4 DEF Weigh, Matches
    <3>2. ASSUME NEW i \in 1..(m + 1), Matches(rules[i]) PROVE rules[i].len <= v[m + 1].len
      <4>1. CASE i = m + 1
        BY <2>2, <2>4, <3>1, <3>2, <4>1
      <4>2. CASE i # m + 1
        BY <2>1, <3>1, <3>2, <4>2
      <4> QED BY <4>1, <4>2
    <3>3. \A i \in 1..m : i \in 1..(m + 1)
      OBVIOUS
    <3> QED BY <2>1, <3>1, <3>2, <3>3
  <2> QED BY <2>3, <2>4
<1>4. n \in S
  <2> HIDE DEF S
  <2> QED BY <1>0, <1>2, <1>3, Induction DEF L
<1> QED BY <1>0, <1>4 DEF v, L

\* A policy that allows the path answers each rule that disallows it.
LEMMA AllowedIsAnswered ==
  ASSUME NEW rules \in Seq(Rule), IsAllowed(rules)
  PROVE  LET matching == {r \in ToSet(rules) : r.prefix /\ r.len > 0} IN
         \A d \in matching : ~d.allow => \E a \in matching : a.allow /\ a.len >= d.len
<1> DEFINE v == Decision(rules)[Len(rules)]
<1>1. /\ v \in Verdict /\ v.allow
      /\ \A i \in 1..Len(rules) : Matches(rules[i]) => rules[i].len <= v.len
      /\ v = Undecided \/ \E i \in 1..Len(rules) : /\ Matches(rules[i])
                                                   /\ rules[i].allow = v.allow /\ rules[i].len = v.len
  <2>1. Len(rules) \in 0..Len(rules)
    OBVIOUS
  <2>2. v.allow
    BY DEF IsAllowed
  <2> QED BY <2>1, <2>2, LongestMatch
<1>2. ToSet(rules) = {rules[i] : i \in 1..Len(rules)}
  BY DEF ToSet
<1>3. \A i \in 1..Len(rules) : rules[i].len \in Nat
  <2>1. \A i \in 1..Len(rules) : rules[i] \in Rule
    OBVIOUS
  <2> QED BY <2>1 DEF Rule
<1> HIDE DEF v
<1> SUFFICES ASSUME NEW d \in ToSet(rules), Matches(d), ~d.allow
             PROVE  \E a \in ToSet(rules) : Matches(a) /\ a.allow /\ a.len >= d.len
  BY DEF Matches
<1>4. PICK i \in 1..Len(rules) : d = rules[i]
  BY <1>2
<1>5. d.len \in Nat /\ d.len > 0 /\ d.len <= v.len
  BY <1>1, <1>3, <1>4 DEF Matches
<1>6. v # Undecided
  BY <1>5 DEF Undecided
<1>7. PICK j \in 1..Len(rules) : Matches(rules[j]) /\ rules[j].allow = v.allow /\ rules[j].len = v.len
  BY <1>1, <1>6
<1> QED BY <1>1, <1>2, <1>3, <1>5, <1>7

\* The rules of a policy.
LEMMA PolicyRules == Policies \subseteq Seq(Rule)
<1>1. ASSUME NEW file \in RobotsFiles PROVE RulesFor(file) \in Seq(Rule)
  <2> DEFINE I == {i \in 1..Len(file) : "*" \in file[i].agents}
             g == IF I # {} THEN Min(I) ELSE 0
  <2>1. file \in Seq(Group)
    BY RadarAssumption DEF RadarAssumption
  <2>2. RulesFor(file) = IF g = 0 THEN <<>> ELSE file[g].rules
    BY DEF RulesFor, SelectInSeq
  <2>3. CASE I = {}
    <3>1. <<>> \in Seq(Rule)
      OBVIOUS
    <3> QED BY <2>2, <2>3, <3>1
  <2>4. CASE I # {}
    <3>1. PICK m \in I : \A k \in I : m <= k
      <4>1. I \subseteq Nat
        BY <2>1
      <4> HIDE DEF I
      <4> QED BY <2>4, <4>1, LeastElement
    <3>2. Min(I) \in I
      BY <3>1 DEF Min
    <3>3. g \in 1..Len(file)
      BY <2>4, <3>2
    <3> HIDE DEF g
    <3>4. file[g] \in Group /\ g # 0
      BY <2>1, <3>3
    <3> QED BY <2>2, <3>4 DEF Group
  <2> QED BY <2>3, <2>4
<1>2. <<>> \in Seq(Rule)
  OBVIOUS
<1> QED BY <1>1, <1>2 DEF Policies

-----------------------------------------------------------------------------
(* Connections. *)

HeldBy(r) == IF r.pc \notin Batch THEN 0 ELSE IF r.pc = "evaluate" THEN 2 ELSE 1

\* What is taken if poll p has held[p] connections, and without those of p.
Taken(held) == {c \in Polls \X (1..2) : c[2] <= held[c[1]]}
Others(held, p) == {c \in Taken(held) : c[1] # p}

\* The connections of the polls add up.
LEMMA Shares ==
  ASSUME NEW held \in [Polls -> {0, 1, 2}], NEW p \in Polls
  PROVE  /\ Cardinality(Others(held, p)) \in Nat
         /\ Cardinality(Taken(held)) = Cardinality(Others(held, p)) + held[p]
<1> DEFINE others == Others(held, p)
<1>1. IsFiniteSet(Polls \X (1..2))
  <2>1. IsFiniteSet(1..2)
    <3> DEFINE one == 1
               two == 2
    <3>1. one \in Int /\ two \in Int
      OBVIOUS
    <3> HIDE DEF one, two
    <3>2. IsFiniteSet(one..two)
      BY <3>1, FS_Interval
    <3> QED BY <3>2 DEF one, two
  <2> QED BY <2>1, Constants, FS_Product
<1>2. IsFiniteSet(others)
  BY <1>1, FS_Subset DEF Others, Taken
<1>3. Cardinality(others) \in Nat
  BY <1>2, FS_CardinalityType
<1>4. <<p, 1>> \notin others /\ <<p, 2>> \notin others \union {<<p, 1>>}
  BY DEF Others
<1>5. CASE held[p] = 0
  <2>1. Taken(held) = others
    BY <1>5 DEF Taken, Others
  <2> QED BY <1>3, <1>5, <2>1
<1>6. CASE held[p] = 1
  <2>1. Taken(held) = others \union {<<p, 1>>}
    BY <1>6 DEF Taken, Others
  <2> HIDE DEF others
  <2>2. Cardinality(others \union {<<p, 1>>}) = Cardinality(others) + 1
    BY <1>2, <1>4, FS_AddElement
  <2> QED BY <1>3, <1>6, <2>1, <2>2 DEF others
<1>7. CASE held[p] = 2
  <2> DEFINE both == others \union {<<p, 1>>}
  <2>1. Taken(held) = both \union {<<p, 2>>}
    BY <1>7 DEF Taken, Others
  <2> HIDE DEF others
  <2>2. IsFiniteSet(both) /\ Cardinality(both) = Cardinality(others) + 1
    BY <1>2, <1>4, FS_AddElement
  <2>3. <<p, 2>> \notin both
    BY <1>4
  <2> HIDE DEF both
  <2>4. Cardinality(both \union {<<p, 2>>}) = Cardinality(both) + 1
    BY <2>2, <2>3, FS_AddElement
  <2> QED BY <1>3, <1>7, <2>1, <2>2, <2>4 DEF others
<1> QED BY <1>3, <1>5, <1>6, <1>7

LEMMA NothingTaken ==
  ASSUME NEW held \in [Polls -> {0, 1, 2}], \A p \in Polls : held[p] = 0
  PROVE  Cardinality(Taken(held)) = 0
<1>1. Taken(held) = {}
  BY DEF Taken
<1> QED BY <1>1, FS_EmptySet

HeldNow == [p \in Polls |-> Held(p)]

LEMMA Account == ConnectionsAccounted <=> inUse <= poolMax /\ inUse = Cardinality(Taken(HeldNow))
<1>1. Taken(HeldNow) = {c \in Polls \X (1..2) : c[2] <= Held(c[1])}
  BY DEF Taken, HeldNow
<1> QED BY <1>1 DEF ConnectionsAccounted

LEMMA AccountPrime ==
  ConnectionsAccounted' <=> inUse' <= poolMax' /\ inUse' = Cardinality(Taken(HeldNow'))
<1>1. Taken(HeldNow') = {c \in Polls \X (1..2) : c[2] <= Held(c[1])'}
  BY DEF Taken, HeldNow
<1> QED BY <1>1 DEF ConnectionsAccounted

\* Poll p becomes r; it takes or gives back what its step says.
LEMMA AccountNext ==
  ASSUME RadarTypeOK, ConnectionsAccounted, NEW p \in Polls, NEW r \in Poll, poll' = [poll EXCEPT ![p] = r],
         inUse' = inUse - Held(p) + HeldBy(r), inUse' <= poolMax, poolMax' = poolMax
  PROVE  ConnectionsAccounted' /\ inUse' \in Nat
<1> DEFINE before == HeldNow
           after == HeldNow'
<1>1. poll'[p] = r /\ \A q \in Polls \ {p} : poll'[q] = poll[q]
  BY DEF RadarTypeOK
<1>2. before \in [Polls -> {0, 1, 2}] /\ before[p] = Held(p)
  BY DEF HeldNow, Held
<1>3. after \in [Polls -> {0, 1, 2}] /\ after[p] = HeldBy(r) /\ \A q \in Polls \ {p} : after[q] = before[q]
  BY <1>1 DEF HeldNow, Held, HeldBy
<1>4. inUse = Cardinality(Taken(before)) /\ (ConnectionsAccounted' <=> inUse' = Cardinality(Taken(after)))
  BY Account, AccountPrime
<1> HIDE DEF before, after
<1>5. Others(after, p) = Others(before, p)
  BY <1>3 DEF Others, Taken
<1>6. /\ Cardinality(Others(before, p)) \in Nat
      /\ Cardinality(Taken(before)) = Cardinality(Others(before, p)) + before[p]
  BY <1>2, Shares
<1>7. Cardinality(Taken(after)) = Cardinality(Others(after, p)) + after[p]
  BY <1>3, Shares
<1>8. before[p] \in Nat /\ after[p] \in Nat
  BY <1>2, <1>3
<1>9. inUse' = Cardinality(Taken(after)) /\ inUse' \in Nat
  BY <1>2, <1>3, <1>4, <1>5, <1>6, <1>7, <1>8
<1> QED BY <1>4, <1>9

-----------------------------------------------------------------------------
(* The limiter. *)

LEMMA ClockTypes ==
  ASSUME RadarTypeOK, NEW s \in Portals
  PROVE  /\ Interval(s) \in Nat /\ since[s] \in 0..Interval(s)
         /\ limiter[s] \in (0..Interval(s)) \union {Absent}
         /\ limiter[s] # Absent => limiter[s] \in 0..Interval(s)
BY Constants DEF RadarTypeOK

LEMMA PollTypes ==
  ASSUME RadarTypeOK, NEW p \in Polls
  PROVE  /\ poll[p] \in Poll
         /\ poll[p].pc # "idle" => poll[p].portal \in Portals
         /\ poll[p].pc = "upsert" => poll[p].cur \in Listing
         /\ poll[p].wait \in Nat /\ poll[p].left \in Nat
BY DEF RadarTypeOK, Poll

LEMMA IdleType == Idle \in Poll /\ HeldBy(Idle) = 0
BY DEF Idle, Poll, Policies, HeldBy, Batch

\* What is said of one poll, as a predicate of its record and of the time since the
\* last request of each portal.
Fits(r, ago) ==
  /\ r.pc \in {"acquire", "wait"} => IsAllowed(r.rules)
  /\ r.pc = "upsert" => Normal(r.cur)
  /\ r.pc # "report" => r.outcome = "none"
  /\ r.pc = "wait" /\ ~r.overtaken => r.wait + ago[r.portal] >= Interval(r.portal)

LEMMA FitsIs ==
  /\ \A p : PollFits(p) <=> Fits(poll[p], since)
  /\ \A p : PollFits(p)' <=> Fits(poll'[p], since')
BY DEF PollFits, Fits

\* What RadarTypeOK asks of a record beyond its type.
Proper(r) ==
  /\ r.pc # "idle" => r.portal # Absent
  /\ r.pc = "upsert" => r.cur \in Listing
  /\ r.left <= MaxBatch[poolMax]

LEMMA TypesNext ==
  ASSUME poolMax' = poolMax, poolMax \in PoolSizes,
         limiter' \in [Portals -> Nat \union {Absent}], since' \in [Portals -> Nat],
         \A s \in Portals : limiter'[s] \in (0..Interval(s)) \union {Absent} /\ since'[s] \in 0..Interval(s),
         poll' \in [Polls -> Poll], \A p \in Polls : Proper(poll'[p]),
         stored' \in [Keys -> Row], view' \in [Polls -> [Keys -> Row]], wrote' \in [Polls -> SUBSET Keys],
         inUse' \in Nat, status' \in [Portals -> {"none", "ok", "failed"}], asked' \subseteq Portals,
         faults' \in 0..MaxFaults
  PROVE  RadarTypeOK'
BY DEF RadarTypeOK, Proper

LEMMA ProperNow ==
  ASSUME RadarTypeOK, NEW p \in Polls
  PROVE  Proper(poll[p])
BY DEF RadarTypeOK, Proper

\* A step of poll p that makes r of it and leaves the clocks alone.
LEMMA OnePoll ==
  ASSUME RadarIInv, NEW p \in Polls, NEW r \in Poll, poll' = [poll EXCEPT ![p] = r],
         Proper(r), Fits(r, since), UNCHANGED clockVars,
         stored' \in [Keys -> Row], view' \in [Polls -> [Keys -> Row]], wrote' \in [Polls -> SUBSET Keys],
         RowsSound', status' \in [Portals -> {"none", "ok", "failed"}], faults' \in 0..MaxFaults,
         inUse' = inUse - Held(p) + HeldBy(r), inUse' <= poolMax
  PROVE  RadarIInv'
<1>0. UNCHANGED <<poolMax, limiter, since, asked>>
  BY DEF clockVars
<1>1. poll' \in [Polls -> Poll] /\ poll'[p] = r /\ \A q \in Polls \ {p} : poll'[q] = poll[q]
  BY DEF RadarIInv, RadarTypeOK
<1>2. ConnectionsAccounted' /\ inUse' \in Nat
  BY <1>0, AccountNext DEF RadarIInv
<1>3. \A q \in Polls : Proper(poll'[q])
  BY <1>1, ProperNow DEF RadarIInv
<1>4. RadarTypeOK'
  BY <1>0, <1>1, <1>2, <1>3, TypesNext DEF RadarIInv, RadarTypeOK
<1>5. LimiterFits'
  BY <1>0 DEF RadarIInv, LimiterFits
<1>6. \A q \in Polls : PollFits(q)'
  BY <1>0, <1>1, FitsIs DEF RadarIInv
<1> QED BY <1>2, <1>4, <1>5, <1>6 DEF RadarIInv

-----------------------------------------------------------------------------
(* Steps of a poll that change no data. *)

\* A step of poll p that makes r of it and changes connections at most.
LEMMA OnlyPoll ==
  ASSUME RadarIInv, NEW p \in Polls, NEW r \in Poll, poll' = [poll EXCEPT ![p] = r],
         Proper(r), Fits(r, since), UNCHANGED <<clockVars, stored, view, wrote>>,
         status' \in [Portals -> {"none", "ok", "failed"}], faults' \in 0..MaxFaults,
         inUse' = inUse - Held(p) + HeldBy(r), inUse' <= poolMax
  PROVE  RadarIInv'
<1>0. UNCHANGED <<stored, view, wrote>> /\ UNCHANGED clockVars
  OBVIOUS
<1>1. RowsSound'
  BY <1>0 DEF RadarIInv, RowsSound
<1>2. stored' \in [Keys -> Row] /\ view' \in [Polls -> [Keys -> Row]] /\ wrote' \in [Polls -> SUBSET Keys]
  BY <1>0 DEF RadarIInv, RadarTypeOK
<1> QED BY <1>0, <1>1, <1>2, OnePoll

\* What the lemmas on single steps start from.
LEMMA PollInHand ==
  ASSUME RadarIInv, NEW p \in Polls
  PROVE  /\ RadarTypeOK /\ poll[p] \in Poll /\ Proper(poll[p]) /\ Fits(poll[p], since)
         /\ inUse \in Nat /\ poolMax \in Nat /\ inUse <= poolMax
         /\ Held(p) = HeldBy(poll[p]) /\ MaxBatch[poolMax] \in Nat
<1>1. Held(p) = HeldBy(poll[p])
  BY DEF Held, HeldBy
<1>2. MaxBatch[poolMax] \in Nat /\ poolMax \in Nat /\ inUse \in Nat /\ inUse <= poolMax
  BY Constants DEF RadarIInv, ConnectionsAccounted, RadarTypeOK
<1> QED BY <1>1, <1>2, PollTypes, ProperNow, FitsIs DEF RadarIInv

LEMMA StartPollStep ==
  ASSUME RadarIInv, NEW p \in Polls, NEW s \in Portals, StartPoll(p, s)
  PROVE  RadarIInv'
<1>1. PICK rules \in Policies :
        poll' = [poll EXCEPT ![p] = [Idle EXCEPT
                   !.pc = IF IsAllowed(rules) THEN "acquire" ELSE "connect",
                   !.portal = s, !.rules = IF IsAllowed(rules) THEN rules ELSE <<>>]]
  BY DEF StartPoll
<1> DEFINE r == [Idle EXCEPT !.pc = IF IsAllowed(rules) THEN "acquire" ELSE "connect",
                   !.portal = s, !.rules = IF IsAllowed(rules) THEN rules ELSE <<>>]
<1>2. /\ r \in Poll /\ r.pc \in {"acquire", "connect"} /\ r.portal = s /\ r.left = 0 /\ r.outcome = "none"
      /\ r.pc = "acquire" => r.rules = rules /\ IsAllowed(rules)
      /\ poll' = [poll EXCEPT ![p] = r]
  BY <1>1 DEF Idle, Poll, Policies
<1> HIDE DEF r
<1>3. poll[p].pc = "idle" /\ UNCHANGED <<clockVars, stored, view, wrote, status, inUse, faults>>
  BY DEF StartPoll, dataVars
<1>4. HeldBy(r) = 0 /\ Held(p) = 0
  BY <1>2, <1>3, PollInHand DEF HeldBy, Batch
<1>5. Proper(r) /\ Fits(r, since)
  BY <1>2, PollInHand, Constants DEF Proper, Fits
<1>6. inUse' = inUse - Held(p) + HeldBy(r) /\ inUse' <= poolMax
  BY <1>3, <1>4, PollInHand
<1>7. status' \in [Portals -> {"none", "ok", "failed"}] /\ faults' \in 0..MaxFaults
  BY <1>3 DEF RadarIInv, RadarTypeOK
<1> QED BY <1>2, <1>3, <1>5, <1>6, <1>7, OnlyPoll

LEMMA FetchOkStep ==
  ASSUME RadarIInv, NEW p \in Polls, FetchOk(p)
  PROVE  RadarIInv'
<1>1. PICK n \in 0..MaxBatch[poolMax] : poll' = [poll EXCEPT ![p].pc = "connect", ![p].left = n]
  BY DEF FetchOk
<1> DEFINE r == [poll[p] EXCEPT !.pc = "connect", !.left = n]
<1>2. n \in Nat /\ n <= MaxBatch[poolMax]
  BY PollInHand
<1>3. r \in Poll /\ r.pc = "connect" /\ r.portal = poll[p].portal /\ r.left = n /\ r.outcome = poll[p].outcome
  BY <1>2, PollInHand DEF Poll
<1>4. poll' = [poll EXCEPT ![p] = r]
  BY <1>1, PollInHand DEF RadarTypeOK
<1> HIDE DEF r
<1>5. poll[p].pc = "fetch" /\ UNCHANGED <<clockVars, stored, view, wrote, status, inUse, faults>>
  BY DEF FetchOk, dataVars
<1>6. HeldBy(r) = 0 /\ Held(p) = 0
  BY <1>3, <1>5, PollInHand DEF HeldBy, Batch
<1>7. Proper(r) /\ Fits(r, since)
  BY <1>2, <1>3, <1>5, PollInHand DEF Proper, Fits
<1>8. inUse' = inUse - Held(p) + HeldBy(r) /\ inUse' <= poolMax
  BY <1>5, <1>6, PollInHand
<1>9. status' \in [Portals -> {"none", "ok", "failed"}] /\ faults' \in 0..MaxFaults
  BY <1>5 DEF RadarIInv, RadarTypeOK
<1> QED BY <1>3, <1>4, <1>5, <1>7, <1>8, <1>9, OnlyPoll

\* Poll p has nothing left but its report.
LEMMA Reporting ==
  ASSUME RadarIInv, NEW p \in Polls, NEW outcome \in {"ok", "failed"}, Report(p, outcome), poll[p].pc # "idle"
  PROVE  \E r \in Poll :
           /\ poll' = [poll EXCEPT ![p] = r] /\ Proper(r) /\ Fits(r, since) /\ HeldBy(r) = 0
           /\ r.pc = "report" /\ r.outcome = outcome
<1> DEFINE r == [Idle EXCEPT !.pc = "report", !.portal = poll[p].portal, !.outcome = outcome]
<1>1. /\ r \in Poll /\ r.pc = "report" /\ r.portal = poll[p].portal /\ r.left = 0 /\ r.outcome = outcome
      /\ poll' = [poll EXCEPT ![p] = r]
  BY PollTypes, PollInHand DEF Idle, Poll, Policies, Report
<1> HIDE DEF r
<1>2. Proper(r) /\ Fits(r, since) /\ HeldBy(r) = 0
  BY <1>1, PollInHand DEF Proper, Fits, HeldBy, Batch
<1> QED BY <1>1, <1>2

\* Poll p goes on to another phase of its batch.
LEMMA Going ==
  ASSUME RadarIInv, NEW p \in Polls, NEW pc \in Batch \ {"upsert"}, Goto(p, pc),
         poll[p].pc \in {"connect"} \union Batch
  PROVE  \E r \in Poll :
           poll' = [poll EXCEPT ![p] = r] /\ Proper(r) /\ Fits(r, since) /\ r.pc = pc
<1> DEFINE r == [poll[p] EXCEPT !.pc = pc]
<1>1. r \in Poll /\ r.pc = pc /\ r.portal = poll[p].portal /\ r.left = poll[p].left /\ r.outcome = poll[p].outcome
  BY PollInHand DEF Poll, Batch
<1>2. poll' = [poll EXCEPT ![p] = r]
  BY PollInHand DEF Goto, RadarTypeOK
<1> HIDE DEF r
<1>3. Proper(r) /\ Fits(r, since)
  BY <1>1, PollInHand DEF Proper, Fits, Batch
<1> QED BY <1>1, <1>2, <1>3

LEMMA ConnectionStep ==
  ASSUME RadarIInv, NEW p \in Polls, BeginBatch(p) \/ BeginEvaluation(p) \/ EndEvaluation(p)
  PROVE  RadarIInv'
<1>0. /\ UNCHANGED <<clockVars, stored, view, wrote>>
      /\ status' \in [Portals -> {"none", "ok", "failed"}] /\ faults' \in 0..MaxFaults
  BY DEF BeginBatch, BeginEvaluation, EndEvaluation, dataVars, RadarIInv, RadarTypeOK
<1>1. CASE BeginBatch(p)
  <2>1. PICK r \in Poll : poll' = [poll EXCEPT ![p] = r] /\ Proper(r) /\ Fits(r, since) /\ r.pc = "next"
    BY <1>1, Going DEF BeginBatch, Batch
  <2>2. inUse' = inUse - Held(p) + HeldBy(r) /\ inUse' <= poolMax
    BY <1>1, <2>1, PollInHand DEF BeginBatch, HeldBy, Batch, Free
  <2> QED BY <1>0, <2>1, <2>2, OnlyPoll
<1>2. CASE BeginEvaluation(p)
  <2>1. PICK r \in Poll : poll' = [poll EXCEPT ![p] = r] /\ Proper(r) /\ Fits(r, since) /\ r.pc = "evaluate"
    BY <1>2, Going DEF BeginEvaluation, Batch
  <2>2. inUse' = inUse - Held(p) + HeldBy(r) /\ inUse' <= poolMax
    BY <1>2, <2>1, PollInHand DEF BeginEvaluation, HeldBy, Batch, Free
  <2> QED BY <1>0, <2>1, <2>2, OnlyPoll
<1>3. CASE EndEvaluation(p)
  <2>1. PICK r \in Poll : poll' = [poll EXCEPT ![p] = r] /\ Proper(r) /\ Fits(r, since) /\ r.pc = "next"
    BY <1>3, Going DEF EndEvaluation, Batch
  <2>2. inUse' = inUse - Held(p) + HeldBy(r) /\ inUse' <= poolMax
    BY <1>3, <2>1, PollInHand DEF EndEvaluation, HeldBy, Batch
  <2> QED BY <1>0, <2>1, <2>2, OnlyPoll
<1> QED BY <1>1, <1>2, <1>3

LEMMA NextListingStep ==
  ASSUME RadarIInv, NEW p \in Polls, NEW raw \in RawListings, NextListing(p, raw)
  PROVE  RadarIInv'
<1> DEFINE t == Normalize(raw)
           r == [poll[p] EXCEPT !.pc = "upsert", !.left = @ - 1, !.cur = t]
<1>1. t \in Listing /\ Normal(t)
  BY Normalized
<1>2. /\ poll[p].pc = "next" /\ poll[p].left > 0
      /\ poll' = [poll EXCEPT ![p].pc = "upsert", ![p].left = @ - 1, ![p].cur = t]
      /\ UNCHANGED <<clockVars, stored, view, wrote, status, inUse, faults>>
  BY DEF NextListing, dataVars
<1> HIDE DEF t
<1>3. poll[p].left - 1 \in Nat /\ poll[p].left - 1 <= MaxBatch[poolMax]
  BY <1>2, PollInHand, PollTypes DEF Proper
<1>4. /\ r \in Poll /\ r.pc = "upsert" /\ r.portal = poll[p].portal /\ r.left = poll[p].left - 1
      /\ r.cur = t /\ r.outcome = poll[p].outcome
  BY <1>1, <1>3, PollInHand DEF Poll, Batch
<1>5. poll' = [poll EXCEPT ![p] = r]
  BY <1>2, PollInHand DEF RadarTypeOK
<1> HIDE DEF r
<1>6. Proper(r) /\ Fits(r, since)
  BY <1>1, <1>2, <1>3, <1>4, PollInHand DEF Proper, Fits
<1>7. inUse' = inUse - Held(p) + HeldBy(r) /\ inUse' <= poolMax
  BY <1>2, <1>4, PollInHand DEF HeldBy, Batch
<1>8. status' \in [Portals -> {"none", "ok", "failed"}] /\ faults' \in 0..MaxFaults
  BY <1>2 DEF RadarIInv, RadarTypeOK
<1> QED BY <1>2, <1>4, <1>5, <1>6, <1>7, <1>8, OnlyPoll

\* The upsert keeps the rows of T1 sound: what it merges into is sound, committed
\* or not.
LEMMA UpsertStep ==
  ASSUME RadarIInv, NEW p \in Polls, Upsert(p)
  PROVE  RadarIInv'
<1> DEFINE r == [poll[p] EXCEPT !.pc = "hook", !.cur = Absent]
           k == Key(p)
           old == IF k \in wrote[p] THEN view[p][k] ELSE stored[k]
           new == Merge(old, ToStored(poll[p].cur))
<1>1. /\ poll[p].pc = "upsert" /\ poll' = [poll EXCEPT ![p].pc = "hook", ![p].cur = Absent]
      /\ wrote' = [wrote EXCEPT ![p] = @ \union {k}]
      /\ UNCHANGED <<clockVars, stored, inUse, status, faults>>
  BY DEF Upsert
<1>2. /\ r \in Poll /\ r.pc = "hook" /\ r.portal = poll[p].portal /\ r.left = poll[p].left
      /\ r.outcome = poll[p].outcome
  BY PollInHand DEF Poll, Batch
<1>3. poll' = [poll EXCEPT ![p] = r]
  BY <1>1, PollInHand DEF RadarTypeOK
<1> HIDE DEF r
<1>4. Proper(r) /\ Fits(r, since)
  BY <1>1, <1>2, PollInHand DEF Proper, Fits
<1>5. inUse' = inUse - Held(p) + HeldBy(r) /\ inUse' <= poolMax
  BY <1>1, <1>2, PollInHand DEF HeldBy, Batch
<1>6. status' \in [Portals -> {"none", "ok", "failed"}] /\ faults' \in 0..MaxFaults
  BY <1>1 DEF RadarIInv, RadarTypeOK
<1>7. poll[p].cur \in Listing /\ Normal(poll[p].cur) /\ poll[p].portal \in Portals
  BY <1>1, PollInHand, PollTypes DEF Fits
<1>8. k \in Keys
  BY <1>7 DEF Key, Keys, Listing
<1>9. view' = [view EXCEPT ![p] = [view[p] EXCEPT ![k] = new]]
  BY DEF Upsert, RadarIInv, RadarTypeOK
<1> HIDE DEF k
<1>10. old \in Row /\ Sound(old)
  BY <1>8 DEF RadarIInv, RadarTypeOK, RowsSound
<1> HIDE DEF old
<1>11. new \in Row /\ Sound(new)
  BY <1>7, <1>10, StoredForm, Merged
<1> HIDE DEF new
<1>12. /\ view' \in [Polls -> [Keys -> Row]]
       /\ \A q \in Polls, l \in Keys : view'[q][l] = IF q = p /\ l = k THEN new ELSE view[q][l]
  BY <1>8, <1>9, <1>11 DEF RadarIInv, RadarTypeOK
<1>13. stored' \in [Keys -> Row] /\ wrote' \in [Polls -> SUBSET Keys]
  BY <1>1, <1>8 DEF RadarIInv, RadarTypeOK
<1>14. RowsSound'
  BY <1>1, <1>11, <1>12 DEF RadarIInv, RowsSound
<1> QED BY <1>1, <1>2, <1>3, <1>4, <1>5, <1>6, <1>12, <1>13, <1>14, OnePoll

-----------------------------------------------------------------------------
(* The end of a batch, and the report. *)

LEMMA EndBatchStep ==
  ASSUME RadarIInv, NEW p \in Polls, NEW outcome \in {"ok", "failed"}, EndBatch(p, outcome),
         poll[p].pc \in Batch, UNCHANGED <<clockVars, status>>, faults' \in 0..MaxFaults,
         stored' \in [Keys -> Row], \A k \in Keys : Sound(stored'[k])
  PROVE  RadarIInv'
<1>1. PICK r \in Poll : /\ poll' = [poll EXCEPT ![p] = r] /\ Proper(r) /\ Fits(r, since)
                        /\ HeldBy(r) = 0
  BY Reporting DEF EndBatch, Batch
<1>2. inUse' = inUse - Held(p) + HeldBy(r) /\ inUse' <= poolMax
  BY <1>1, PollInHand DEF EndBatch, HeldBy, Batch
<1>3. /\ view' \in [Polls -> [Keys -> Row]] /\ wrote' \in [Polls -> SUBSET Keys]
      /\ \A q \in Polls : view'[q] = IF q = p THEN NoRows ELSE view[q]
  BY Blank DEF EndBatch, RadarIInv, RadarTypeOK
<1>4. \A k \in Keys : NoRows[k] = NoRow
  BY DEF NoRows
<1>5. RowsSound'
  BY <1>3, <1>4, Blank DEF RadarIInv, RowsSound
<1>6. UNCHANGED clockVars /\ status' \in [Portals -> {"none", "ok", "failed"}]
  BY DEF RadarIInv, RadarTypeOK
<1> QED BY <1>1, <1>2, <1>3, <1>5, <1>6, OnePoll

LEMMA CommitStep ==
  ASSUME RadarIInv, NEW p \in Polls, Commit(p)
  PROVE  RadarIInv'
<1>1. stored' = [k \in Keys |-> IF k \in wrote[p] THEN view[p][k] ELSE stored[k]]
  BY DEF Commit
<1>2. stored' \in [Keys -> Row] /\ \A k \in Keys : Sound(stored'[k])
  BY <1>1 DEF RadarIInv, RadarTypeOK, RowsSound
<1>3. /\ EndBatch(p, "ok") /\ poll[p].pc \in Batch
      /\ UNCHANGED <<clockVars, status>> /\ faults' \in 0..MaxFaults
  BY DEF Commit, Batch, RadarIInv, RadarTypeOK
<1> QED BY <1>2, <1>3, EndBatchStep

\* Whatever makes a batch roll back.
LEMMA RollbackStep ==
  ASSUME RadarIInv, NEW p \in Polls, Rollback(p), poll[p].pc \in Batch, faults' \in 0..MaxFaults
  PROVE  RadarIInv'
<1>1. EndBatch(p, "failed") /\ UNCHANGED <<clockVars, status, stored>>
  BY DEF Rollback
<1>2. stored' \in [Keys -> Row] /\ \A k \in Keys : Sound(stored'[k])
  BY <1>1 DEF RadarIInv, RadarTypeOK, RowsSound
<1> QED BY <1>1, <1>2, EndBatchStep

LEMMA Failing ==
  ASSUME RadarIInv, NEW p \in Polls, Reject(p) \/ StatementFails(p) \/ DeadlockAbort(p)
  PROVE  Rollback(p) /\ poll[p].pc \in Batch /\ faults' \in 0..MaxFaults
<1>1. CASE Reject(p)
  BY <1>1 DEF Reject, Batch, RadarIInv, RadarTypeOK
<1>2. CASE StatementFails(p)
  BY <1>2, Constants DEF StatementFails, RadarIInv, RadarTypeOK
<1>3. CASE DeadlockAbort(p)
  BY <1>3 DEF DeadlockAbort, WaitsFor, Batch, RadarIInv, RadarTypeOK
<1> QED BY <1>1, <1>2, <1>3

\* A fetch, or a connect before the batch, that fails.
LEMMA NoBatchStep ==
  ASSUME RadarIInv, NEW p \in Polls, Report(p, "failed"), poll[p].pc \notin Batch \union {"idle"},
         UNCHANGED <<clockVars, dataVars, inUse>>, faults' \in 0..MaxFaults
  PROVE  RadarIInv'
<1>1. PICK r \in Poll : /\ poll' = [poll EXCEPT ![p] = r] /\ Proper(r) /\ Fits(r, since)
                        /\ HeldBy(r) = 0
  BY Reporting
<1>2. UNCHANGED <<clockVars, stored, view, wrote>> /\ status' \in [Portals -> {"none", "ok", "failed"}]
      /\ inUse' = inUse
  BY DEF dataVars, RadarIInv, RadarTypeOK
<1>3. inUse' = inUse - Held(p) + HeldBy(r) /\ inUse' <= poolMax
  BY <1>1, <1>2, PollInHand DEF HeldBy
<1> QED BY <1>1, <1>2, <1>3, OnlyPoll

LEMMA ConnectTimeoutStep ==
  ASSUME RadarIInv, NEW p \in Polls, ConnectTimeout(p)
  PROVE  RadarIInv'
<1>0. faults' \in 0..MaxFaults
  BY DEF ConnectTimeout, RadarIInv, RadarTypeOK
<1>1. CASE poll[p].pc = "connect" /\ Report(p, "failed") /\ UNCHANGED <<stored, view, wrote, inUse, status>> /\ UNCHANGED clockVars
  <2>1. UNCHANGED <<clockVars, dataVars, inUse>> /\ poll[p].pc \notin Batch \union {"idle"}
    BY <1>1 DEF dataVars, Batch
  <2> QED BY <1>0, <1>1, <2>1, NoBatchStep
<1>2. CASE poll[p].pc = "hook" /\ Rollback(p)
  BY <1>0, <1>2, RollbackStep DEF Batch
<1> QED BY <1>1, <1>2 DEF ConnectTimeout

LEMMA FetchFailsStep ==
  ASSUME RadarIInv, NEW p \in Polls, FetchFails(p)
  PROVE  RadarIInv'
<1>1. Report(p, "failed") /\ UNCHANGED <<clockVars, dataVars, inUse>> /\ faults' \in 0..MaxFaults
  BY DEF FetchFails, RadarIInv, RadarTypeOK
<1>2. poll[p].pc \notin Batch \union {"idle"}
  BY DEF FetchFails, Batch
<1> QED BY <1>1, <1>2, NoBatchStep

\* The poll is over.
LEMMA EndPollStep ==
  ASSUME RadarIInv, NEW p \in Polls, poll' = [poll EXCEPT ![p] = Idle], poll[p].pc = "report",
         UNCHANGED <<clockVars, stored, view, wrote, inUse>>,
         status' \in [Portals -> {"none", "ok", "failed"}], faults' \in 0..MaxFaults
  PROVE  RadarIInv'
<1>1. Proper(Idle) /\ Fits(Idle, since)
  BY PollInHand DEF Idle, Proper, Fits
<1>2. inUse' = inUse - Held(p) + HeldBy(Idle) /\ inUse' <= poolMax
  BY PollInHand, IdleType DEF HeldBy, Batch
<1> QED BY <1>1, <1>2, IdleType, OnlyPoll

LEMMA RecordStep ==
  ASSUME RadarIInv, NEW p \in Polls, Record(p) \/ RecordFails(p)
  PROVE  RadarIInv'
<1>0. poll[p].pc = "report" /\ UNCHANGED <<clockVars, stored, view, wrote, inUse>> /\ faults' \in 0..MaxFaults
  BY Constants DEF Record, RecordFails, dataVars, RadarIInv, RadarTypeOK
<1>1. CASE Record(p)
  <2>1. poll[p].outcome \in {"none", "ok", "failed"}
    BY PollInHand DEF Poll
  <2>2. status' \in [Portals -> {"none", "ok", "failed"}]
    BY <1>1, <2>1 DEF Record, RadarIInv, RadarTypeOK
  <2> QED BY <1>0, <1>1, <2>2, EndPollStep DEF Record
<1>2. CASE RecordFails(p)
  <2>1. status' \in [Portals -> {"none", "ok", "failed"}] /\ UNCHANGED <<clockVars, dataVars, inUse>>
    BY <1>2 DEF RecordFails, dataVars, RadarIInv, RadarTypeOK
  <2>2. CASE poll[p].outcome = "ok"
    BY <1>0, <1>2, <2>1, <2>2, NoBatchStep DEF RecordFails, Batch
  <2>3. CASE poll[p].outcome # "ok"
    BY <1>0, <1>2, <2>1, <2>3, EndPollStep DEF RecordFails
  <2> QED BY <2>2, <2>3
<1> QED BY <1>1, <1>2

-----------------------------------------------------------------------------
(* The clocks. *)

\* A step that leaves data, phases and connections alone.
LEMMA ClockStep ==
  ASSUME RadarIInv, UNCHANGED <<poolMax, dataVars, inUse, faults>>,
         limiter' \in [Portals -> Nat \union {Absent}], since' \in [Portals -> Nat],
         \A s \in Portals : limiter'[s] \in (0..Interval(s)) \union {Absent} /\ since'[s] \in 0..Interval(s),
         asked' \subseteq Portals, LimiterFits', poll' \in [Polls -> Poll],
         \A p \in Polls : /\ Proper(poll'[p]) /\ Fits(poll'[p], since')
                          /\ HeldBy(poll'[p]) = HeldBy(poll[p])
  PROVE  RadarIInv'
<1>0. UNCHANGED <<poolMax, stored, view, wrote, status, inUse, faults>>
  BY DEF dataVars
<1>1. RadarTypeOK'
  BY <1>0, TypesNext DEF RadarIInv, RadarTypeOK
<1>2. HeldNow' = HeldNow
  BY DEF HeldNow, Held, HeldBy
<1>3. ConnectionsAccounted'
  BY <1>0, <1>2, Account, AccountPrime DEF RadarIInv
<1>4. RowsSound'
  BY <1>0 DEF RadarIInv, RowsSound
<1>5. \A p \in Polls : PollFits(p)'
  BY FitsIs
<1> QED BY <1>1, <1>3, <1>4, <1>5 DEF RadarIInv

\* A tick brings a poll that waits nearer to its turn by as much as the portal's
\* last request is farther in the past.
LEMMA TickStep ==
  ASSUME RadarIInv, Tick
  PROVE  RadarIInv'
<1>1. /\ limiter' = [s \in Portals |-> IF limiter[s] \in 0..(Interval(s) - 1) THEN limiter[s] + 1 ELSE limiter[s]]
      /\ since' = [s \in Portals |-> IF since[s] < Interval(s) THEN since[s] + 1 ELSE since[s]]
      /\ poll' = [p \in Polls |-> IF poll[p].wait > 0 THEN [poll[p] EXCEPT !.wait = @ - 1] ELSE poll[p]]
      /\ UNCHANGED <<poolMax, dataVars, inUse, faults>> /\ asked' = asked
  BY DEF Tick
<1>2. ASSUME NEW s \in Portals
      PROVE  /\ since'[s] \in 0..Interval(s)
             /\ since'[s] = IF since[s] < Interval(s) THEN since[s] + 1 ELSE since[s]
             /\ limiter'[s] \in (0..Interval(s)) \union {Absent}
             /\ limiter[s] = Absent => limiter'[s] = Absent
             /\ limiter[s] # Absent => limiter'[s] # Absent
             /\ limiter[s] # Absent /\ limiter[s] = since[s] => limiter'[s] = since'[s]
  <2>1. Interval(s) \in Nat /\ since[s] \in 0..Interval(s) /\ Absent \notin Int
    BY ClockTypes, Constants DEF RadarIInv
  <2>2. since'[s] = IF since[s] < Interval(s) THEN since[s] + 1 ELSE since[s]
    BY <1>1
  <2>3. limiter'[s] = IF limiter[s] \in 0..(Interval(s) - 1) THEN limiter[s] + 1 ELSE limiter[s]
    BY <1>1
  <2>4. since'[s] \in 0..Interval(s)
    BY <2>1, <2>2
  <2>5. CASE limiter[s] = Absent
    <3>1. limiter'[s] = Absent
      BY <2>1, <2>3, <2>5
    <3> QED BY <2>2, <2>4, <2>5, <3>1
  <2>6. CASE limiter[s] # Absent
    <3>1. limiter[s] \in 0..Interval(s)
      BY <2>6, ClockTypes DEF RadarIInv
    <3>2. limiter'[s] \in 0..Interval(s)
      BY <2>1, <2>3, <3>1
    <3>3. limiter[s] = since[s] => limiter'[s] = since'[s]
      BY <2>1, <2>2, <2>3, <3>1
    <3> QED BY <2>1, <2>2, <2>4, <2>6, <3>2, <3>3
  <2> QED BY <2>5, <2>6
<1>3. limiter' \in [Portals -> Nat \union {Absent}] /\ since' \in [Portals -> Nat]
  <2>1. \A s \in Portals : since'[s] \in Nat /\ limiter'[s] \in Nat \union {Absent}
    BY <1>2, Constants
  <2> QED BY <1>1, <2>1
<1>4. LimiterFits'
  BY <1>1, <1>2 DEF RadarIInv, LimiterFits
<1>5. ASSUME NEW p \in Polls
      PROVE  poll'[p] \in Poll /\ Proper(poll'[p]) /\ Fits(poll'[p], since') /\ HeldBy(poll'[p]) = HeldBy(poll[p])
  <2> DEFINE r == [poll[p] EXCEPT !.wait = @ - 1]
  <2>1. poll'[p] = IF poll[p].wait > 0 THEN r ELSE poll[p]
    BY <1>1
  <2>2. poll[p].pc = "wait" =>
          /\ poll[p].portal \in Portals
          /\ Interval(poll[p].portal) \in Nat /\ since[poll[p].portal] \in 0..Interval(poll[p].portal)
    BY PollTypes, ClockTypes DEF RadarIInv
  <2>3. CASE poll[p].wait > 0
    <3>1. /\ r \in Poll /\ r.pc = poll[p].pc /\ r.portal = poll[p].portal /\ r.left = poll[p].left
          /\ r.cur = poll[p].cur /\ r.outcome = poll[p].outcome /\ r.overtaken = poll[p].overtaken
          /\ r.rules = poll[p].rules
          /\ r.wait = poll[p].wait - 1
      BY <2>3, PollInHand, PollTypes DEF Poll
    <3> HIDE DEF r
    <3>2. Proper(r) /\ HeldBy(r) = HeldBy(poll[p])
      BY <3>1, PollInHand DEF Proper, HeldBy
    <3>3. Fits(r, since')
      <4>1. r.pc = "wait" /\ ~r.overtaken => r.wait + since'[r.portal] >= Interval(r.portal)
        <5> SUFFICES ASSUME r.pc = "wait", ~r.overtaken PROVE r.wait + since'[r.portal] >= Interval(r.portal)
          OBVIOUS
        <5> DEFINE s == poll[p].portal
        <5>1. s \in Portals /\ Interval(s) \in Nat /\ since[s] \in 0..Interval(s)
          BY <2>2, <3>1
        <5>2. poll[p].wait + since[s] >= Interval(s)
          BY <3>1, PollInHand DEF Fits
        <5>3. since'[s] = IF since[s] < Interval(s) THEN since[s] + 1 ELSE since[s]
          BY <1>2, <5>1
        <5>4. poll[p].wait \in Nat
          BY PollTypes DEF RadarIInv
        <5> HIDE DEF s
        <5>5. poll[p].wait - 1 + since'[s] >= Interval(s)
          BY <2>3, <5>1, <5>2, <5>3, <5>4
        <5> QED BY <3>1, <5>5 DEF s
      <4> QED BY <3>1, <4>1, PollInHand DEF Fits
    <3> QED BY <2>1, <2>3, <3>1, <3>2, <3>3
  <2>4. CASE ~(poll[p].wait > 0)
    <3>1. poll'[p] = poll[p]
      BY <2>1, <2>4
    <3>2. Fits(poll[p], since')
      <4>1. poll[p].pc = "wait" /\ ~poll[p].overtaken =>
              poll[p].wait + since'[poll[p].portal] >= Interval(poll[p].portal)
        <5> SUFFICES ASSUME poll[p].pc = "wait", ~poll[p].overtaken
                     PROVE  poll[p].wait + since'[poll[p].portal] >= Interval(poll[p].portal)
          OBVIOUS
        <5> DEFINE s == poll[p].portal
        <5>1. s \in Portals /\ Interval(s) \in Nat /\ since[s] \in 0..Interval(s)
          BY <2>2
        <5>2. poll[p].wait + since[s] >= Interval(s)
          BY PollInHand DEF Fits
        <5>3. since'[s] = IF since[s] < Interval(s) THEN since[s] + 1 ELSE since[s]
          BY <1>2, <5>1
        <5>4. poll[p].wait \in Nat
          BY PollTypes DEF RadarIInv
        <5> HIDE DEF s
        <5>5. poll[p].wait + since'[s] >= Interval(s)
          BY <5>1, <5>2, <5>3, <5>4
        <5> QED BY <5>5 DEF s
      <4> QED BY <4>1, PollInHand DEF Fits
    <3> QED BY <3>1, <3>2, PollInHand
  <2> QED BY <2>3, <2>4
<1>6. poll' \in [Polls -> Poll]
  BY <1>1, <1>5
<1>7. asked' \subseteq Portals
  BY <1>1 DEF RadarIInv, RadarTypeOK
<1> QED BY <1>1, <1>2, <1>3, <1>4, <1>5, <1>6, <1>7, ClockStep

\* The request for the listings of a portal overtakes the polls that wait for it.
LEMMA RequestStep ==
  ASSUME RadarIInv, NEW p \in Polls, Request(p), poll[p].pc \in {"acquire", "wait"},
         UNCHANGED <<dataVars, inUse, faults>>
  PROVE  RadarIInv'
<1> DEFINE s == poll[p].portal
<1>0. s \in Portals /\ Interval(s) \in Nat
  BY PollTypes, Constants DEF RadarIInv
<1>1. /\ limiter' = [limiter EXCEPT ![s] = 0] /\ since' = [since EXCEPT ![s] = 0]
      /\ asked' = asked \union {s} /\ poolMax' = poolMax
      /\ poll' = [q \in Polls |->
           IF q = p THEN [poll[p] EXCEPT !.pc = "fetch", !.rules = <<>>, !.overtaken = FALSE]
           ELSE IF poll[q].pc = "wait" /\ poll[q].portal = s THEN [poll[q] EXCEPT !.overtaken = TRUE]
           ELSE poll[q]]
  BY DEF Request
<1>2. 0 \in 0..Interval(s) /\ 0 # Absent
  BY <1>0, Constants
<1>3. limiter' \in [Portals -> Nat \union {Absent}] /\ since' \in [Portals -> Nat]
  BY <1>0, <1>1 DEF RadarIInv, RadarTypeOK
<1>4. \A x \in Portals : limiter'[x] \in (0..Interval(x)) \union {Absent} /\ since'[x] \in 0..Interval(x)
  BY <1>0, <1>1, <1>2 DEF RadarIInv, RadarTypeOK
<1>5. LimiterFits'
  BY <1>0, <1>1, <1>2 DEF RadarIInv, RadarTypeOK, LimiterFits
<1>6. ASSUME NEW q \in Polls
      PROVE  poll'[q] \in Poll /\ Proper(poll'[q]) /\ Fits(poll'[q], since') /\ HeldBy(poll'[q]) = HeldBy(poll[q])
  <2>1. CASE q = p
    <3> DEFINE r == [poll[p] EXCEPT !.pc = "fetch", !.rules = <<>>, !.overtaken = FALSE]
    <3>1. /\ r \in Poll /\ r.pc = "fetch" /\ r.portal = s /\ r.left = poll[p].left
          /\ r.outcome = poll[p].outcome
      BY PollInHand DEF Poll, Policies
    <3>2. poll'[q] = r
      BY <1>1, <2>1
    <3> HIDE DEF r
    <3>3. Proper(r) /\ Fits(r, since') /\ HeldBy(r) = HeldBy(poll[p])
      BY <3>1, PollInHand DEF Proper, Fits, HeldBy, Batch
    <3> QED BY <2>1, <3>1, <3>2, <3>3
  <2>2. CASE q # p /\ poll[q].pc = "wait" /\ poll[q].portal = s
    <3> DEFINE r == [poll[q] EXCEPT !.overtaken = TRUE]
    <3>1. /\ r \in Poll /\ r.pc = poll[q].pc /\ r.portal = poll[q].portal /\ r.left = poll[q].left
          /\ r.cur = poll[q].cur /\ r.outcome = poll[q].outcome /\ r.overtaken
          /\ r.rules = poll[q].rules
      BY PollInHand DEF Poll
    <3>2. poll'[q] = r
      BY <1>1, <2>2
    <3> HIDE DEF r
    <3>3. Proper(r) /\ Fits(r, since') /\ HeldBy(r) = HeldBy(poll[q])
      BY <3>1, PollInHand DEF Proper, Fits, HeldBy
    <3> QED BY <3>1, <3>2, <3>3
  <2>3. CASE q # p /\ ~(poll[q].pc = "wait" /\ poll[q].portal = s)
    <3>1. poll'[q] = poll[q]
      BY <1>1, <2>3
    <3>2. poll[q].pc = "wait" => since'[poll[q].portal] = since[poll[q].portal]
      BY <1>1, <2>3, PollTypes DEF RadarIInv, RadarTypeOK
    <3>3. Fits(poll[q], since')
      BY <3>2, PollInHand DEF Fits
    <3> QED BY <3>1, <3>3, PollInHand
  <2> QED BY <2>1, <2>2, <2>3
<1>7. poll' \in [Polls -> Poll]
  BY <1>1, <1>6
<1>8. asked' \subseteq Portals
  BY <1>0, <1>1 DEF RadarIInv, RadarTypeOK
<1> QED BY <1>1, <1>3, <1>4, <1>5, <1>6, <1>7, <1>8, ClockStep

LEMMA AcquireStep ==
  ASSUME RadarIInv, NEW p \in Polls, Acquire(p)
  PROVE  RadarIInv'
<1> DEFINE s == poll[p].portal
<1>0. poll[p].pc = "acquire" /\ UNCHANGED <<dataVars, inUse, faults>>
  BY DEF Acquire
<1>1. CASE Request(p)
  BY <1>0, <1>1, RequestStep
<1>2. CASE ~Request(p)
  <2>1. WaitTime(s) # 0 /\ UNCHANGED clockVars
        /\ poll' = [poll EXCEPT ![p].pc = "wait", ![p].wait = WaitTime(s)]
    BY <1>2 DEF Acquire
  <2>2. s \in Portals
    BY <1>0, PollTypes DEF RadarIInv
  <2>3. /\ WaitTime(s) = Interval(s) - since[s]
        /\ Interval(s) \in Nat /\ since[s] \in 0..Interval(s)
    BY <2>1, <2>2, ClockTypes DEF WaitTime, RadarIInv, LimiterFits
  <2>4. WaitTime(s) \in Nat /\ WaitTime(s) + since[s] >= Interval(s)
    BY <2>3
  <2> DEFINE r == [poll[p] EXCEPT !.pc = "wait", !.wait = WaitTime(s)]
  <2>5. /\ r \in Poll /\ r.pc = "wait" /\ r.portal = s /\ r.left = poll[p].left
        /\ r.outcome = poll[p].outcome /\ r.wait = WaitTime(s) /\ r.rules = poll[p].rules
    BY <2>4, PollInHand DEF Poll
  <2>6. poll' = [poll EXCEPT ![p] = r]
    BY <2>1, PollInHand DEF RadarTypeOK
  <2> HIDE DEF r
  <2>7. Proper(r) /\ Fits(r, since)
    BY <1>0, <2>4, <2>5, PollInHand DEF Proper, Fits
  <2>8. inUse' = inUse - Held(p) + HeldBy(r) /\ inUse' <= poolMax
    BY <1>0, <2>5, PollInHand DEF HeldBy, Batch
  <2>9. /\ UNCHANGED <<clockVars, stored, view, wrote>> /\ faults' \in 0..MaxFaults
        /\ status' \in [Portals -> {"none", "ok", "failed"}]
    BY <1>0, <2>1 DEF dataVars, RadarIInv, RadarTypeOK
  <2> QED BY <2>5, <2>6, <2>7, <2>8, <2>9, OnlyPoll
<1> QED BY <1>1, <1>2

LEMMA CrashStep ==
  ASSUME RadarIInv, Crash
  PROVE  RadarIInv'
<1>0. /\ UNCHANGED <<poolMax, stored, status, since>> /\ faults' \in 0..MaxFaults /\ inUse' = 0
      /\ limiter' = [s \in Portals |-> Absent] /\ asked' = {}
      /\ poll' = [p \in Polls |-> Idle] /\ view' = [p \in Polls |-> NoRows] /\ wrote' = [p \in Polls |-> {}]
  BY Constants DEF Crash, RadarIInv, RadarTypeOK
<1>1. \A p \in Polls : poll'[p] = Idle /\ Proper(Idle) /\ Fits(Idle, since')
  BY <1>0, PollInHand DEF Idle, Proper, Fits
<1>2. RadarTypeOK'
  BY <1>0, <1>1, IdleType, Blank, TypesNext DEF RadarIInv, RadarTypeOK
<1>3. ConnectionsAccounted'
  <2>1. HeldNow' \in [Polls -> {0, 1, 2}] /\ \A p \in Polls : (HeldNow')[p] = 0
    BY <1>0 DEF HeldNow, Held, Batch, Idle
  <2>2. Cardinality(Taken(HeldNow')) = 0
    BY <2>1, NothingTaken
  <2>3. poolMax \in Nat
    BY Constants DEF RadarIInv, RadarTypeOK
  <2> QED BY <1>0, <2>2, <2>3, AccountPrime
<1>4. LimiterFits'
  BY <1>0 DEF LimiterFits
<1>5. RowsSound'
  <2>1. \A k \in Keys : NoRows[k] = NoRow
    BY DEF NoRows
  <2> QED BY <1>0, <2>1, Blank DEF RadarIInv, RowsSound
<1>6. \A p \in Polls : PollFits(p)'
  BY <1>1, FitsIs
<1> QED BY <1>2, <1>3, <1>4, <1>5, <1>6 DEF RadarIInv

-----------------------------------------------------------------------------
(* The theorems. *)

LEMMA InitRadarIInv == RadarInit => RadarIInv
<1> SUFFICES ASSUME RadarInit PROVE RadarIInv OBVIOUS
<1> USE DEF RadarInit
<1>1. \A p \in Polls : poll[p] = Idle /\ Proper(Idle) /\ Fits(Idle, since)
  BY Constants DEF Idle, Proper, Fits
<1>2. \A s \in Portals : Interval(s) \in 0..Interval(s)
  BY Constants
<1>3. RadarTypeOK
  BY <1>1, <1>2, IdleType, Blank, Constants DEF RadarTypeOK, Proper
<1>4. ConnectionsAccounted
  <2>1. HeldNow \in [Polls -> {0, 1, 2}] /\ \A p \in Polls : HeldNow[p] = 0
    BY DEF HeldNow, Held, Batch, Idle
  <2> QED BY <2>1, NothingTaken, Account, Constants
<1>5. LimiterFits
  BY DEF LimiterFits
<1>6. RowsSound
  <2>1. \A k \in Keys : NoRows[k] = NoRow
    BY DEF NoRows
  <2> QED BY <2>1, Blank DEF RowsSound
<1>7. \A p \in Polls : PollFits(p)
  BY <1>1, FitsIs
<1> QED BY <1>3, <1>4, <1>5, <1>6, <1>7 DEF RadarIInv

LEMMA StutterStep ==
  ASSUME RadarIInv, UNCHANGED radarVars
  PROVE  RadarIInv'
<1>0. UNCHANGED <<poolMax, limiter, poll, stored, view, wrote, inUse, status, since, asked, faults>>
  BY DEF radarVars
<1>1. RadarTypeOK' /\ LimiterFits' /\ RowsSound'
  BY <1>0 DEF RadarIInv, RadarTypeOK, LimiterFits, RowsSound
<1>2. HeldNow' = HeldNow
  BY <1>0 DEF HeldNow, Held
<1>3. ConnectionsAccounted'
  BY <1>0, <1>2, Account, AccountPrime DEF RadarIInv
<1>4. \A p \in Polls : PollFits(p)'
  BY <1>0, FitsIs DEF RadarIInv
<1> QED BY <1>1, <1>3, <1>4 DEF RadarIInv

LEMMA NextIInv == RadarIInv /\ [RadarNext]_radarVars => RadarIInv'
<1> SUFFICES ASSUME RadarIInv, [RadarNext]_radarVars PROVE RadarIInv' OBVIOUS
<1>1. CASE Tick
  BY <1>1, TickStep
<1>2. ASSUME NEW p \in Polls, PollStep(p) PROVE RadarIInv'
  <2>1. CASE Acquire(p)
    BY <2>1, AcquireStep
  <2>2. CASE Resume(p)
    BY <2>2, RequestStep DEF Resume
  <2>3. CASE FetchOk(p)
    BY <2>3, FetchOkStep
  <2>4. CASE FetchFails(p)
    BY <2>4, FetchFailsStep
  <2>5. CASE BeginBatch(p) \/ BeginEvaluation(p) \/ EndEvaluation(p)
    BY <2>5, ConnectionStep
  <2>6. ASSUME NEW raw \in RawListings, NextListing(p, raw) PROVE RadarIInv'
    BY <2>6, NextListingStep
  <2>7. CASE Upsert(p)
    BY <2>7, UpsertStep
  <2>8. CASE Commit(p)
    BY <2>8, CommitStep
  <2>9. CASE Reject(p) \/ DeadlockAbort(p)
    BY <2>9, Failing, RollbackStep
  <2>10. CASE ConnectTimeout(p)
    BY <2>10, ConnectTimeoutStep
  <2>11. CASE Record(p) \/ RecordFails(p)
    BY <2>11, RecordStep
  <2> QED BY <1>2, <2>1, <2>2, <2>3, <2>4, <2>5, <2>6, <2>7, <2>8, <2>9, <2>10, <2>11 DEF PollStep
<1>3. ASSUME NEW p \in Polls, StatementFails(p) PROVE RadarIInv'
  BY <1>3, Failing, RollbackStep
<1>4. ASSUME NEW p \in Polls, NEW s \in Portals, StartPoll(p, s) PROVE RadarIInv'
  BY <1>4, StartPollStep
<1>5. CASE Crash
  BY <1>5, CrashStep
<1>6. CASE UNCHANGED radarVars
  BY <1>6, StutterStep
<1> QED BY <1>1, <1>2, <1>3, <1>4, <1>5, <1>6 DEF RadarNext

THEOREM Inductive == RadarSpec => []RadarIInv
BY InitRadarIInv, NextIInv, PTL DEF RadarSpec

\* Data keeps its types and its form, and connections add up, however polls overlap
\* and fail: normalizeListing, upsertTender, withTransaction.
THEOREM DataAlwaysSound == RadarSpec => []DataIsSound
<1>1. RadarIInv => DataIsSound
  <2> SUFFICES ASSUME RadarIInv PROVE DataIsSound OBVIOUS
  <2>1. RoundTrips
    BY PollTypes, StoredForm DEF RadarIInv, RoundTrips, PollFits
  <2>2. KnownIsPositive
    BY DEF RadarIInv, RowsSound, Sound, KnownIsPositive
  <2> QED BY <2>1, <2>2 DEF RadarIInv, DataIsSound
<1> QED BY <1>1, Inductive, PTL

Succeeds(q) == poll'[q].outcome = "ok" /\ poll[q].outcome # "ok"

\* No step but a commit makes a poll a success, or changes a tender.
LEMMA OnlyCommit ==
  ASSUME RadarTypeOK, RadarNext, \A p \in Polls : ~Commit(p)
  PROVE  stored' = stored /\ \A q \in Polls : ~Succeeds(q)
<1> USE DEF Succeeds
<1>0. poll \in [Polls -> Poll] /\ \A p \in Polls : poll[p] \in Poll
  BY DEF RadarTypeOK
<1>1. CASE Tick \/ Crash
  <2>1. stored' = stored
    BY <1>1 DEF Tick, Crash, dataVars
  <2>2. ASSUME NEW q \in Polls PROVE poll'[q].outcome \in {"none", poll[q].outcome}
    <3>1. CASE Tick
      <4>1. poll'[q] = IF poll[q].wait > 0 THEN [poll[q] EXCEPT !.wait = @ - 1] ELSE poll[q]
        BY <3>1 DEF Tick
      <4>2. [poll[q] EXCEPT !.wait = @ - 1].outcome = poll[q].outcome
        BY <1>0 DEF Poll
      <4> QED BY <4>1, <4>2
    <3>2. CASE Crash
      BY <3>2 DEF Crash, Idle
    <3> QED BY <1>1, <3>1, <3>2
  <2> QED BY <2>1, <2>2
\* Poll p fails, or is over.
<1>2. ASSUME NEW p \in Polls, stored' = stored,
             Report(p, "failed") \/ poll' = [poll EXCEPT ![p] = Idle]
      PROVE  \A q \in Polls : ~Succeeds(q)
  <2>1. /\ poll'[p].outcome \in {"none", "failed"}
        /\ \A q \in Polls \ {p} : poll'[q] = poll[q]
    <3>1. CASE Report(p, "failed")
      BY <1>0, <3>1 DEF Report, Idle
    <3>2. CASE poll' = [poll EXCEPT ![p] = Idle]
      BY <1>0, <3>2 DEF Idle
    <3> QED BY <1>2, <3>1, <3>2
  <2> QED BY <2>1
<1>3. ASSUME NEW p \in Polls, StatementFails(p) \/ Reject(p) \/ DeadlockAbort(p) \/ FetchFails(p)
      PROVE  stored' = stored /\ Report(p, "failed")
  BY <1>3 DEF StatementFails, Reject, DeadlockAbort, FetchFails, Rollback, EndBatch, dataVars
<1>4. ASSUME NEW p \in Polls, ConnectTimeout(p) \/ Record(p) \/ RecordFails(p)
      PROVE  stored' = stored /\ (Report(p, "failed") \/ poll' = [poll EXCEPT ![p] = Idle])
  BY <1>4 DEF ConnectTimeout, Record, RecordFails, Rollback, EndBatch, dataVars
<1>5. ASSUME NEW p \in Polls, NEW s \in Portals, StartPoll(p, s)
      PROVE  stored' = stored /\ \A q \in Polls : ~Succeeds(q)
  <2>1. PICK rules \in Policies :
          poll' = [poll EXCEPT ![p] = [Idle EXCEPT
                     !.pc = IF IsAllowed(rules) THEN "acquire" ELSE "connect",
                     !.portal = s, !.rules = IF IsAllowed(rules) THEN rules ELSE <<>>]]
    BY <1>5 DEF StartPoll
  <2> QED BY <1>0, <1>5, <2>1 DEF StartPoll, dataVars, Idle
<1>6. ASSUME NEW p \in Polls, Request(p)
      PROVE  \A q \in Polls : ~Succeeds(q)
  <2> SUFFICES ASSUME NEW q \in Polls PROVE poll'[q].outcome = poll[q].outcome
    OBVIOUS
  <2>1. poll'[q] = IF q = p THEN [poll[p] EXCEPT !.pc = "fetch", !.rules = <<>>, !.overtaken = FALSE]
                   ELSE IF poll[q].pc = "wait" /\ poll[q].portal = poll[p].portal
                   THEN [poll[q] EXCEPT !.overtaken = TRUE] ELSE poll[q]
    BY <1>6 DEF Request
  <2>2. /\ [poll[p] EXCEPT !.pc = "fetch", !.rules = <<>>, !.overtaken = FALSE].outcome = poll[p].outcome
        /\ [poll[q] EXCEPT !.overtaken = TRUE].outcome = poll[q].outcome
    BY <1>0 DEF Poll
  <2> QED BY <2>1, <2>2
<1>7. ASSUME NEW p \in Polls, Acquire(p) \/ Resume(p)
      PROVE  stored' = stored /\ \A q \in Polls : ~Succeeds(q)
  <2>1. stored' = stored
    BY <1>7 DEF Acquire, Resume, dataVars
  <2>2. CASE ~Request(p)
    <3>1. poll' = [poll EXCEPT ![p].pc = "wait", ![p].wait = WaitTime(poll[p].portal)]
      BY <1>7, <2>2 DEF Acquire, Resume
    <3> QED BY <1>0, <2>1, <3>1 DEF Poll
  <2> QED BY <1>6, <2>1, <2>2
<1>8. ASSUME NEW p \in Polls, FetchOk(p) \/ BeginBatch(p) \/ BeginEvaluation(p) \/ EndEvaluation(p) \/ Upsert(p)
      PROVE  stored' = stored /\ \A q \in Polls : ~Succeeds(q)
  BY <1>0, <1>8 DEF FetchOk, BeginBatch, BeginEvaluation, EndEvaluation, Upsert, Goto, dataVars, Poll
<1>9. ASSUME NEW p \in Polls, NEW raw \in RawListings, NextListing(p, raw)
      PROVE  stored' = stored /\ \A q \in Polls : ~Succeeds(q)
  BY <1>0, <1>9 DEF NextListing, dataVars, Poll
<1>10. ASSUME NEW p \in Polls, PollStep(p)
       PROVE  stored' = stored /\ \A q \in Polls : ~Succeeds(q)
  BY <1>2, <1>3, <1>4, <1>7, <1>8, <1>9, <1>10 DEF PollStep
<1> QED BY <1>1, <1>2, <1>3, <1>5, <1>10 DEF RadarNext

\* A batch is stored as a whole, in the step that makes its poll a success, or not
\* at all: ingestListings, withTransaction, pollPortal.
THEOREM BatchAlwaysAtomic == RadarSpec => BatchIsAtomic
<1> DEFINE Atomic ==
             LET succeeds == {p \in Polls : poll'[p].outcome = "ok" /\ poll[p].outcome # "ok"} IN
             /\ \A p \in succeeds : poll[p].left = 0 /\ \A k \in wrote[p] : stored'[k] = view[p][k]
             /\ \A k \in Keys : stored'[k] # stored[k] => \E p \in succeeds : k \in wrote[p]
<1>1. ASSUME RadarIInv, RadarNext PROVE Atomic
  <2>1. CASE \A p \in Polls : ~Commit(p)
    BY <1>1, <2>1, OnlyCommit DEF RadarIInv, Succeeds
  <2>2. ASSUME NEW p \in Polls, Commit(p) PROVE Atomic
    <3>1. /\ poll[p].pc = "next" /\ poll[p].left = 0
          /\ stored' = [k \in Keys |-> IF k \in wrote[p] THEN view[p][k] ELSE stored[k]]
          /\ Report(p, "ok")
      BY <2>2 DEF Commit, EndBatch
    <3>2. poll[p].outcome = "none" /\ wrote[p] \subseteq Keys
      BY <1>1, <3>1 DEF RadarIInv, PollFits, RadarTypeOK
    <3>3. poll'[p].outcome = "ok" /\ \A q \in Polls \ {p} : poll'[q] = poll[q]
      BY <1>1, <3>1 DEF Report, Idle, RadarIInv, RadarTypeOK
    <3>4. {q \in Polls : poll'[q].outcome = "ok" /\ poll[q].outcome # "ok"} = {p}
      BY <3>2, <3>3
    <3>5. /\ \A k \in wrote[p] : stored'[k] = view[p][k]
          /\ \A k \in Keys : stored'[k] # stored[k] => k \in wrote[p]
      BY <3>1, <3>2
    <3> QED BY <3>1, <3>4, <3>5
  <2> QED BY <2>1, <2>2
<1>2. RadarIInv /\ [RadarNext]_radarVars => [Atomic]_radarVars
  BY <1>1
<1> HIDE DEF Atomic
<1>3. RadarSpec => [][Atomic]_radarVars
  BY <1>2, Inductive, PTL DEF RadarSpec
<1> QED BY <1>3, PTL DEF BatchIsAtomic, Atomic

\* A step of one poll does not move another.
LEMMA OwnPhase ==
  ASSUME RadarTypeOK, NEW p \in Polls, NEW q \in Polls \ {p},
         PollStep(q) \/ StatementFails(q) \/ \E s \in Portals : StartPoll(q, s)
  PROVE  poll'[p].pc = poll[p].pc
<1>0. poll \in [Polls -> Poll] /\ poll[p] \in Poll
  BY DEF RadarTypeOK
<1>1. CASE Request(q)
  <2>1. poll'[p] = IF poll[p].pc = "wait" /\ poll[p].portal = poll[q].portal
                   THEN [poll[p] EXCEPT !.overtaken = TRUE] ELSE poll[p]
    BY <1>1 DEF Request
  <2>2. [poll[p] EXCEPT !.overtaken = TRUE].pc = poll[p].pc
    BY <1>0 DEF Poll
  <2> QED BY <2>1, <2>2
<1>2. CASE ~Request(q) /\ PollStep(q)
  BY <1>0, <1>2 DEF PollStep, Acquire, Resume, FetchOk, FetchFails, BeginBatch, NextListing, Upsert,
     BeginEvaluation, EndEvaluation, Reject, Commit, ConnectTimeout, DeadlockAbort, Record, RecordFails,
     Goto, Report, Rollback, EndBatch
<1>3. CASE StatementFails(q) \/ \E s \in Portals : StartPoll(q, s)
  BY <1>0, <1>3 DEF StatementFails, StartPoll, Rollback, EndBatch, Report
<1> QED BY <1>1, <1>2, <1>3

\* A poll asks for listings at once, or when its wait is over.
LEMMA AsksInTurn ==
  ASSUME RadarTypeOK, RadarNext, NEW p \in Polls, Requests(p)
  PROVE  \/ poll[p].pc = "acquire" /\ WaitTime(poll[p].portal) = 0
         \/ poll[p].pc = "wait" /\ poll[p].wait = 0
<1>0. poll \in [Polls -> Poll] /\ poll[p] \in Poll
  BY DEF RadarTypeOK
<1>1. poll[p].pc \in {"acquire", "wait"} /\ poll'[p].pc = "fetch"
  BY DEF Requests
<1>2. ~Tick
  <2> SUFFICES ASSUME Tick PROVE poll'[p].pc = poll[p].pc
    BY <1>1
  <2>1. poll'[p] = IF poll[p].wait > 0 THEN [poll[p] EXCEPT !.wait = @ - 1] ELSE poll[p]
    BY DEF Tick
  <2>2. [poll[p] EXCEPT !.wait = @ - 1].pc = poll[p].pc
    BY <1>0 DEF Poll
  <2> QED BY <2>1, <2>2
<1>3. ~Crash
  BY <1>1 DEF Crash, Idle
<1>4. \A q \in Polls \ {p} : ~(PollStep(q) \/ StatementFails(q) \/ \E s \in Portals : StartPoll(q, s))
  BY <1>1, OwnPhase
<1>5. ~StatementFails(p) /\ \A s \in Portals : ~StartPoll(p, s)
  BY <1>1 DEF StatementFails, StartPoll, Batch
<1>6. PollStep(p)
  BY <1>2, <1>3, <1>4, <1>5 DEF RadarNext
<1>7. Acquire(p) \/ Resume(p)
  BY <1>1, <1>6 DEF PollStep, FetchOk, FetchFails, BeginBatch, NextListing, Upsert, BeginEvaluation,
     EndEvaluation, Reject, Commit, ConnectTimeout, DeadlockAbort, WaitsFor, Record, RecordFails
<1>8. CASE Resume(p)
  BY <1>8 DEF Resume
<1>9. CASE Acquire(p)
  <2>1. ~(poll' = [poll EXCEPT ![p].pc = "wait", ![p].wait = WaitTime(poll[p].portal)])
    BY <1>0, <1>1 DEF Poll
  <2> QED BY <1>9, <2>1 DEF Acquire
<1> QED BY <1>7, <1>8, <1>9

\* Two requests for the listings of a portal are an interval apart, but for a poll
\* that waited while another one asked, and the first request of a process:
\* RateLimiter.acquire.
THEOREM AlwaysSpaced == RadarSpec => Spaced
<1> DEFINE Apart == \A p \in Polls : Requests(p) =>
                      LET s == poll[p].portal IN
                      since[s] = Interval(s) \/ poll[p].overtaken \/ s \notin asked
<1>1. ASSUME RadarIInv, RadarNext PROVE Apart
  <2> SUFFICES ASSUME NEW p \in Polls, Requests(p)
               PROVE  \/ since[poll[p].portal] = Interval(poll[p].portal)
                      \/ poll[p].overtaken \/ poll[p].portal \notin asked
    OBVIOUS
  <2> DEFINE s == poll[p].portal
  <2>1. s \in Portals /\ RadarTypeOK
    BY <1>1, PollTypes DEF Requests, RadarIInv
  <2>2. Interval(s) \in Nat /\ since[s] \in 0..Interval(s)
    BY <2>1, ClockTypes
  <2>3. CASE poll[p].pc = "acquire" /\ WaitTime(s) = 0
    <3>1. CASE limiter[s] = Absent
      BY <1>1, <2>1, <3>1 DEF RadarIInv, LimiterFits
    <3>2. CASE limiter[s] # Absent
      <4>1. limiter[s] = since[s]
        BY <1>1, <2>1, <3>2 DEF RadarIInv, LimiterFits
      <4>2. Interval(s) - since[s] = 0
        BY <2>3, <3>2, <4>1 DEF WaitTime
      <4> QED BY <2>2, <4>2
    <3> QED BY <3>1, <3>2
  <2>4. CASE poll[p].pc = "wait" /\ poll[p].wait = 0
    <3>1. ~poll[p].overtaken => 0 + since[s] >= Interval(s)
      BY <1>1, <2>4, PollInHand DEF Fits
    <3> QED BY <2>2, <3>1
  <2> QED BY <1>1, <2>1, <2>3, <2>4, AsksInTurn
<1>2. RadarIInv /\ [RadarNext]_radarVars => [Apart]_radarVars
  BY <1>1
<1> HIDE DEF Apart
<1>3. RadarSpec => [][Apart]_radarVars
  BY <1>2, Inductive, PTL DEF RadarSpec
<1> QED BY <1>3 DEF Spaced, Apart

\* Listings are requested only from a portal whose rules allow it: each rule that
\* disallows their path is answered by one that allows it and is as long.
THEOREM ExclusionAlwaysRespected == RadarSpec => ExclusionRespected
<1> DEFINE Allowed == \A p \in Polls : Requests(p) =>
             LET matching == {r \in ToSet(poll[p].rules) : r.prefix /\ r.len > 0} IN
             \A d \in matching : ~d.allow => \E a \in matching : a.allow /\ a.len >= d.len
<1>1. RadarIInv => Allowed
  <2> SUFFICES ASSUME RadarIInv, NEW p \in Polls, Requests(p)
               PROVE  poll[p].rules \in Seq(Rule) /\ IsAllowed(poll[p].rules)
    BY AllowedIsAnswered
  <2>1. poll[p].rules \in Seq(Rule)
    BY PollTypes, PolicyRules DEF RadarIInv, Poll
  <2> QED BY <2>1 DEF Requests, RadarIInv, PollFits
<1>2. RadarIInv /\ [RadarNext]_radarVars => [Allowed]_radarVars
  BY <1>1
<1> HIDE DEF Allowed
<1>3. RadarSpec => [][Allowed]_radarVars
  BY <1>2, Inductive, PTL DEF RadarSpec
<1> QED BY <1>3, PTL DEF ExclusionRespected, Allowed
=============================================================================
