------------------------------ MODULE JobQueue ------------------------------
(***************************************************************************)
(* The job queue with its two drivers and the server process that boots    *)
(* it.  MemoryQueue keeps timers in the process and starts a handler       *)
(* whenever a timer fires; RedisQueue keeps jobs in Redis and hands them   *)
(* to the workers that start() created, each running one job at a time.    *)
(* The timers and delays are left out: a timer that is set may fire.       *)
(***************************************************************************)
EXTENDS Naturals, Sequences, FiniteSets

CONSTANTS Drivers,     \* values the QUEUE_DRIVER setting may have
          Names,       \* names of the repeating jobs
          Boot,        \* per driver, the calls the process makes on its queue in order
          Jobs,        \* one-off jobs
          NameOf,      \* the name of each one-off job
          MaxAttempts, \* attempts a one-off job may ask for
          MaxOverlap,  \* bound: runs of one repeating job in progress at once
          MaxExits     \* bound: times the process stops or dies

ASSUME JobQueueAssumption ==
  /\ Drivers \subseteq {"memory", "redis"}
  /\ Boot \in [Drivers -> Seq([op : {"start", "register", "repeat"}, name : Names \union {"queue"}])]
  /\ \A d \in Drivers : \A i \in 1..Len(Boot[d]) : Boot[d][i].op # "start" => Boot[d][i].name \in Names
  /\ NameOf \in [Jobs -> Names]
  /\ MaxAttempts \in Nat \ {0}
  /\ MaxOverlap \in Nat \ {0}
  /\ MaxExits \in Nat

\* What the server's main() does with its queue: start() comes first, then each
\* subsystem registers its handler and makes its schedule.
StartCall == [op |-> "start", name |-> "queue"]
RegisterAndSchedule(n) == <<[op |-> "register", name |-> n], [op |-> "repeat", name |-> n]>>
ServerBoot ==
  <<StartCall>> \o RegisterAndSchedule("radar.poll")
                \o RegisterAndSchedule("match.maintenance")
                \o RegisterAndSchedule("deadline.scan")
                \o RegisterAndSchedule("notification.dispatch")
                \o RegisterAndSchedule("billing.cycle")
                \o RegisterAndSchedule("backup.run")

VARIABLES driver,    \* the driver in use: getQueue reads the setting once
          proc,      \* the process: "up", "stopping" (after stop()) or "down"
          next,      \* the next call of Boot
          running,   \* MemoryQueue.running, RedisQueue.started
          handlers,  \* names with a registered handler
          workers,   \* names RedisQueue has a worker for
          schedules, \* names with a repeating schedule
          live,      \* runs of each repeating job in progress
          ran,       \* repeating jobs that have run since their schedule was made
          job,       \* the one-off jobs
          exits      \* times the process has stopped or died

vars == <<driver, proc, next, running, handlers, workers, schedules, live, ran, job, exits>>
processVars == <<driver, proc, next, running, handlers, workers>>

TypeOK ==
  /\ driver \in Drivers
  /\ proc \in {"up", "stopping", "down"}
  /\ next \in 1..Len(Boot[driver]) + 1
  /\ running \in BOOLEAN
  /\ handlers \subseteq Names
  /\ workers \subseteq handlers
  /\ schedules \subseteq Names
  /\ live \in [Names -> 0..MaxOverlap]
  /\ ran \subseteq schedules
  /\ job \in [Jobs -> [state : {"new", "waiting", "running", "done", "failed", "lost"},
                       attempts : 1..MaxAttempts, attempt : 0..MaxAttempts]]
  /\ exits \in 0..MaxExits

Init ==
  /\ driver \in Drivers
  /\ proc = "up"
  /\ next = 1
  /\ running = FALSE
  /\ handlers = {}
  /\ workers = {}
  /\ schedules = {}
  /\ live = [n \in Names |-> 0]
  /\ ran = {}
  /\ job = [j \in Jobs |-> [state |-> "new", attempts |-> 1, attempt |-> 0]]
  /\ exits = 0

-----------------------------------------------------------------------------
(* Booting: the calls of the interface, one after the other. *)

\* Mutant: start() is an empty stub.
StartNothing == UNCHANGED <<running, workers, handlers, schedules, ran>>

\* start: RedisQueue makes a worker for each handler it knows BY NOW.
Start ==
  /\ running' = TRUE
  /\ workers' = IF driver = "redis" THEN handlers ELSE {}
  /\ UNCHANGED <<handlers, schedules, ran>>

Register(n) ==
  /\ handlers' = handlers \union {n}
  /\ UNCHANGED <<running, workers, schedules, ran>>

\* scheduleRepeating: the schedule of the same jobId is replaced, not doubled.
ScheduleRepeating(n) ==
  /\ schedules' = schedules \union {n}
  /\ ran' = ran \ {n}
  /\ UNCHANGED <<running, workers, handlers>>

BootStep ==
  /\ proc = "up"
  /\ next <= Len(Boot[driver])
  /\ next' = next + 1
  /\ \/ Boot[driver][next].op = "start" /\ Start
     \/ Boot[driver][next].op = "register" /\ Register(Boot[driver][next].name)
     \/ Boot[driver][next].op = "repeat" /\ ScheduleRepeating(Boot[driver][next].name)
  /\ UNCHANGED <<driver, proc, live, job, exits>>

\* enqueue: asks for at least one attempt.  MemoryQueue sets a timer, BullMQ
\* stores the job.
Enqueue(j, n) ==
  /\ proc = "up"
  /\ job[j].state = "new"
  /\ job' = [job EXCEPT ![j] = [state |-> "waiting", attempts |-> n, attempt |-> 0]]
  /\ UNCHANGED <<processVars, schedules, live, ran, exits>>

-----------------------------------------------------------------------------
(* Running jobs. *)

\* A worker takes its next job when it has finished the last.
Busy(n) == live[n] > 0 \/ \E j \in Jobs : NameOf[j] = n /\ job[j].state = "running"

\* Mutant: run does not look at the running flag.
CanRunStopped(n) == n \in handlers
\* Whether a timer that fires now reaches its handler, a stored job its worker.
CanRun(n) ==
  IF driver = "memory" THEN running /\ n \in handlers
  ELSE running /\ n \in workers /\ ~Busy(n)

\* The interval of a repeating job elapses: its payload is run once.
FireRepeating(n) ==
  /\ proc # "down"
  /\ n \in schedules
  /\ CanRun(n)
  /\ live[n] < MaxOverlap
  /\ live' = [live EXCEPT ![n] = @ + 1]
  /\ ran' = ran \union {n}
  /\ UNCHANGED <<processVars, schedules, job, exits>>

\* The handler of a repeating job settles: it has one attempt, so an error is
\* logged and the next interval is its retry.
EndRepeating(n) ==
  /\ live[n] > 0
  /\ live' = [live EXCEPT ![n] = @ - 1]
  /\ UNCHANGED <<processVars, schedules, ran, job, exits>>

Begin(j) ==
  /\ proc # "down"
  /\ job[j].state = "waiting"
  /\ CanRun(NameOf[j])
  /\ job' = [job EXCEPT ![j] = [state |-> "running", attempts |-> job[j].attempts,
                                attempt |-> job[j].attempt + 1]]
  /\ UNCHANGED <<processVars, schedules, live, ran, exits>>

\* MemoryQueue.run: a timer that fires while the queue is not running, or before
\* its handler is registered, drops the job.
Drop(j) ==
  /\ driver = "memory"
  /\ proc # "down"
  /\ job[j].state = "waiting"
  /\ ~CanRun(NameOf[j])
  /\ job' = [job EXCEPT ![j].state = "lost"]
  /\ UNCHANGED <<processVars, schedules, live, ran, exits>>

Succeed(j) ==
  /\ job[j].state = "running"
  /\ job' = [job EXCEPT ![j].state = "done"]
  /\ UNCHANGED <<processVars, schedules, live, ran, exits>>

\* Mutant: the comparison allows one attempt more than the job asks for.
RetryOnceMore(r) == r.attempt <= r.attempts
Retries(r) == r.attempt < r.attempts

\* The handler rejects: the job is set up again while it has attempts left, by
\* MemoryQueue also after stop() has cleared the timers.
Fail(j) ==
  /\ job[j].state = "running"
  /\ job' = [job EXCEPT ![j].state = IF Retries(job[j]) THEN "waiting" ELSE "failed"]
  /\ UNCHANGED <<processVars, schedules, live, ran, exits>>

-----------------------------------------------------------------------------
(* Stopping and dying. *)

\* The jobs once the timers of the process are gone.
WithoutTimers(lost) ==
  [j \in Jobs |-> IF driver = "memory" /\ job[j].state \in lost
                  THEN [job[j] EXCEPT !.state = "lost"] ELSE job[j]]

\* stop: MemoryQueue clears its timers and does not wait for the handlers that
\* run; RedisQueue closes its workers, which finish the job they have.
Stop ==
  /\ proc = "up"
  /\ next > Len(Boot[driver])
  /\ exits < MaxExits
  /\ driver = "redis" => \A n \in Names : ~Busy(n)
  /\ proc' = "stopping"
  /\ running' = FALSE
  /\ workers' = {}
  /\ schedules' = IF driver = "memory" THEN {} ELSE schedules
  /\ ran' = ran \intersect schedules'
  /\ job' = WithoutTimers({"waiting"})
  /\ UNCHANGED <<driver, next, handlers, live, exits>>

\* process.exit, or the process dies: what it held in memory is gone, and Redis
\* hands a job out again that its worker did not finish.
Exit ==
  /\ proc # "down"
  /\ exits < MaxExits
  /\ exits' = exits + 1
  /\ proc' = "down"
  /\ next' = 1
  /\ running' = FALSE
  /\ handlers' = {}
  /\ workers' = {}
  /\ schedules' = IF driver = "memory" THEN {} ELSE schedules
  /\ ran' = {}
  /\ live' = [n \in Names |-> 0]
  /\ job' = [j \in Jobs |->
               IF driver = "redis" /\ job[j].state = "running"
               THEN [state |-> "waiting", attempts |-> job[j].attempts, attempt |-> job[j].attempt - 1]
               ELSE WithoutTimers({"waiting", "running"})[j]]
  /\ UNCHANGED driver

\* The supervisor starts the process again.
Restart ==
  /\ proc = "down"
  /\ proc' = "up"
  /\ UNCHANGED <<driver, next, running, handlers, workers, schedules, live, ran, job, exits>>

-----------------------------------------------------------------------------
Next ==
  \/ BootStep
  \/ \E j \in Jobs, n \in 1..MaxAttempts : Enqueue(j, n)
  \/ \E n \in Names : FireRepeating(n) \/ EndRepeating(n)
  \/ \E j \in Jobs : Begin(j) \/ Drop(j) \/ Succeed(j) \/ Fail(j)
  \/ Stop
  \/ Exit
  \/ Restart

Spec == Init /\ [][Next]_vars

\* The process boots, intervals elapse and handlers settle.
FairSpec ==
  /\ Spec
  /\ WF_vars(BootStep)
  /\ \A n \in Names : WF_vars(FireRepeating(n)) /\ WF_vars(EndRepeating(n))
  /\ \A j \in Jobs : WF_vars(Begin(j) \/ Drop(j)) /\ WF_vars(Succeed(j) \/ Fail(j))

-----------------------------------------------------------------------------
(* Properties. *)

\* The attempts of a job that have failed, as the contract counts them.
Fails(r) ==
  IF r.state \in {"running", "done"} THEN r.attempt - 1
  ELSE IF r.state = "lost" THEN 0 ELSE r.attempt
Abstract(r) == [state |-> r.state, budget |-> r.attempts, fails |-> Fails(r)]

Seen == [j \in Jobs |-> Abstract(job[j])]

Contract == INSTANCE JobContract WITH job <- Seen

\* Each driver keeps the contract of the interface for one-off jobs, also when
\* stop() or a crash comes between an attempt and its retry.
ImplementsContract == Contract!Spec

\* types.ts:40: stop() stops processing; no handler is started after it, not
\* even for the retry of a job whose handler was still at work.
NothingStartsAfterStop ==
  [][proc = "stopping" /\ proc' = "stopping" =>
       /\ \A j \in Jobs : job'[j].state = "running" => job[j].state = "running"
       /\ \A n \in Names : live'[n] <= live[n]]_vars

\* REQ 3.1, 17.3: what the server schedules does run, after each restart too.
ScheduledJobsRun == \A n \in Names : n \in schedules ~> n \in ran \/ proc # "up"
=============================================================================
