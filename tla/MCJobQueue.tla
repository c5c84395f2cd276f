----------------------------- MODULE MCJobQueue -----------------------------
(* Instances of JobQueue for TLC. *)
EXTENDS JobQueue

ServerNames == {"radar.poll", "match.maintenance", "deadline.scan",
                "notification.dispatch", "billing.cycle", "backup.run"}
TwoNames == {"radar.poll", "deadline.scan"}

\* The server's order, for two of its jobs, and that of a client that registers
\* its handlers before it starts the queue, as the Redis driver needs it.
TwoJobs == RegisterAndSchedule("radar.poll") \o RegisterAndSchedule("deadline.scan")
BootInOrder ==
  [d \in Drivers |-> IF d = "memory" THEN <<StartCall>> \o TwoJobs ELSE TwoJobs \o <<StartCall>>]
BootAsServer == [d \in Drivers |-> ServerBoot]

\* The immediate polls the radar enqueues have the name of its repeating job.
AllPolls == [j \in Jobs |-> "radar.poll"]
=============================================================================
