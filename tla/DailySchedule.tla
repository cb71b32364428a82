--------------------------- MODULE DailySchedule ---------------------------
(***************************************************************************)
(* The daily analysis of one organization (workers/scheduler.py), the        *)
(* settings request that configures it and the end of run_analysis that      *)
(* writes the session into it.  Three kinds of process read and write one    *)
(* record, schedule/daily, without a common lock: passes of the scheduler    *)
(* (one per worker and minute), settings requests (one write) and finished   *)
(* analyses (a read and a later write).                                      *)
(*                                                                         *)
(* Time is counted in ticks; a time zone is an offset of whole ticks, so the  *)
(* local date and the time of day are a quotient and a remainder.  DST moves, *)
(* which shift the offset by less than the distance of two dispatches, and    *)
(* nextRunAt, which only the settings page reads, are left out.  So is a      *)
(* record without a session: both writers of the record put one into it.     *)
(***************************************************************************)
EXTENDS Naturals, Holders

CONSTANTS Pass,          \* scheduler passes that may overlap
          Run,           \* analyses that may end
          Session,       \* sessions of the organization's users
          Zone, Offset,  \* time zones and their offsets in ticks
          TicksPerDay, DispatchTick,   \* 24 hours, and 05:50
          Job,           \* ids uuid4 may return
          NoSchedule, NoDate,
          MaxClock,      \* bound: the last tick
          MaxCrashes,    \* bound: passes that die
          MaxSettings    \* bound: settings requests

ASSUME ScheduleConstants ==
    /\ Offset \in [Zone -> Nat]
    /\ TicksPerDay \in Nat \ {0} /\ DispatchTick \in 0..(TicksPerDay - 1)
    /\ NoDate \notin Nat
    /\ MaxClock \in Nat
    /\ {Free, Orphan} \cap Pass = {}

VARIABLES schedule,   \* the record, or NoSchedule
          jobs,       \* the daily jobs: [Job -> the date in the key, or NoDate]
          clock,
          lease,      \* LeaseTable, a name per date
          pass,       \* what each pass does: pc, and what it read
          found,      \* found[r]: what analysis r read of the record, or "nothing"
          counters

vars == <<schedule, jobs, clock, lease, pass, found, counters>>

-----------------------------------------------------------------------------
Due(zone, now) == (now + Offset[zone]) % TicksPerDay >= DispatchTick

LocalDate(zone, now) == (now + Offset[zone]) \div TicksPerDay

Dates == {LocalDate(z, t) : z \in Zone, t \in 0..MaxClock}

L == INSTANCE LeaseTable WITH Process <- Pass, Name <- Dates

Record == [zone : Zone, enabled : BOOLEAN, session : Session, lastRun : Dates \cup {NoDate}]

Idle == [pc |-> "idle", read |-> NoSchedule, date |-> NoDate]

TypeOK ==
    /\ schedule \in Record \cup {NoSchedule}
    /\ jobs \in [Job -> Dates \cup {NoDate}]
    /\ clock \in 0..MaxClock
    /\ L!TableTypeOK
    /\ pass \in [Pass -> [pc : {"idle", "lease", "look", "insert", "checkpoint", "release"},
                          read : Record \cup {NoSchedule}, date : Dates \cup {NoDate}]]
    /\ found \in [Run -> Record \cup {NoSchedule}]

\* Mutation of NewSettings: a change of the settings counts as today's run.
NewSettingsMarkedRun(z, e, s) ==
    [zone |-> z, enabled |-> e, session |-> s, lastRun |-> LocalDate(z, clock)]

NewSettings(z, e, s) ==
    [zone |-> z, enabled |-> e, session |-> s, lastRun |-> NoDate]

Init ==
    /\ schedule = NoSchedule
    /\ jobs = [j \in Job |-> NoDate]
    /\ clock = 0
    /\ L!TableInit
    /\ pass = [p \in Pass |-> Idle]
    /\ found = [r \in Run |-> NoSchedule]
    /\ counters = [crash |-> 0, settings |-> 0, ended |-> {}, reading |-> {}]

-----------------------------------------------------------------------------
\* save_settings writes the whole record and drops what the scheduler added.
SaveSettings(z, e, s) ==
    /\ counters.settings < MaxSettings
    /\ schedule' = NewSettings(z, e, s)
    /\ counters' = [counters EXCEPT !.settings = @ + 1]
    /\ UNCHANGED <<jobs, clock, lease, pass, found>>

\* The end of run_analysis: read the record (or a default) and write it with the
\* session of the user who ran the analysis.
AnalysisReads(r) ==
    /\ r \notin counters.reading \cup counters.ended
    /\ found' = [found EXCEPT ![r] = schedule]
    /\ counters' = [counters EXCEPT !.reading = @ \cup {r}]
    /\ UNCHANGED <<schedule, jobs, clock, lease, pass>>

AnalysisWrites(r, s, z) ==
    /\ r \in counters.reading
    /\ schedule' = IF found[r] = NoSchedule THEN NewSettings(z, TRUE, s)
                   ELSE [found[r] EXCEPT !.session = s]
    /\ found' = [found EXCEPT ![r] = NoSchedule]
    /\ counters' = [counters EXCEPT !.reading = @ \ {r}, !.ended = @ \cup {r}]
    /\ UNCHANGED <<jobs, clock, lease, pass>>

-----------------------------------------------------------------------------
\* dispatch_due_schedules: the record and the clock are read before the lease.
ReadSchedule(p) ==
    /\ pass[p].pc = "idle"
    /\ schedule # NoSchedule
    /\ schedule.enabled
    /\ schedule.lastRun # LocalDate(schedule.zone, clock)
    /\ Due(schedule.zone, clock)
    /\ pass' = [pass EXCEPT ![p] = [Idle EXCEPT !.pc = "lease", !.read = schedule,
                                                !.date = LocalDate(schedule.zone, clock)]]
    /\ UNCHANGED <<schedule, jobs, clock, lease, found, counters>>

\* The lease of a date is taken for 300 seconds: here a pass that lives ends within them.
TakeLease(p) ==
    /\ pass[p].pc = "lease"
    /\ \/ /\ L!Acquire(p, pass[p].date)
          /\ pass' = [pass EXCEPT ![p].pc = "look"]
       \/ /\ ~L!CanAcquire(pass[p].date)
          /\ pass' = [pass EXCEPT ![p] = Idle]
          /\ UNCHANGED lease
    /\ UNCHANGED <<schedule, jobs, clock, found, counters>>

\* Mutation of HasJob: enqueue_analysis does not look for the idempotency key.
HasNoJob(date) == FALSE

HasJob(date) == \E j \in Job : jobs[j] = date

\* enqueue_daily_analysis: look for the key, then insert.
Look(p) ==
    /\ pass[p].pc = "look"
    /\ pass' = [pass EXCEPT ![p].pc = IF HasJob(pass[p].date) THEN "checkpoint" ELSE "insert"]
    /\ UNCHANGED <<schedule, jobs, clock, lease, found, counters>>

Insert(p, j) ==
    /\ pass[p].pc = "insert"
    /\ jobs[j] = NoDate
    /\ jobs' = [jobs EXCEPT ![j] = pass[p].date]
    /\ pass' = [pass EXCEPT ![p].pc = "checkpoint"]
    /\ UNCHANGED <<schedule, clock, lease, found, counters>>

\* The record as it was read before the lease, with the date.
Checkpointed(r, date) == [r EXCEPT !.lastRun = date]

Checkpoint(p) ==
    /\ pass[p].pc = "checkpoint"
    /\ schedule' = Checkpointed(pass[p].read, pass[p].date)
    /\ pass' = [pass EXCEPT ![p].pc = "release"]
    /\ UNCHANGED <<jobs, clock, lease, found, counters>>

ReleaseLease(p) ==
    /\ pass[p].pc = "release"
    /\ L!Release(p, pass[p].date)
    /\ pass' = [pass EXCEPT ![p] = Idle]
    /\ UNCHANGED <<schedule, jobs, clock, found, counters>>

\* A worker dies during a pass, or between two passes of another.
Crash(p) ==
    /\ pass[p].pc # "idle"
    /\ counters.crash < MaxCrashes
    /\ L!Abandon(p)
    /\ pass' = [pass EXCEPT ![p] = Idle]
    /\ counters' = [counters EXCEPT !.crash = @ + 1]
    /\ UNCHANGED <<schedule, jobs, clock, found>>

\* The lease of a dead pass lapses after 300 seconds.
LapseOrphan(d) ==
    /\ lease[d].holder = Orphan
    /\ L!Lapse(d)
    /\ UNCHANGED <<schedule, jobs, clock, pass, found, counters>>

Tick ==
    /\ clock < MaxClock
    /\ clock' = clock + 1
    /\ UNCHANGED <<schedule, jobs, lease, pass, found, counters>>

PassStep(p) == \/ ReadSchedule(p) \/ TakeLease(p) \/ Look(p) \/ (\E j \in Job : Insert(p, j))
               \/ Checkpoint(p) \/ ReleaseLease(p)

Next ==
    \/ \E z \in Zone, e \in BOOLEAN, s \in Session : SaveSettings(z, e, s)
    \/ \E r \in Run : AnalysisReads(r)
    \/ \E r \in Run, s \in Session, z \in Zone : AnalysisWrites(r, s, z)
    \/ \E p \in Pass : PassStep(p) \/ Crash(p)
    \/ \E d \in Dates : LapseOrphan(d)
    \/ Tick

Spec == Init /\ [][Next]_vars

\* The workers' cron runs every minute, and what a pass started goes on unless
\* its worker dies; leases of dead passes lapse.
Fairness == /\ \A p \in Pass : WF_vars(PassStep(p))
            /\ \A d \in Dates : WF_vars(LapseOrphan(d))
FairSpec == Spec /\ Fairness

-----------------------------------------------------------------------------
\* The docstring's promise: at most one daily job per local date, although the
\* record the scheduler relies on is overwritten by settings and by analyses, and
\* although a pass may die between the enqueue and the checkpoint.
OnceADate == \A i, j \in Job : jobs[i] # NoDate /\ jobs[i] = jobs[j] => i = j

\* A checkpoint is never ahead of the queue: a date that is marked as run has its
\* job, whoever wrote the record last and from however old a copy.
MarkedDatesHaveJobs ==
    schedule # NoSchedule /\ schedule.lastRun # NoDate
        => HasJob(schedule.lastRun)

Wanted(d) == /\ schedule # NoSchedule
             /\ schedule.enabled
             /\ LocalDate(schedule.zone, clock) = d
             /\ (clock + Offset[schedule.zone]) % TicksPerDay >= DispatchTick

\* Restart catch-up: a date whose dispatch time has come gets its job for as long
\* as it lasts and the settings still ask for it, also when no worker ran at
\* 05:50 and when the pass that tried first died: none is missed for ever (MCWorkers).
Missed(d) == Wanted(d) /\ ~HasJob(d)
=============================================================================
