------------------------ MODULE DailySchedule_proofs ------------------------
(***************************************************************************)
(* Proofs about DailySchedule, for any passes, analyses, zones, offsets and  *)
(* length of the clock: a date gets one job, and a date that is marked as    *)
(* run has one, whoever wrote the record and from however old a copy.        *)
(*                                                                         *)
(* Neither is inductive.  PassesHold says that a pass between TakeLease and  *)
(* ReleaseLease has the lease of its date (only leases of dead passes        *)
(* lapse), so nobody else looks and inserts for the date; Looked, what a     *)
(* pass knows of the queue after its look; Marked, that every copy of the    *)
(* record, in the hands of a pass or of an analysis, is as true as the       *)
(* record itself.                                                          *)
(***************************************************************************)
EXTENDS DailySchedule, TLAPS

\* What a pass may know.
Locals == [pc : {"idle", "lease", "look", "insert", "checkpoint", "release"},
           read : Record \cup {NoSchedule}, date : Dates \cup {NoDate}]

\* A pass that has read the record has read one, and has a date.
Begun == \A p \in Pass : pass[p].pc # "idle" => pass[p].read \in Record /\ pass[p].date \in Dates

\* Between TakeLease and ReleaseLease.
Holding(p) == pass[p].pc \in {"look", "insert", "checkpoint", "release"}

PassesHold == /\ \A d \in Dates : lease[d].lapsed => lease[d].holder \notin Pass
              /\ \A p \in Pass : Holding(p) => lease[pass[p].date].holder = p

Looked == \A p \in Pass : /\ pass[p].pc = "insert" => ~HasJob(pass[p].date)
                          /\ pass[p].pc \in {"checkpoint", "release"} => HasJob(pass[p].date)

\* The date of a copy of the record has its job.
Honest(r) == r # NoSchedule /\ r.lastRun # NoDate => HasJob(r.lastRun)

Marked == /\ Honest(schedule)
          /\ \A p \in Pass : Honest(pass[p].read)
          /\ \A r \in Run : Honest(found[r])

TInv == TypeOK /\ Begun
IInv == TInv /\ PassesHold /\ Looked /\ OnceADate /\ Marked

-----------------------------------------------------------------------------
\* Dates are numbers, and today's local date is one of them.
LEMMA DatesAre ==
    /\ Dates \subseteq Nat /\ NoDate \notin Dates
    /\ \A z \in Zone, t \in 0..MaxClock : LocalDate(z, t) \in Dates
<1>1. ASSUME NEW z \in Zone, NEW t \in 0..MaxClock
      PROVE  LocalDate(z, t) \in Nat
  <2>1. Offset[z] \in Nat /\ TicksPerDay \in Nat /\ TicksPerDay > 0 /\ t \in Nat
    BY ScheduleConstants
  <2> QED BY <2>1 DEF LocalDate
<1> QED BY <1>1, ScheduleConstants DEF Dates

\* No record, no job, no lease.
LEMMA InitIInv == ASSUME Init PROVE IInv
<1>1. TypeOK
  <2>1. L!TableTypeOK
    BY DEF Init, L!TableInit, L!TableTypeOK, L!NoLease
  <2>2. clock \in 0..MaxClock
    BY ScheduleConstants DEF Init
  <2> QED BY <2>1, <2>2 DEF Init, TypeOK, Idle
<1>2. Begun /\ Looked /\ Marked
  BY DEF Init, Begun, Looked, Marked, Honest, Idle
<1>3. OnceADate
  BY DEF Init, OnceADate
<1>4. PassesHold
  BY DEF Init, PassesHold, Holding, Idle, L!TableInit, L!NoLease
<1> QED BY <1>1, <1>2, <1>3, <1>4 DEF IInv, TInv

-----------------------------------------------------------------------------
\* What is left alone keeps its type.
LEMMA SameLease == ASSUME TypeOK, UNCHANGED lease PROVE L!TableTypeOK'
<1>1. Dates' = Dates
  BY DEF Dates, LocalDate
<1> QED BY <1>1 DEF TypeOK, L!TableTypeOK

\* Only the record, and what analyses have read of it, changes.
LEMMA RecordWritten ==
    ASSUME IInv, UNCHANGED <<jobs, clock, lease, pass>>,
           schedule' \in Record \cup {NoSchedule}, Honest(schedule'),
           found' \in [Run -> Record \cup {NoSchedule}],
           \A r \in Run : Honest(found'[r])
    PROVE  IInv'
<1>0. Dates' = Dates /\ Record' = Record
  BY DEF Dates, LocalDate, Record
<1>1. TypeOK'
  BY <1>0, SameLease DEF IInv, TInv, TypeOK
<1>2. Begun' /\ PassesHold' /\ OnceADate'
  BY <1>0 DEF IInv, TInv, Begun, PassesHold, Holding, OnceADate
<1>3. Looked'
  BY DEF IInv, Looked, HasJob
<1>4. Marked'
  BY DEF IInv, Marked, Honest, HasJob
<1> QED BY <1>1, <1>2, <1>3, <1>4 DEF IInv, TInv

\* save_settings drops the date.
LEMMA SettingsStep ==
    ASSUME IInv, NEW z \in Zone, NEW e \in BOOLEAN, NEW s \in Session, SaveSettings(z, e, s)
    PROVE  IInv'
<1>1. NewSettings(z, e, s) \in Record /\ Honest(NewSettings(z, e, s))
  BY DEF NewSettings, Record, Honest
<1> QED BY <1>1, RecordWritten DEF SaveSettings, IInv, TInv, TypeOK, Marked

\* An analysis reads the record.
LEMMA ReadsStep == ASSUME IInv, NEW r \in Run, AnalysisReads(r) PROVE IInv'
<1>1. found' \in [Run -> Record \cup {NoSchedule}] /\ \A q \in Run : Honest(found'[q])
  BY DEF AnalysisReads, IInv, TInv, TypeOK, Marked
<1> QED BY <1>1, RecordWritten DEF AnalysisReads, IInv, TInv, TypeOK, Marked

\* It writes what it read, or a record without a date.
LEMMA WritesStep ==
    ASSUME IInv, NEW r \in Run, NEW s \in Session, NEW z \in Zone, AnalysisWrites(r, s, z)
    PROVE  IInv'
<1>1. NewSettings(z, TRUE, s) \in Record /\ Honest(NewSettings(z, TRUE, s))
  BY DEF NewSettings, Record, Honest
<1>2. found[r] # NoSchedule =>
        [found[r] EXCEPT !.session = s] \in Record /\ Honest([found[r] EXCEPT !.session = s])
  <2> SUFFICES ASSUME found[r] # NoSchedule
               PROVE  /\ [found[r] EXCEPT !.session = s] \in Record
                      /\ Honest([found[r] EXCEPT !.session = s])
    OBVIOUS
  <2>1. found[r] \in Record /\ Honest(found[r])
    BY DEF IInv, TInv, TypeOK, Marked
  <2>2. /\ [found[r] EXCEPT !.session = s] \in Record
        /\ [found[r] EXCEPT !.session = s].lastRun = found[r].lastRun
    BY <2>1 DEF Record
  <2> QED BY <2>1, <2>2 DEF Honest
<1>3. schedule' \in Record /\ Honest(schedule')
  BY <1>1, <1>2 DEF AnalysisWrites
<1>4. found' \in [Run -> Record \cup {NoSchedule}] /\ \A q \in Run : Honest(found'[q])
  BY DEF AnalysisWrites, IInv, TInv, TypeOK, Marked, Honest
<1> QED BY <1>3, <1>4, RecordWritten DEF AnalysisWrites

-----------------------------------------------------------------------------
\* A pass p goes on as r; what it knows is true.
LEMMA PassGoesOn ==
    ASSUME IInv, NEW p \in Pass, NEW r \in Locals, pass' = [pass EXCEPT ![p] = r],
           r.pc # "idle" => r.read \in Record /\ r.date \in Dates,
           Honest(r.read),
           r.pc = "insert" => ~HasJob(r.date),
           r.pc \in {"checkpoint", "release"} => HasJob(r.date),
           UNCHANGED <<jobs, clock, found>>,
           schedule' \in Record \cup {NoSchedule}, Honest(schedule'),
           L!TableTypeOK', PassesHold'
    PROVE  IInv'
<1>1. /\ pass' \in [Pass -> Locals]
      /\ pass'[p] = r /\ \A q \in Pass : q # p => pass'[q] = pass[q]
  BY DEF IInv, TInv, TypeOK, Locals
<1>2. Dates' = Dates /\ Record' = Record
  BY DEF Dates, LocalDate, Record
<1>3. Begun'
  BY <1>1, <1>2 DEF IInv, TInv, Begun
<1>4. Looked' /\ OnceADate'
  BY <1>1 DEF IInv, Looked, HasJob, OnceADate
<1>5. ASSUME NEW q \in Pass PROVE Honest(pass'[q].read)
  <2>1. CASE q = p
    BY <1>1, <2>1
  <2>2. CASE q # p
    BY <1>1, <2>2 DEF IInv, Marked
  <2> QED BY <2>1, <2>2
<1>6. \A q \in Run : Honest(found'[q])
  BY DEF IInv, Marked
<1>7. Marked'
  BY <1>5, <1>6 DEF Marked, Honest, HasJob
<1>8. TypeOK'
  BY <1>1, <1>2 DEF IInv, TInv, TypeOK, Locals
<1> QED BY <1>3, <1>4, <1>7, <1>8 DEF IInv, TInv

\* The leases stay, and so does what p holds.
LEMMA SameHolders ==
    ASSUME IInv, NEW p \in Pass, NEW r \in Locals, pass' = [pass EXCEPT ![p] = r],
           UNCHANGED lease,
           r.pc \in {"look", "insert", "checkpoint", "release"} =>
               Holding(p) /\ r.date = pass[p].date
    PROVE  L!TableTypeOK' /\ PassesHold'
<1>1. pass'[p] = r /\ \A q \in Pass : q # p => pass'[q] = pass[q]
  BY DEF IInv, TInv, TypeOK
<1>2. Dates' = Dates
  BY DEF Dates, LocalDate
<1> QED BY <1>1, <1>2, SameLease DEF IInv, TInv, PassesHold, Holding

\* The pass has nothing in hand any more.
LEMMA Rests ==
    /\ Idle \in Locals /\ Idle.pc = "idle" /\ Honest(Idle.read)
  BY DEF Idle, Locals, Honest

\* The pass goes on to the point c.
LEMMA GoesTo ==
    ASSUME IInv, NEW p \in Pass, pass[p].pc # "idle",
           NEW c \in {"look", "insert", "checkpoint", "release"}
    PROVE  LET r == [pass[p] EXCEPT !.pc = c] IN
           /\ r \in Locals /\ r.pc = c /\ r.date = pass[p].date /\ r.read = pass[p].read
           /\ r.date \in Dates /\ r.read \in Record /\ Honest(r.read)
<1>1. pass[p] \in Locals /\ Honest(pass[p].read)
      /\ pass[p].date \in Dates /\ pass[p].read \in Record
  BY DEF IInv, TInv, TypeOK, Locals, Begun, Marked
<1> DEFINE r == [pass[p] EXCEPT !.pc = c]
<1>2. r \in Locals /\ r.pc = c /\ r.date = pass[p].date /\ r.read = pass[p].read
  BY <1>1 DEF Locals
<1> HIDE DEF r
<1>3. Honest(r.read)
  BY <1>1, <1>2
<1> QED BY <1>1, <1>2, <1>3 DEF r

\* The record is read before the lease.
LEMMA ReadScheduleStep == ASSUME IInv, NEW p \in Pass, ReadSchedule(p) PROVE IInv'
<1> DEFINE r == [Idle EXCEPT !.pc = "lease", !.read = schedule,
                             !.date = LocalDate(schedule.zone, clock)]
<1>1. schedule \in Record /\ schedule.zone \in Zone /\ clock \in 0..MaxClock
  BY DEF ReadSchedule, IInv, TInv, TypeOK, Record
<1>2. LocalDate(schedule.zone, clock) \in Dates
  BY <1>1, DatesAre
<1>3. r \in Locals /\ r.pc = "lease" /\ r.read = schedule /\ r.date \in Dates
  BY <1>1, <1>2 DEF Idle, Locals
<1>4. pass' = [pass EXCEPT ![p] = r] /\ UNCHANGED <<schedule, jobs, clock, lease, found>>
  BY DEF ReadSchedule
<1>5. Honest(schedule)
  BY DEF IInv, Marked
<1> HIDE DEF r
<1>6. Honest(r.read) /\ Honest(schedule')
  BY <1>3, <1>4, <1>5
<1>7. L!TableTypeOK' /\ PassesHold'
  BY <1>3, <1>4, SameHolders
<1> QED BY <1>1, <1>3, <1>4, <1>6, <1>7, PassGoesOn

\* Rows of other dates are left alone, and a lease in use is nobody else's.
LEMMA TakeLeaseStep == ASSUME IInv, NEW p \in Pass, TakeLease(p) PROVE IInv'
<1> DEFINE d == pass[p].date
<1>0. Dates' = Dates
  BY DEF Dates, LocalDate
<1>1. d \in Dates /\ pass[p].pc # "idle"
  BY DEF TakeLease, IInv, TInv, Begun
<1>2. UNCHANGED <<schedule, jobs, clock, found>>
      /\ schedule \in Record \cup {NoSchedule} /\ Honest(schedule)
  BY DEF TakeLease, IInv, TInv, TypeOK, Marked
<1>3. Honest(schedule')
  BY <1>2
<1>4. CASE L!Acquire(p, d) /\ pass' = [pass EXCEPT ![p].pc = "look"]
  <2> DEFINE r == [pass[p] EXCEPT !.pc = "look"]
  <2>1. /\ r \in Locals /\ r.pc = "look" /\ r.date = d /\ r.date \in Dates
        /\ r.read \in Record /\ Honest(r.read)
    BY <1>1, GoesTo
  <2>2. pass' = [pass EXCEPT ![p] = r]
    BY <1>4
  <2> HIDE DEF r
  <2>3. /\ lease' = [lease EXCEPT ![d] = [holder |-> p, lapsed |-> FALSE]]
        /\ lease[d].holder = Free \/ lease[d].lapsed
    BY <1>4 DEF L!Acquire, L!CanAcquire, L!HeldBy
  <2>4. pass'[p] = r /\ \A q \in Pass : q # p => pass'[q] = pass[q]
    BY <2>2 DEF IInv, TInv, TypeOK
  <2> HIDE DEF d
  <2>5. L!TableTypeOK'
    BY <1>0, <1>1, <2>3 DEF IInv, TInv, TypeOK, L!TableTypeOK
  <2>6. lease[d].holder \notin Pass
    BY <1>1, <2>3, ScheduleConstants DEF IInv, PassesHold
  <2>7. lease'[d] = [holder |-> p, lapsed |-> FALSE]
        /\ \A e \in Dates : e # d => lease'[e] = lease[e]
    BY <1>1, <2>3 DEF IInv, TInv, TypeOK, L!TableTypeOK
  <2>8. \A q \in Pass : q # p /\ Holding(q) => pass[q].date # d
    BY <2>6 DEF IInv, PassesHold
  <2>9. \A q \in Pass : q # p /\ Holding(q)' => lease'[pass'[q].date].holder = q
    BY <2>4, <2>7, <2>8 DEF IInv, TInv, Begun, PassesHold, Holding
  <2>10. \A e \in Dates : lease'[e].lapsed => lease'[e].holder \notin Pass
    BY <2>7 DEF IInv, PassesHold
  <2>11. PassesHold'
    BY <1>0, <2>1, <2>4, <2>7, <2>9, <2>10 DEF PassesHold
  <2> QED BY <1>2, <1>3, <2>1, <2>2, <2>5, <2>11, PassGoesOn
<1>5. CASE pass' = [pass EXCEPT ![p] = Idle] /\ UNCHANGED lease
  <2>1. L!TableTypeOK' /\ PassesHold'
    BY <1>5, Rests, SameHolders
  <2> QED BY <1>2, <1>3, <1>5, <2>1, Rests, PassGoesOn
<1> QED BY <1>4, <1>5 DEF TakeLease

\* Under the lease the pass looks for the job of its date.
LEMMA LookStep == ASSUME IInv, NEW p \in Pass, Look(p) PROVE IInv'
<1> DEFINE c == IF HasJob(pass[p].date) THEN "checkpoint" ELSE "insert"
           r == [pass[p] EXCEPT !.pc = c]
<1>1. pass[p].pc = "look" /\ c \in {"look", "insert", "checkpoint", "release"}
  BY DEF Look
<1>2. /\ r \in Locals /\ r.pc = c /\ r.date = pass[p].date /\ r.date \in Dates
      /\ r.read \in Record /\ Honest(r.read)
  BY <1>1, GoesTo
<1>3. pass' = [pass EXCEPT ![p] = r] /\ UNCHANGED <<schedule, jobs, clock, lease, found>>
  BY DEF Look
<1>4. /\ r.pc = "insert" => ~HasJob(pass[p].date)
      /\ r.pc \in {"checkpoint", "release"} => HasJob(pass[p].date)
  BY <1>2
<1> HIDE DEF r, c
<1>5. /\ r.pc = "insert" => ~HasJob(r.date)
      /\ r.pc \in {"checkpoint", "release"} => HasJob(r.date)
  BY <1>2, <1>4
<1>6. L!TableTypeOK' /\ PassesHold'
  BY <1>1, <1>2, <1>3, SameHolders DEF Holding
<1>7. schedule' \in Record \cup {NoSchedule} /\ Honest(schedule')
  BY <1>3 DEF IInv, TInv, TypeOK, Marked
<1> QED BY <1>2, <1>3, <1>5, <1>6, <1>7, PassGoesOn

\* A job that exists goes on to exist.
LEMMA InsertAdds ==
    ASSUME IInv, NEW p \in Pass, NEW j \in Job, Insert(p, j)
    PROVE  /\ \E i \in Job : jobs'[i] = pass[p].date
           /\ \A d \in Dates : HasJob(d) => HasJob(d)'
           /\ \A d \in Dates : HasJob(d)' => HasJob(d) \/ d = pass[p].date
<1>1. /\ pass[p].date \in Dates /\ jobs[j] = NoDate /\ NoDate \notin Dates
      /\ jobs' = [jobs EXCEPT ![j] = pass[p].date] /\ jobs \in [Job -> Dates \cup {NoDate}]
  BY DatesAre DEF Insert, IInv, TInv, TypeOK, Begun
<1>2. jobs'[j] = pass[p].date /\ \A i \in Job : i # j => jobs'[i] = jobs[i]
  BY <1>1
<1> QED BY <1>1, <1>2 DEF HasJob

\* The lease keeps other passes from inserting a job of the same date.
LEMMA InsertStep == ASSUME IInv, NEW p \in Pass, NEW j \in Job, Insert(p, j) PROVE IInv'
<1> DEFINE d == pass[p].date
           r == [pass[p] EXCEPT !.pc = "checkpoint"]
<1>0. Dates' = Dates /\ Record' = Record
  BY DEF Dates, LocalDate, Record
<1>1. pass[p].pc = "insert" /\ d \in Dates
  BY DEF Insert, IInv, TInv, Begun
<1>2. /\ r \in Locals /\ r.pc = "checkpoint" /\ r.date = d /\ r.read = pass[p].read
      /\ r.read \in Record
  BY <1>1, GoesTo
<1>3. pass' = [pass EXCEPT ![p] = r] /\ UNCHANGED <<schedule, clock, lease, found>>
  BY DEF Insert
<1> HIDE DEF r
<1>4. /\ pass' \in [Pass -> Locals]
      /\ pass'[p] = r /\ \A q \in Pass : q # p => pass'[q] = pass[q]
  BY <1>2, <1>3 DEF IInv, TInv, TypeOK, Locals
<1>5. /\ \E i \in Job : jobs'[i] = d
      /\ \A e \in Dates : HasJob(e) => HasJob(e)'
      /\ \A e \in Dates : HasJob(e)' => HasJob(e) \/ e = d
  BY InsertAdds
<1>6. L!TableTypeOK' /\ PassesHold'
  BY <1>1, <1>2, <1>3, SameHolders DEF Holding
<1>7. Begun'
  BY <1>0, <1>1, <1>2, <1>4 DEF IInv, TInv, Begun
<1>8. jobs' \in [Job -> Dates \cup {NoDate}]
  BY <1>1 DEF Insert, IInv, TInv, TypeOK
<1>9. TypeOK'
  BY <1>0, <1>3, <1>4, <1>6, <1>8 DEF IInv, TInv, TypeOK, Locals
<1>10. OnceADate'
  <2>1. /\ jobs[j] = NoDate /\ jobs'[j] = d /\ \A i \in Job : i # j => jobs'[i] = jobs[i]
        /\ \A i \in Job : jobs[i] # d
    BY <1>1 DEF Insert, IInv, TInv, TypeOK, Looked, HasJob
  <2> QED BY <2>1 DEF IInv, OnceADate
<1>11. Looked'
  <2>1. ASSUME NEW q \in Pass, q # p, pass[q].pc = "insert"
        PROVE  \A i \in Job : jobs'[i] # pass[q].date
    <3>1. pass[q].date # d
      BY <1>1, <2>1 DEF IInv, PassesHold, Holding
    <3>2. pass[q].date \in Dates /\ ~HasJob(pass[q].date)
      BY <2>1 DEF IInv, TInv, Begun, Looked
    <3> QED BY <1>5, <3>1, <3>2 DEF HasJob
  <2>2. ASSUME NEW q \in Pass, q # p, pass[q].pc \in {"checkpoint", "release"}
        PROVE  \E i \in Job : jobs'[i] = pass[q].date
    <3>1. pass[q].date \in Dates /\ HasJob(pass[q].date)
      BY <2>2 DEF IInv, TInv, Begun, Looked
    <3> QED BY <1>5, <3>1 DEF HasJob
  <2> QED BY <1>2, <1>4, <1>5, <2>1, <2>2 DEF Looked, HasJob
<1>12. ASSUME NEW x \in Record \cup {NoSchedule}, Honest(x),
              x # NoSchedule, x.lastRun # NoDate
       PROVE  \E i \in Job : jobs'[i] = x.lastRun
  <2>1. x.lastRun \in Dates /\ HasJob(x.lastRun)
    BY <1>12 DEF Record, Honest
  <2> QED BY <1>5, <2>1 DEF HasJob
<1>13. Marked'
  <2>1. Honest(schedule)'
    BY <1>3, <1>12 DEF IInv, TInv, TypeOK, Marked, Honest, HasJob
  <2>2. ASSUME NEW q \in Pass PROVE Honest(pass[q].read)'
    <3>1. pass'[q].read = pass[q].read
      BY <1>2, <1>4
    <3> QED BY <1>12, <3>1 DEF IInv, TInv, TypeOK, Marked, Honest, HasJob
  <2>3. ASSUME NEW q \in Run PROVE Honest(found[q])'
    BY <1>3, <1>12 DEF IInv, TInv, TypeOK, Marked, Honest, HasJob
  <2> QED BY <2>1, <2>2, <2>3 DEF Marked
<1> QED BY <1>6, <1>7, <1>9, <1>10, <1>11, <1>13 DEF IInv, TInv

\* The record as it was read before the lease, with a date whose job is there.
LEMMA CheckpointStep == ASSUME IInv, NEW p \in Pass, Checkpoint(p) PROVE IInv'
<1> DEFINE r == [pass[p] EXCEPT !.pc = "release"]
           s == [pass[p].read EXCEPT !.lastRun = pass[p].date]
<1>1. pass[p].pc = "checkpoint" /\ pass[p].read \in Record /\ pass[p].date \in Dates
      /\ HasJob(pass[p].date)
  BY DEF Checkpoint, IInv, TInv, Begun, Looked
<1>2. /\ r \in Locals /\ r.pc = "release" /\ r.date = pass[p].date /\ r.date \in Dates
      /\ r.read \in Record /\ Honest(r.read)
  BY <1>1, GoesTo
<1>3. s \in Record /\ s.lastRun = pass[p].date
  BY <1>1 DEF Record
<1>4. /\ pass' = [pass EXCEPT ![p] = r] /\ schedule' = s
      /\ UNCHANGED <<jobs, clock, lease, found>>
  BY DEF Checkpoint, Checkpointed
<1> HIDE DEF r, s
<1>5. HasJob(r.date) /\ HasJob(s.lastRun)
  BY <1>1, <1>2, <1>3
<1>6. schedule' \in Record \cup {NoSchedule} /\ Honest(schedule')
  BY <1>3, <1>4, <1>5 DEF Honest
<1>7. L!TableTypeOK' /\ PassesHold'
  BY <1>1, <1>2, <1>4, SameHolders DEF Holding
<1> QED BY <1>2, <1>4, <1>5, <1>6, <1>7, PassGoesOn

\* A pass gives up its lease, or dies and leaves an orphan; the others keep theirs.
LEMMA PassEnds ==
    ASSUME IInv, NEW p \in Pass, pass[p].pc # "idle", pass' = [pass EXCEPT ![p] = Idle],
           UNCHANGED <<schedule, jobs, clock, found>>,
           L!TableTypeOK',
           \A e \in Dates : \/ lease'[e] = lease[e]
                            \/ lease[e].holder = p /\ lease'[e].holder \notin Pass
    PROVE  IInv'
<1>1. pass'[p] = Idle /\ \A q \in Pass : q # p => pass'[q] = pass[q]
  BY DEF IInv, TInv, TypeOK
<1>2. Dates' = Dates
  BY DEF Dates, LocalDate
<1>3. \A e \in Dates : lease'[e].lapsed => lease'[e].holder \notin Pass
  BY DEF IInv, PassesHold
<1>4. \A q \in Pass : q # p /\ Holding(q) => lease'[pass[q].date].holder = q
  BY DEF IInv, TInv, Begun, PassesHold, Holding
<1>5. PassesHold'
  BY <1>1, <1>2, <1>3, <1>4, Rests DEF PassesHold, Holding
<1>6. schedule' \in Record \cup {NoSchedule} /\ Honest(schedule')
  BY DEF IInv, TInv, TypeOK, Marked
<1> QED BY <1>5, <1>6, Rests, PassGoesOn

\* The pass has the lease it gives up.
LEMMA ReleaseStep == ASSUME IInv, NEW p \in Pass, ReleaseLease(p) PROVE IInv'
<1>0. Dates' = Dates
  BY DEF Dates, LocalDate
<1> DEFINE d == pass[p].date
<1>1. d \in Dates /\ pass[p].pc # "idle" /\ lease[d].holder = p
  BY DEF ReleaseLease, IInv, TInv, Begun, PassesHold, Holding
<1>2. lease' = [lease EXCEPT ![d] = [holder |-> Free, lapsed |-> FALSE]]
  BY <1>1 DEF ReleaseLease, L!Release, L!Holds, L!NoLease
<1> HIDE DEF d
<1>3. L!TableTypeOK'
  BY <1>0, <1>1, <1>2 DEF IInv, TInv, TypeOK, L!TableTypeOK
<1>4. /\ lease'[d].holder = Free /\ Free \notin Pass
      /\ \A e \in Dates : e # d => lease'[e] = lease[e]
  BY <1>1, <1>2, ScheduleConstants DEF IInv, TInv, TypeOK, L!TableTypeOK
<1> QED BY <1>1, <1>3, <1>4, PassEnds DEF ReleaseLease

\* The leases of a pass that dies are orphans.
LEMMA CrashStep == ASSUME IInv, NEW p \in Pass, Crash(p) PROVE IInv'
<1>0. Dates' = Dates
  BY DEF Dates, LocalDate
<1>1. lease' = [e \in Dates |-> IF lease[e].holder = p THEN [lease[e] EXCEPT !.holder = Orphan]
                                ELSE lease[e]]
  BY DEF Crash, L!Abandon, L!Holds
<1> DEFINE Rows == [holder : Pass \cup {Free, Orphan}, lapsed : BOOLEAN]
<1>2. L!TableTypeOK'
  <2>1. lease \in [Dates -> Rows]
    BY DEF IInv, TInv, TypeOK, L!TableTypeOK
  <2>2. \A e \in Dates : [lease[e] EXCEPT !.holder = Orphan] \in Rows
    BY <2>1
  <2>3. lease' \in [Dates -> Rows]
    BY <1>1, <2>1, <2>2
  <2> QED BY <1>0, <2>3 DEF L!TableTypeOK
<1>3. \A e \in Dates : lease[e].holder = p => lease'[e].holder = Orphan
  BY <1>1 DEF IInv, TInv, TypeOK, L!TableTypeOK
<1>4. \A e \in Dates : lease[e].holder # p => lease'[e] = lease[e]
  BY <1>1
<1>5. Orphan \notin Pass
  BY ScheduleConstants
<1> QED BY <1>2, <1>3, <1>4, <1>5, PassEnds DEF Crash

\* Only those lapse.
LEMMA LapseStep == ASSUME IInv, NEW d \in Dates, LapseOrphan(d) PROVE IInv'
<1>0. Dates' = Dates /\ Record' = Record
  BY DEF Dates, LocalDate, Record
<1>1. /\ lease[d].holder = Orphan /\ lease' = [lease EXCEPT ![d].lapsed = TRUE]
      /\ UNCHANGED <<schedule, jobs, clock, pass, found>>
  BY DEF LapseOrphan, L!Lapse
<1> DEFINE Rows == [holder : Pass \cup {Free, Orphan}, lapsed : BOOLEAN]
           q == [lease[d] EXCEPT !.lapsed = TRUE]
<1>2. L!TableTypeOK'
  <2>1. lease \in [Dates -> Rows]
    BY DEF IInv, TInv, TypeOK, L!TableTypeOK
  <2>2. q \in Rows /\ lease' = [lease EXCEPT ![d] = q]
    BY <1>1, <2>1
  <2> HIDE DEF q
  <2>3. lease' \in [Dates -> Rows]
    BY <2>1, <2>2
  <2> QED BY <1>0, <2>3 DEF L!TableTypeOK
<1>3. /\ \A e \in Dates : lease'[e].holder = lease[e].holder
      /\ \A e \in Dates : e # d => lease'[e] = lease[e]
  BY <1>1 DEF IInv, TInv, TypeOK, L!TableTypeOK
<1>4. PassesHold'
  BY <1>0, <1>1, <1>3, ScheduleConstants DEF IInv, TInv, Begun, PassesHold, Holding
<1>5. TypeOK'
  BY <1>0, <1>1, <1>2 DEF IInv, TInv, TypeOK
<1>6. Begun' /\ Looked' /\ OnceADate' /\ Marked'
  BY <1>0, <1>1 DEF IInv, TInv, Begun, Looked, OnceADate, Marked, Honest, HasJob
<1> QED BY <1>4, <1>5, <1>6 DEF IInv, TInv

\* Time passes, or nothing does.
LEMMA TickStep ==
    ASSUME IInv, UNCHANGED <<schedule, jobs, lease, pass, found>>, clock' \in 0..MaxClock
    PROVE  IInv'
<1>0. Dates' = Dates /\ Record' = Record
  BY DEF Dates, LocalDate, Record
<1>1. TypeOK'
  BY <1>0, SameLease DEF IInv, TInv, TypeOK
<1>2. Begun' /\ PassesHold' /\ Looked' /\ OnceADate' /\ Marked'
  BY <1>0 DEF IInv, TInv, Begun, PassesHold, Holding, Looked, OnceADate, Marked, Honest, HasJob
<1> QED BY <1>1, <1>2 DEF IInv, TInv

\* Every step keeps the invariant.
LEMMA NextIInv == ASSUME IInv, [Next]_vars PROVE IInv'
<1>1. ASSUME Tick \/ UNCHANGED vars PROVE IInv'
  <2>1. UNCHANGED <<schedule, jobs, lease, pass, found>> /\ clock' \in 0..MaxClock
    BY <1>1, ScheduleConstants DEF Tick, vars, IInv, TInv, TypeOK
  <2> QED BY <2>1, TickStep
<1>2. ASSUME NEW p \in Pass, PassStep(p) PROVE IInv'
  BY <1>2, ReadScheduleStep, TakeLeaseStep, LookStep, InsertStep, CheckpointStep, ReleaseStep
  DEF PassStep
<1> QED BY <1>1, <1>2, SettingsStep, ReadsStep, WritesStep, CrashStep, LapseStep DEF Next

-----------------------------------------------------------------------------
\* The invariant holds in every reachable state, for any constants.
THEOREM IInvHolds == Spec => []IInv
  BY InitIInv, NextIInv, PTL DEF Spec

\* dispatch_due_schedules, save_settings and the end of run_analysis keep the types: whoever
\* writes schedule/daily writes a whole record.
THEOREM ScheduleTypes == Spec => []TypeOK
<1>1. IInv => TypeOK
  BY DEF IInv, TInv
<1> QED BY <1>1, IInvHolds, PTL

\* The promise of dispatch_due_schedules: at most one daily job per local date.
THEOREM OneJobADate == Spec => []OnceADate
<1>1. IInv => OnceADate
  BY DEF IInv
<1> QED BY <1>1, IInvHolds, PTL

\* lastRunDate, whoever wrote it last and from however old a copy: the date has its job.
THEOREM MarkedDatesWereQueued == Spec => []MarkedDatesHaveJobs
<1>1. IInv => MarkedDatesHaveJobs
  BY DEF IInv, Marked, Honest, MarkedDatesHaveJobs
<1> QED BY <1>1, IInvHolds, PTL
=============================================================================
