----------------------------- MODULE Engine_proofs -----------------------------
(***************************************************************************)
(* Proofs about one sample of the engine (Schedule), with the action of a    *)
(* request or a bundle laid over the baseline before it (Recovery), about    *)
(* the candidates that are searched (CandidateSearch), about what the engine *)
(* accepts (PlanningInput), and about the weather and travel times it is     *)
(* given (ExternalContext).                                                  *)
(*                                                                         *)
(* Least and greatest numbers and sums are those of Sums_proofs; a smallest   *)
(* counterexample takes the place of an induction here as well.              *)
(***************************************************************************)
EXTENDS RecoveryCandidates, PlanningInput, ExternalContext, Sums_proofs, SequenceTheorems

-----------------------------------------------------------------------------
\* The first n of a set of ids are at most n, and all if there are not so many.
LEMMA LowestSize ==
    ASSUME NEW ws \in SUBSET Nat, IsFiniteSet(ws), NEW n \in Nat
    PROVE  /\ Lowest(ws, n) \subseteq ws
           /\ Cardinality(Lowest(ws, n)) \in Nat /\ Cardinality(Lowest(ws, n)) <= n
           /\ \A m \in Nat : m <= n /\ m <= Cardinality(ws) => m <= Cardinality(Lowest(ws, n))
<1> DEFINE L == Lowest(ws, n)
           Under(x) == {v \in ws : v < x}
<1>1. L \in SUBSET ws /\ L = {w \in ws : Cardinality(Under(w)) < n}
  BY DEF Lowest
<1>2. \A T \in SUBSET ws : IsFiniteSet(T) /\ Cardinality(T) \in Nat
  BY FS_Subset, FS_CardinalityType
<1>3. Cardinality(L) <= n
  <2>1. CASE L = {}
    BY <2>1, FS_EmptySet
  <2>2. CASE L # {}
    <3>1. PICK x \in L : \A y \in L : y <= x
      BY <1>1, <1>2, <2>2, GreatestNumber
    <3>2. L \ {x} \in SUBSET Under(x) /\ Under(x) \in SUBSET ws
      <4>1. ASSUME NEW y \in L, y # x PROVE y < x
        <5>1. x \in Nat /\ y \in Nat /\ y <= x
          BY <1>1, <3>1
        <5> QED BY <4>1, <5>1
      <4> QED BY <1>1, <4>1
    <3>3. Cardinality(L \ {x}) <= Cardinality(Under(x))
      BY <1>2, <3>2, FS_Subset
    <3>4. Cardinality(L \ {x}) = Cardinality(L) - 1
      BY <1>1, <1>2, <3>1, FS_RemoveElement
    <3>5. Cardinality(Under(x)) < n
      BY <1>1, <3>1
    <3>6. Cardinality(L) \in Nat /\ Cardinality(Under(x)) \in Nat
      BY <1>1, <1>2, <3>2
    <3> HIDE DEF L, Under
    <3> QED BY <3>3, <3>4, <3>5, <3>6
  <2> QED BY <2>1, <2>2
<1>4. ASSUME NEW m \in Nat, m <= n, m <= Cardinality(ws) PROVE m <= Cardinality(L)
  <2>1. CASE L = ws
    BY <1>4, <2>1
  <2>2. CASE L # ws
    <3>1. ws \ L \in SUBSET Nat /\ ws \ L # {}
      BY <1>1, <2>2
    <3>2. PICK y \in ws \ L : \A v \in ws \ L : y <= v
      BY <3>1, LeastNumber
    <3>3. Under(y) \in SUBSET L
      <4>1. ASSUME NEW v \in ws, v < y, v \notin L PROVE FALSE
        <5>1. v \in Nat /\ y \in Nat /\ y <= v
          BY <3>2, <4>1
        <5> QED BY <4>1, <5>1
      <4> QED BY <4>1
    <3>4. Cardinality(Under(y)) <= Cardinality(L)
      BY <1>1, <1>2, <3>3, FS_Subset
    <3>5. Under(y) \in SUBSET ws /\ ~(Cardinality(Under(y)) < n)
      BY <1>1, <3>2
    <3>6. Cardinality(L) \in Nat /\ Cardinality(Under(y)) \in Nat
      BY <1>1, <1>2, <3>5
    <3> HIDE DEF L, Under
    <3> QED BY <1>4, <3>4, <3>5, <3>6
  <2> QED BY <2>1, <2>2
<1> HIDE DEF L
<1>5. L \in SUBSET ws /\ Cardinality(L) \in Nat
  BY <1>1, <1>2
<1> QED BY <1>3, <1>4, <1>5 DEF L

-----------------------------------------------------------------------------
\* What holds in every state.  Nothing is worked before the action was accepted; after
\* that the plan does not change any more.
CrewsFit == \A t \in Task : /\ Of(t).minCrew \in Nat /\ Of(t).maxCrew \in Nat
                            /\ Of(t).minCrew <= Of(t).maxCrew /\ Of(t).preds \subseteq Task
Quiet == phase \in {"propose", "prepare", "rejected"} => work = {} /\ waiting = {}

\* Hours worked are over or in the current one; who works in it is busy, and what is
\* worked on in it waits no more.
Recorded(e) == e.worker \in Worker /\ e.task \in Task /\ e.slot \in Slots /\ e.slot <= slot
Current == \A e \in work : Recorded(e) /\ (e.slot = slot => e.worker \in busy /\ e.task \notin waiting)

\* What waits is still ready: what it waited for is finished, so no step changes that.
StillReady == waiting \subseteq Task /\ \A t \in waiting : slot \in Slots /\ Ready(t, slot)

Started(e) ==
    LET t == e.task  now == Hour(e.slot).starts IN
    /\ now >= Earliest(t) /\ (Material(t) # None => now >= Material(t))
    /\ ~ReservedTask(t, Hour(e.slot)) /\ ~ReservedWorker(e.worker, Hour(e.slot))
    /\ \A p \in Of(t).preds : finish[p] # None /\ finish[p] <= now
    /\ Of(t).skill # None => Of(t).skill \in Cal(e.worker).skills
CrewOf(t, s) == {f \in work : f.task = t /\ f.slot = s}
WholeCrews == \A e \in work :
    Cardinality(CrewOf(e.task, e.slot)) \in Of(e.task).minCrew..Of(e.task).maxCrew

PlanFields == {"task", "project", "worker", "reservations", "action"} \subseteq DOMAIN plan
SInv == /\ PlanFields /\ CrewsFit /\ Quiet
        /\ DOMAIN remaining = Task /\ DOMAIN finish = Task
        /\ slot \in Int /\ busy \subseteq Worker /\ Current /\ StillReady
        /\ OneCrewAtATime /\ (\A e \in work : Started(e)) /\ WholeCrews

\* It holds of every plan before anything was done.
LEMMA InitSInv == ASSUME ScheduleConstants, ProposeInit PROVE SInv
  BY DEF ScheduleConstants, IsPlan, IsTask, ProposeInit, SInv, PlanFields, CrewsFit, Of, Quiet, Current, StillReady,
     OneCrewAtATime, WholeCrews

\* Before the hours begin nothing is worked: the action may still be laid over the plan.
LEMMA EarlyStep ==
    ASSUME ScheduleConstants, SInv, phase \in {"propose", "prepare"},
           AsGiven \/ (\E p \in Project : Propose(p)) \/ Reject \/ Start
    PROVE  SInv'
<1>1. /\ work = {} /\ waiting = {}
      /\ work' = {} /\ waiting' = {} /\ busy' = busy /\ slot' \in Int
  <2>1. work = {} /\ waiting = {} /\ slot \in Int
    BY DEF SInv, Quiet
  <2>2. CASE AsGiven \/ Reject
    BY <2>1, <2>2 DEF AsGiven, Reject
  <2>3. CASE \E p \in Project : Propose(p)
    BY <2>1, <2>3 DEF Propose
  <2>4. CASE Start
    BY <2>1, <2>4 DEF Start
  <2> QED BY <2>2, <2>3, <2>4
<1>2. plan' = plan \/ \E a : plan' = [plan EXCEPT !.action = a]
  BY DEF AsGiven, Propose, Reject, Start
<1>5. (DOMAIN remaining = Task /\ DOMAIN finish = Task)'
  BY DEF SInv, AsGiven, Propose, Reject, Start
<1>3. PlanFields' /\ CrewsFit'
  BY <1>2 DEF SInv, PlanFields, CrewsFit, Of
<1>4. Quiet' /\ busy' \subseteq Worker
  BY <1>1 DEF Quiet, SInv
<1> QED BY <1>1, <1>3, <1>4, <1>5 DEF SInv, Current, StillReady, OneCrewAtATime, WholeCrews

\* What the gates of a task read of the plan stays while the plan does.
LEMMA SameGates ==
    ASSUME plan' = plan
    PROVE  /\ \A t : /\ Of(t)' = Of(t) /\ Earliest(t)' = Earliest(t) /\ Material(t)' = Material(t)
                     /\ \A s : ReservedTask(t, Hour(s))' = ReservedTask(t, Hour(s))
           /\ \A w : /\ Cal(w)' = Cal(w)
                     /\ \A s : ReservedWorker(w, Hour(s))' = ReservedWorker(w, Hour(s))
  BY DEF Of, Cal, Earliest, Material, ReservedTask, ReservedWorker, Act

\* A task that is ready and not worked on stays ready.
LEMMA ReadyStays ==
    ASSUME NEW t \in Task, NEW s, Ready(t, s), plan' = plan,
           remaining'[t] = remaining[t], finish'[t] = finish[t],
           \A p \in Of(t).preds : finish[p] # None => finish'[p] = finish[p]
    PROVE  Ready(t, s)'
<1>1. /\ Of(t)' = Of(t) /\ Earliest(t)' = Earliest(t) /\ Material(t)' = Material(t)
      /\ ReservedTask(t, Hour(s))' = ReservedTask(t, Hour(s))
  BY SameGates
<1>2. \A p : Of(p)' = Of(p)
  BY SameGates
<1>3. Unfinished(t)'
  BY <1>1 DEF Ready, Unfinished, Live
<1> QED BY <1>1, <1>2, <1>3 DEF Ready

\* What was worked on stays allowed: its predecessors keep the end they have.
LEMMA StartedStays ==
    ASSUME NEW e, Started(e), plan' = plan,
           \A p \in Of(e.task).preds : finish[p] # None => finish'[p] = finish[p]
    PROVE  Started(e)'
<1>1. /\ Of(e.task)' = Of(e.task) /\ Earliest(e.task)' = Earliest(e.task)
      /\ Material(e.task)' = Material(e.task) /\ Cal(e.worker)' = Cal(e.worker)
      /\ ReservedTask(e.task, Hour(e.slot))' = ReservedTask(e.task, Hour(e.slot))
      /\ ReservedWorker(e.worker, Hour(e.slot))' = ReservedWorker(e.worker, Hour(e.slot))
  BY SameGates
<1> QED BY <1>1 DEF Started

\* The hours end.
LEMMA StopStep == ASSUME SInv, Stop \/ UNCHANGED vars PROVE SInv'
<1>1. /\ UNCHANGED <<plan, slot, waiting, busy, remaining, finish, work>>
      /\ phase' = phase \/ phase' = "done"
  BY DEF Stop, vars
<1>2. PlanFields' /\ CrewsFit' /\ Quiet'
  BY <1>1 DEF SInv, PlanFields, CrewsFit, Of, Quiet
<1>3. slot' \in Int /\ busy' \subseteq Worker /\ Current'
  BY <1>1 DEF SInv, Current, Recorded
<1>4. StillReady'
  <2>1. ASSUME NEW t \in waiting' PROVE Ready(t, slot)'
    <3>1. t \in Task /\ Ready(t, slot)
      BY <1>1, <2>1 DEF SInv, StillReady
    <3> QED BY <1>1, <3>1, ReadyStays
  <2> QED BY <1>1, <2>1 DEF SInv, StillReady
<1>5. OneCrewAtATime' /\ WholeCrews'
  BY <1>1 DEF SInv, OneCrewAtATime, WholeCrews, CrewOf, Of
<1>6. (\A e \in work : Started(e))'
  <2>1. ASSUME NEW e \in work PROVE Started(e)'
    BY <1>1, <2>1, StartedStays DEF SInv
  <2> QED BY <1>1, <2>1
<1> QED BY <1>1, <1>2, <1>3, <1>4, <1>5, <1>6 DEF SInv

\* A new hour: everybody is free, and what is ready now waits for its turn.
LEMMA NextSlotStep == ASSUME SInv, NextSlot PROVE SInv'
<1>1. /\ UNCHANGED <<plan, phase, remaining, finish, work>>
      /\ slot' = slot + 1 /\ slot + 1 \in Slots /\ busy' = {} /\ phase = "run"
      /\ waiting' = {t \in Task : Ready(t, slot + 1)}
  BY DEF NextSlot
<1>2. PlanFields' /\ CrewsFit' /\ Quiet'
  BY <1>1 DEF SInv, PlanFields, CrewsFit, Of, Quiet
<1>3. slot' \in Int /\ busy' \subseteq Worker
  BY <1>1 DEF SInv
<1>4. Current'
  BY <1>1 DEF SInv, Current, Recorded, Slots
<1>5. StillReady'
  <2>1. ASSUME NEW t \in waiting' PROVE Ready(t, slot)'
    <3>1. PICK s : s = slot + 1
      OBVIOUS
    <3>2. t \in Task /\ Ready(t, s)
      BY <1>1, <2>1, <3>1
    <3>3. Ready(t, s)'
      BY <1>1, <3>2, ReadyStays
    <3> QED BY <1>1, <3>1, <3>3 DEF Ready
  <2> QED BY <1>1, <2>1 DEF StillReady
<1>6. OneCrewAtATime' /\ WholeCrews'
  BY <1>1 DEF SInv, OneCrewAtATime, WholeCrews, CrewOf, Of
<1>7. (\A e \in work : Started(e))'
  <2>1. ASSUME NEW e \in work PROVE Started(e)'
    BY <1>1, <2>1, StartedStays DEF SInv
  <2> QED BY <1>1, <2>1
<1> QED BY <1>1, <1>2, <1>3, <1>4, <1>5, <1>6, <1>7 DEF SInv

\* The hours of a crew are as many as the crew.
LEMMA EntriesOf ==
    ASSUME NEW t, IsFiniteSet(Crew(t))
    PROVE  Cardinality({Entry(w, t) : w \in Crew(t)}) = Cardinality(Crew(t))
<1> DEFINE C == Crew(t)
           E == {Entry(w, t) : w \in C}
           f == [w \in C |-> Entry(w, t)]
<1>1. \A v, w : Entry(v, t) = Entry(w, t) => v = w
  BY DEF Entry
<1>2. f \in Bijection(C, E)
  <2> HIDE DEF C
  <2> QED BY <1>1 DEF Bijection, Injection, Surjection, IsInjective
<1> HIDE DEF C, E, f
<1>3. ExistsBijection(C, E)
  BY <1>2 DEF ExistsBijection
<1>4. IsFiniteSet(C)
  BY DEF C
<1>5. Cardinality(E) = Cardinality(C)
  BY <1>3, <1>4, FS_Bijection
<1> QED BY <1>5 DEF C, E

\* A crew is of people who are free, able and not reserved, as many as the task allows.
LEMMA CrewIsSound ==
    ASSUME ScheduleConstants, SInv, NEW t \in Task, ~(Cardinality(Free(t)) < Of(t).minCrew)
    PROVE  /\ Crew(t) \subseteq Worker /\ IsFiniteSet(Crew(t)) /\ Crew(t) \cap busy = {}
           /\ Cardinality(Crew(t)) \in Of(t).minCrew..Of(t).maxCrew
           /\ \A w \in Crew(t) : /\ ~ReservedWorker(w, Hour(slot))
                                 /\ Of(t).skill # None => Of(t).skill \in Cal(w).skills
<1>1. Free(t) \subseteq Worker /\ Worker \subseteq Nat /\ IsFiniteSet(Worker)
  BY DEF Free, Able, ScheduleConstants
<1>2. Free(t) \in SUBSET Nat /\ IsFiniteSet(Free(t)) /\ Cardinality(Free(t)) \in Nat
  BY <1>1, FS_Subset, FS_CardinalityType
<1>3. Of(t).minCrew \in Nat /\ Of(t).maxCrew \in Nat /\ Of(t).minCrew <= Of(t).maxCrew
  BY DEF SInv, CrewsFit
<1>4. /\ Crew(t) \subseteq Free(t)
      /\ Cardinality(Crew(t)) \in Nat /\ Cardinality(Crew(t)) <= Of(t).maxCrew
      /\ \A m \in Nat : m <= Of(t).maxCrew /\ m <= Cardinality(Free(t)) => m <= Cardinality(Crew(t))
  BY <1>2, <1>3, LowestSize DEF Crew
<1>5. Cardinality(Crew(t)) \in Of(t).minCrew..Of(t).maxCrew
  BY <1>2, <1>3, <1>4
<1>6. ASSUME NEW w \in Crew(t)
      PROVE  /\ ~ReservedWorker(w, Hour(slot)) /\ w \notin busy
             /\ Of(t).skill # None => Of(t).skill \in Cal(w).skills
  <2>1. Capacity(w, t, slot) > 0 /\ CanDo(w, t, slot) /\ w \notin busy
    BY <1>4, <1>6 DEF Free, Able
  <2>2. ~ReservedWorker(w, Hour(slot))
    BY <2>1 DEF Capacity
  <2> QED BY <2>1, <2>2 DEF CanDo
<1>7. IsFiniteSet(Crew(t))
  BY <1>2, <1>4, FS_Subset
<1> QED BY <1>1, <1>4, <1>5, <1>6, <1>7

\* What a placement does: the crew is booked for the hour, and only the task it works on
\* comes closer to its end.
LEMMA PlaceKind ==
    ASSUME SInv, NEW t \in Task, Place(t)
    PROVE  /\ plan' = plan /\ phase' = phase /\ slot' = slot
           /\ t \in waiting /\ waiting' = waiting \ {t} /\ phase = "run"
           /\ DOMAIN remaining' = Task /\ DOMAIN finish' = Task
           /\ \A u \in Task \ {t} : remaining'[u] = remaining[u] /\ finish'[u] = finish[u]
           /\ \/ busy' = busy /\ work' = work
              \/ /\ ~(Cardinality(Free(t)) < Of(t).minCrew)
                 /\ busy' = busy \cup Crew(t)
                 /\ work' = work \cup {Entry(w, t) : w \in Crew(t)}
<1> USE DEF Place, First, SInv
<1>1. /\ plan' = plan /\ phase' = phase /\ slot' = slot
      /\ t \in waiting /\ waiting' = waiting \ {t} /\ phase = "run"
  OBVIOUS
<1>2. CASE UNCHANGED <<busy, remaining, finish, work>>
  BY <1>1, <1>2
<1>3. CASE ~UNCHANGED <<busy, remaining, finish, work>>
  <2>1. ~(Cardinality(Free(t)) < Of(t).minCrew) /\ busy' = busy \cup Crew(t)
        /\ work' = work \cup {Entry(w, t) : w \in Crew(t)}
        /\ (\E x : remaining' = [remaining EXCEPT ![t] = x])
        /\ (finish' = finish \/ \E x : finish' = [finish EXCEPT ![t] = x])
    BY <1>3
  <2> QED BY <1>1, <2>1
<1> QED BY <1>2, <1>3

\* The next task in order gets its crew, or waits for another hour.
LEMMA PlaceStep ==
    ASSUME ScheduleConstants, SInv, NEW t \in Task, Place(t)
    PROVE  SInv'
<1>1. /\ plan' = plan /\ phase' = phase /\ slot' = slot
      /\ t \in waiting /\ waiting' = waiting \ {t} /\ phase = "run"
      /\ DOMAIN remaining' = Task /\ DOMAIN finish' = Task
      /\ \A u \in Task \ {t} : remaining'[u] = remaining[u] /\ finish'[u] = finish[u]
      /\ \/ busy' = busy /\ work' = work
         \/ /\ ~(Cardinality(Free(t)) < Of(t).minCrew)
            /\ busy' = busy \cup Crew(t)
            /\ work' = work \cup {Entry(w, t) : w \in Crew(t)}
  BY PlaceKind
<1>2. slot \in Slots /\ Ready(t, slot) /\ waiting \subseteq Task
  BY <1>1 DEF SInv, StillReady
<1>3. \A p \in Task : finish[p] # None => finish'[p] = finish[p]
  BY <1>1, <1>2 DEF Ready, Unfinished
<1>4. \A u \in Task : Of(u).preds \subseteq Task
  BY DEF SInv, CrewsFit
<1>5. PlanFields' /\ CrewsFit' /\ Quiet'
  BY <1>1 DEF SInv, PlanFields, CrewsFit, Of, Quiet
<1>6. StillReady'
  <2>1. ASSUME NEW u \in waiting' PROVE Ready(u, slot)'
    <3>1. u \in Task \ {t} /\ Ready(u, slot)
      BY <1>1, <1>2, <2>1 DEF SInv, StillReady
    <3>2. PICK s : s = slot
      OBVIOUS
    <3>3. Ready(u, s)'
      BY <1>1, <1>3, <1>4, <3>1, <3>2, ReadyStays
    <3> QED BY <1>1, <3>2, <3>3 DEF Ready
  <2> QED BY <1>1, <1>2, <2>1 DEF StillReady
<1>7. \A e \in work : e.task \in Task /\ Started(e)
  BY DEF SInv, Current, Recorded
<1>8. \A e \in work : Started(e)'
  BY <1>1, <1>3, <1>4, <1>7, StartedStays
<1>9. CASE busy' = busy /\ work' = work
  <2>1. busy' \subseteq Worker /\ Current'
    BY <1>1, <1>9 DEF SInv, Current, Recorded
  <2>2. OneCrewAtATime' /\ WholeCrews' /\ (\A e \in work : Started(e))'
    BY <1>1, <1>8, <1>9 DEF SInv, OneCrewAtATime, WholeCrews, CrewOf, Of
  <2>3. slot' \in Int
    BY <1>1 DEF SInv
  <2> QED BY <1>1, <1>5, <1>6, <2>1, <2>2, <2>3 DEF SInv
<1>10. CASE ~(busy' = busy /\ work' = work)
  <2> DEFINE New == {Entry(w, t) : w \in Crew(t)}
  <2>1. /\ ~(Cardinality(Free(t)) < Of(t).minCrew)
        /\ busy' = busy \cup Crew(t) /\ work' = work \cup New
    BY <1>1, <1>10
  <2>2. /\ Crew(t) \subseteq Worker /\ IsFiniteSet(Crew(t)) /\ Crew(t) \cap busy = {}
        /\ Cardinality(Crew(t)) \in Of(t).minCrew..Of(t).maxCrew
        /\ \A w \in Crew(t) : /\ ~ReservedWorker(w, Hour(slot))
                              /\ Of(t).skill # None => Of(t).skill \in Cal(w).skills
    BY <2>1, CrewIsSound
  <2>3. \A e \in New : \E w \in Crew(t) : e = Entry(w, t)
    OBVIOUS
  <2>4. \A w : Entry(w, t).worker = w /\ Entry(w, t).task = t /\ Entry(w, t).slot = slot
    BY DEF Entry
  <2>5. \A e \in New : e.worker \in Crew(t) /\ e.task = t /\ e.slot = slot /\ e = Entry(e.worker, t)
    BY <2>3, <2>4
  <2>6. Cardinality(New) = Cardinality(Crew(t))
    BY <2>2, EntriesOf
  <2> HIDE DEF New
  <2>7. busy' \subseteq Worker /\ slot' \in Int
    BY <1>1, <2>1, <2>2 DEF SInv
  <2>8. Current'
    <3>1. ASSUME NEW e \in work PROVE Recorded(e)' /\ (e.slot = slot => e.worker \in busy' /\ e.task \notin waiting')
      BY <1>1, <2>1 DEF SInv, Current, Recorded
    <3>2. ASSUME NEW e \in New PROVE Recorded(e)' /\ e.worker \in busy' /\ e.task \notin waiting'
      <4>1. e.worker \in Crew(t) /\ e.task = t /\ e.slot = slot
        BY <2>5
      <4>2. slot <= slot
        BY DEF SInv
      <4> QED BY <1>1, <1>2, <2>1, <2>2, <4>1, <4>2 DEF Recorded
    <3> QED BY <1>1, <2>1, <3>1, <3>2 DEF Current
  <2>9. OneCrewAtATime'
    <3>1. ASSUME NEW e \in work, NEW f \in New, e.slot = f.slot PROVE e.worker # f.worker
      <4>1. e.worker \in busy
        BY <2>5, <3>1 DEF SInv, Current
      <4> QED BY <2>2, <2>5, <4>1
    <3>2. \A e, f \in New : e.worker = f.worker => e = f
      BY <2>5
    <3>3. \A e, f \in work : e.worker = f.worker /\ e.slot = f.slot => e = f
      BY DEF SInv, OneCrewAtATime
    <3> QED BY <2>1, <3>1, <3>2, <3>3 DEF OneCrewAtATime
  <2>10. \A e \in New : Started(e)'
    <3>1. ASSUME NEW e \in New PROVE Started(e)
      <4>1. PICK s : s = slot
        OBVIOUS
      <4>2. e.worker \in Crew(t) /\ e.task = t /\ e.slot = s
        BY <2>5, <4>1
      <4>3. Ready(t, s) /\ ~ReservedWorker(e.worker, Hour(s))
        BY <1>2, <2>2, <4>1, <4>2
      <4> QED BY <2>2, <4>2, <4>3 DEF Started, Ready
    <3> QED BY <1>1, <1>3, <1>4, <2>5, <3>1, StartedStays
  <2>11. WholeCrews'
    <3>1. \A u, s : (u # t \/ s # slot) => CrewOf(u, s)' = CrewOf(u, s)
      BY <2>1, <2>5 DEF CrewOf
    <3>2. CrewOf(t, slot)' = New
      <4>1. \A e \in work : ~(e.task = t /\ e.slot = slot)
        BY <1>1 DEF SInv, Current
      <4> QED BY <1>1, <2>1, <2>5, <4>1 DEF CrewOf
    <3>3. \A u : Of(u)' = Of(u)
      BY <1>1 DEF Of
    <3>4. ASSUME NEW e \in work'
          PROVE  Cardinality(CrewOf(e.task, e.slot)') \in Of(e.task).minCrew..Of(e.task).maxCrew
      <4>1. CASE e.task = t /\ e.slot = slot
        BY <1>1, <2>2, <2>6, <3>2, <4>1 DEF CrewOf
      <4>2. CASE ~(e.task = t /\ e.slot = slot)
        <5>1. e \in work /\ CrewOf(e.task, e.slot)' = CrewOf(e.task, e.slot)
          BY <2>1, <2>5, <3>1, <3>4, <4>2
        <5> QED BY <5>1 DEF SInv, WholeCrews
      <4> QED BY <4>1, <4>2
    <3> QED BY <3>3, <3>4 DEF WholeCrews
  <2> QED BY <1>1, <1>5, <1>6, <1>8, <2>1, <2>7, <2>8, <2>9, <2>10, <2>11 DEF SInv
<1> QED BY <1>9, <1>10

\* Every step keeps it.
LEMMA NextSInv == ASSUME ScheduleConstants, SInv, [RecoveryNext]_vars PROVE SInv'
<1>1. CASE AsGiven \/ (\E p \in Project : Propose(p)) \/ Reject \/ Start
  BY <1>1, EarlyStep DEF AsGiven, Propose, Reject, Start
<1>2. CASE Stop \/ UNCHANGED vars
  BY <1>2, StopStep
<1>3. CASE NextSlot
  BY <1>3, NextSlotStep
<1>4. CASE \E t \in Task : Place(t)
  BY <1>4, PlaceStep
<1> QED BY <1>1, <1>2, <1>3, <1>4 DEF RecoveryNext, Next

\* The invariant holds of every run of the engine, from the proposal to the last hour.
THEOREM SInvHolds == ASSUME ScheduleConstants PROVE RecoverySpec => []SInv
BY InitSInv, NextSInv, PTL DEF RecoverySpec

\* No worker is given to two tasks in an hour, for any plan, calendar and action: who was
\* placed is taken out of the able before the next task of the hour is looked at (the busy
\* set of _run_sample).
THEOREM OneCrewForAWorker == ASSUME ScheduleConstants PROVE RecoverySpec => []OneCrewAtATime
<1>1. SInv => OneCrewAtATime
  BY DEF SInv
<1> QED BY <1>1, SInvHolds, PTL

\* Whatever the generators or a caller propose, work is only booked after the task's start
\* and material, outside of reservations, after its predecessors' ends, with the skill it
\* asks for, and by a crew that is neither too small nor too large (_task_readiness,
\* _run_sample).
THEOREM GatesAreKept == ASSUME ScheduleConstants PROVE RecoverySpec => []GatesKept
<1>1. SInv => GatesKept
  <2> SUFFICES ASSUME SInv, NEW e \in work
               PROVE  Started(e) /\ Cardinality(CrewOf(e.task, e.slot)) \in Of(e.task).minCrew..Of(e.task).maxCrew
    BY DEF GatesKept, Started, CrewOf
  <2> QED BY DEF SInv, WholeCrews
<1> QED BY <1>1, SInvHolds, PTL

-----------------------------------------------------------------------------
\* An interval is the instants in it.
Instants(i) == i.starts..(i.ends - 1)
Spans(i) == i.starts \in Int /\ i.ends \in Int

\* What two intervals have in common is as long as the instants in both are many.
LEMMA OverlapIs ==
    ASSUME NEW i, Spans(i), NEW j, Spans(j)
    PROVE  /\ IsFiniteSet(Instants(i)) /\ Overlap(i, j) \in Nat
           /\ Overlap(i, j) = Cardinality(Instants(i) \cap Instants(j))
<1>1. PICK a, b, c, d : a = i.starts /\ b = i.ends /\ c = j.starts /\ d = j.ends
  OBVIOUS
<1>2. a \in Int /\ b \in Int /\ c \in Int /\ d \in Int
  BY <1>1 DEF Spans
<1>3. PICK m, n : m = Max2(a, c) /\ n = Min2(b, d)
  OBVIOUS
<1>4. m \in Int /\ n \in Int
  BY <1>2, <1>3 DEF Max2, Min2
<1>5. PICK e : e = n - 1
  OBVIOUS
<1>6. Instants(i) \cap Instants(j) = m..e /\ e \in Int
  BY <1>1, <1>2, <1>3, <1>4, <1>5 DEF Instants, Max2, Min2
<1>7. Cardinality(m..e) = IF m > e THEN 0 ELSE e - m + 1
  BY <1>4, <1>6, FS_Interval
<1>8. Overlap(i, j) = IF 0 > n - m THEN 0 ELSE n - m
  BY <1>1, <1>3 DEF Overlap, Max2
<1>9. Overlap(i, j) = IF m > e THEN 0 ELSE e - m + 1
  BY <1>4, <1>5, <1>8
<1>10. Overlap(i, j) \in Nat
  BY <1>4, <1>8
<1>11. IsFiniteSet(Instants(i))
  BY <1>1, <1>2, FS_Interval DEF Instants
<1> QED BY <1>6, <1>7, <1>9, <1>10, <1>11

\* An interval is as long as its instants are many.
LEMMA LengthIs ==
    ASSUME NEW i, Spans(i), i.starts <= i.ends
    PROVE  IsFiniteSet(Instants(i)) /\ Cardinality(Instants(i)) = i.ends - i.starts
<1>1. PICK a, b : a = i.starts /\ b = i.ends
  OBVIOUS
<1>2. a \in Int /\ b \in Int /\ a <= b
  BY <1>1 DEF Spans
<1>3. PICK e : e = b - 1
  OBVIOUS
<1>4. Instants(i) = a..e /\ e \in Int
  BY <1>1, <1>2, <1>3 DEF Instants
<1>5. IsFiniteSet(a..e) /\ Cardinality(a..e) = IF a > e THEN 0 ELSE e - a + 1
  BY <1>2, <1>4, FS_Interval
<1>6. Cardinality(a..e) = b - a
  BY <1>2, <1>3, <1>5
<1> QED BY <1>1, <1>4, <1>5, <1>6

\* A slot is an hour between asOf and the horizon, and later slots begin when it is over.
LEMMA HourIs ==
    ASSUME ScheduleConstants, NEW s \in Slots
    PROVE  /\ s \in Nat /\ Spans(Hour(s))
           /\ 0 <= Hour(s).starts /\ Hour(s).ends = Hour(s).starts + TicksPerSlot
           /\ Hour(s).ends <= Horizon /\ TicksPerSlot \in Nat \ {0}
           /\ \A t \in Slots : s < t => Hour(s).ends <= Hour(t).starts
<1>1. TicksPerSlot \in Nat \ {0} /\ Horizon \in Nat
  BY DEF ScheduleConstants
<1>2. PICK n, h : n = TicksPerSlot /\ h = Horizon
  OBVIOUS
<1>3. s \in 0..((h \div n) - 1) /\ h \in Nat /\ n \in Nat \ {0}
  BY <1>1, <1>2 DEF Slots
<1>4. s \in Nat /\ h \div n \in Int
  BY <1>3
<1>5. s * n >= 0 /\ (s + 1) * n <= h /\ (s + 1) * n = s * n + n /\ s * n \in Int
  BY <1>3, <1>4
<1>6. ASSUME NEW t \in Slots, s < t PROVE (s + 1) * n <= t * n
  <2>1. t \in Nat
    BY <1>1, <1>2, <1>3 DEF Slots
  <2> QED BY <1>3, <1>4, <1>6, <2>1
<1>7. Hour(s).starts = s * n /\ Hour(s).ends = (s + 1) * n
  BY <1>2 DEF Hour
<1>8. \A t : Hour(t).starts = t * n
  BY <1>2 DEF Hour
<1> QED BY <1>1, <1>2, <1>3, <1>4, <1>5, <1>6, <1>7, <1>8 DEF Spans

\* Local days are near those of the horizon.
LEMMA DayIs ==
    ASSUME NEW h \in Nat, NEW n \in Nat \ {0}, h % n = 0, NEW x \in Int, -n <= x, x < h + n
    PROVE  x \div n \in Int /\ x \div n >= -1 /\ x \div n <= h \div n
  OBVIOUS

\* The shift a slot belongs to is one of those of the horizon.
LEMMA ShiftIs ==
    ASSUME ScheduleConstants, IsPlan(plan), NEW w \in Worker,
           NEW i, Spans(i), 0 <= i.starts, i.starts < Horizon
    PROVE  /\ ShiftDay(w, i) \in -2..(Horizon \div TicksPerDay + 2)
           /\ \A day \in Int : Spans(ShiftOf(w, day))
<1>1. /\ Cal(w).from \in Int /\ Cal(w).to \in Int /\ Cal(w).offset \in Int
      /\ -TicksPerDay <= Cal(w).offset /\ Cal(w).offset <= TicksPerDay
      /\ TicksPerDay \in Nat \ {0} /\ Horizon \in Nat /\ Horizon % TicksPerDay = 0
  BY DEF ScheduleConstants, IsPlan, IsWorker, Cal
<1>2. PICK x, n, h, q : x = i.starts + Cal(w).offset /\ n = TicksPerDay /\ h = Horizon /\ q = x \div n
  OBVIOUS
<1>3. x \in Int /\ -n <= x /\ x < h + n /\ n \in Nat \ {0} /\ h \in Nat /\ h % n = 0
  BY <1>1, <1>2 DEF Spans
<1>4. q \in Int /\ q >= -1 /\ q <= h \div n
  BY <1>2, <1>3, DayIs
<1>5. h \div n \in Int
  BY <1>3
<1>6. ShiftDay(w, i) = q \/ ShiftDay(w, i) = q - 1
  BY <1>2 DEF ShiftDay
<1>7. ShiftDay(w, i) \in -2..(h \div n + 2)
  BY <1>4, <1>5, <1>6
<1>8. ASSUME NEW day \in Int PROVE Spans(ShiftOf(w, day))
  <2>1. PICK d : d = day * TicksPerDay
    OBVIOUS
  <2>2. d \in Int
    BY <1>1, <2>1
  <2> QED BY <1>1, <2>1, <2>2 DEF ShiftOf, Spans
<1> QED BY <1>2, <1>7, <1>8

\* A part of an hour has as many regular ticks as it has at most in shifts.
LEMMA RegularIs ==
    ASSUME ScheduleConstants, IsPlan(plan), NEW w \in Worker,
           NEW i, Spans(i), 0 <= i.starts, i.starts < Horizon, i.ends <= Horizon
    PROVE  /\ Regular(w, i) \in Nat
           /\ Regular(w, i) <= Cardinality(Instants(i) \cap OnShift(w))
<1>1. PICK day, sh : day = ShiftDay(w, i) /\ sh = ShiftOf(w, day)
  OBVIOUS
<1>2. day \in -2..(Horizon \div TicksPerDay + 2) /\ Spans(sh)
  BY <1>1, ShiftIs
<1>3. TicksPerSlot \in Nat /\ Horizon \in Nat
  BY DEF ScheduleConstants
<1>4. PICK o, c, k : /\ o = Overlap(i, sh) /\ c = Cardinality(Instants(i) \cap OnShift(w))
                     /\ k = Cardinality(Instants(i) \cap Instants(sh))
  OBVIOUS
<1>5. o \in Nat /\ o = k /\ IsFiniteSet(Instants(i))
  BY <1>2, <1>4, OverlapIs
<1>6. c \in Nat
  <2>1. IsFiniteSet(Instants(i) \cap OnShift(w))
    BY <1>5, FS_Intersection
  <2> QED BY <1>4, <2>1, FS_CardinalityType
<1>7. CASE day % 7 \in Cal(w).weekdays
  <2>1. Instants(i) \cap Instants(sh) \subseteq Instants(i) \cap OnShift(w)
    <3>1. ASSUME NEW x \in Instants(i), x \in Instants(sh) PROVE x \in OnShift(w)
      <4>1. x \in 0..Horizon /\ x >= sh.starts /\ x < sh.ends
        BY <1>2, <1>3, <3>1 DEF Instants, Spans
      <4> QED BY <1>1, <1>2, <1>7, <4>1 DEF OnShift
    <3> QED BY <3>1
  <2>2. IsFiniteSet(Instants(i) \cap OnShift(w))
    BY <1>5, FS_Intersection
  <2>3. k <= c
    BY <1>4, <2>1, <2>2, FS_Subset
  <2>4. Regular(w, i) = Min2(TicksPerSlot, o)
    BY <1>1, <1>4, <1>7 DEF Regular
  <2> QED BY <1>3, <1>4, <1>5, <1>6, <2>3, <2>4 DEF Min2
<1>8. CASE day % 7 \notin Cal(w).weekdays
  <2>1. Regular(w, i) = 0
    BY <1>1, <1>8 DEF Regular
  <2> QED BY <1>4, <1>6, <2>1
<1> QED BY <1>7, <1>8

\* Overtime is a number of ticks of one overtime of the worker's, if it is not nothing.
LEMMA OvertimeIs ==
    ASSUME ScheduleConstants, IsPlan(plan), NEW w \in Worker, NEW i, Spans(i)
    PROVE  /\ Overtime(w, i) \in Nat
           /\ Overtime(w, i) > 0 => \E o \in Act.overtime :
                 o.worker = w /\ Overtime(w, i) <= Overlap(i, o)
<1>1. PICK S : S = {0} \cup {Overlap(i, o) : o \in {x \in Act.overtime : x.worker = w}}
  OBVIOUS
<1>2. /\ Act.overtime \subseteq OvertimeItem /\ IsFiniteSet(Act.overtime)
      /\ \A o \in Act.overtime : Spans(o)
  BY DEF IsPlan, IsAction, Act, OvertimeItem, Spans
<1>3. S \in SUBSET Nat /\ S # {}
  <2>1. \A o \in Act.overtime : Overlap(i, o) \in Nat
    BY <1>2, OverlapIs
  <2> QED BY <1>1, <2>1
<1>4. IsFiniteSet(S)
  <2>1. PICK A, h : A = {x \in Act.overtime : x.worker = w} /\ h = [o \in A |-> Overlap(i, o)]
    OBVIOUS
  <2>2. IsFiniteSet(A)
    BY <1>2, <2>1, FS_Subset
  <2>3. IsFiniteSet({h[o] : o \in A})
    BY <2>2, ImageIsFinite
  <2>4. S = {h[o] : o \in A} \cup {0}
    BY <1>1, <2>1
  <2> QED BY <2>3, <2>4, FS_AddElement
<1>5. PICK m : m = Max(S)
  OBVIOUS
<1>6. m \in S
  <2>1. \E x \in S : \A y \in S : y <= x
    BY <1>3, <1>4, GreatestNumber
  <2>2. \E x \in S : \A y \in S : x >= y
    BY <1>3, <2>1
  <2> QED BY <1>5, <2>2 DEF Max
<1>7. Overtime(w, i) = Min2(TicksPerSlot, m) /\ TicksPerSlot \in Nat
  BY <1>1, <1>5 DEF Overtime, ScheduleConstants
<1>8. m \in Nat /\ Overtime(w, i) \in Nat /\ Overtime(w, i) <= m
  BY <1>3, <1>6, <1>7 DEF Min2
<1>9. m # 0 => \E o \in Act.overtime : o.worker = w /\ m = Overlap(i, o)
  BY <1>1, <1>6
<1> QED BY <1>8, <1>9

\* The transfers and overtime of an action that was accepted.
Allowed == /\ \A t \in Range(Act.transfers) : TransferAllowed(t)
           /\ \A o \in Act.overtime : OvertimeAllowed(o) /\ WithinLimit(o.worker)

\* The transfers of an action are moves of workers.
LEMMA MovesAre ==
    ASSUME IsPlan(plan)
    PROVE  /\ DOMAIN Act.transfers \subseteq Nat
           /\ \A i \in DOMAIN Act.transfers : Act.transfers[i] \in Range(Act.transfers)
           /\ \A t \in Range(Act.transfers) : t \in Move
<1>1. PICK q : q = Act.transfers
  OBVIOUS
<1>2. q \in Seq(Move)
  BY <1>1 DEF IsPlan, IsAction, Act
<1>3. DOMAIN q \subseteq Nat /\ \A i \in DOMAIN q : q[i] \in Move
  BY <1>2
<1> QED BY <1>1, <1>3 DEF Range

\* Who is away is so by a useful transfer that touches the hour.
LEMMA TransferIs ==
    ASSUME IsPlan(plan), NEW w, NEW s, Away(w, s)
    PROVE  /\ Transfer(w, s) \in Transfers /\ Transfer(w, s).worker = w
           /\ Overlaps(Hour(s), Transfer(w, s))
<1>1. PICK A : A = ActiveTransfers(w, s)
  OBVIOUS
<1>2. /\ A # {} /\ A \in SUBSET Nat
      /\ \A i \in A : /\ i \in DOMAIN Act.transfers /\ Useful(Act.transfers[i])
                      /\ Act.transfers[i].worker = w /\ Overlaps(Hour(s), Act.transfers[i])
  BY <1>1, MovesAre DEF Away, ActiveTransfers
<1>3. PICK m : m = Min(A)
  OBVIOUS
<1>4. m \in A
  <2>1. \E x \in A : \A y \in A : x <= y
    BY <1>2, LeastNumber
  <2> QED BY <1>3, <2>1 DEF Min
<1>5. Transfer(w, s) = Act.transfers[m]
  BY <1>1, <1>3 DEF Transfer
<1>6. Act.transfers[m] \in Range(Act.transfers)
  BY <1>2, <1>4, MovesAre
<1> QED BY <1>2, <1>4, <1>5, <1>6 DEF Transfers

\* The time a worker is productive in a transfer is time of the transfer, and all of it
\* but travel and setup if it is new.
LEMMA SpanIs ==
    ASSUME ScheduleConstants, IsPlan(plan), Allowed, NEW t \in Transfers
    PROVE  /\ Spans(t) /\ t.worker \in Worker
           /\ Spans(Clipped(t)) /\ Spans(Productive(t))
           /\ t.starts <= Clipped(t).starts /\ Clipped(t).ends <= t.ends
           /\ 0 <= Clipped(t).starts /\ Clipped(t).ends <= Horizon
           /\ Clipped(t).starts <= Productive(t).starts /\ Productive(t).ends <= Clipped(t).ends
           /\ Productive(t).starts < Productive(t).ends
           /\ ~Implemented(t) => Length(Productive(t)) = (t.ends - t.starts) - (t.out + t.setup + t.back)
           /\ CalendarCovers(t.worker, Clipped(t))
<1>1. t \in Move /\ Useful(t) /\ TransferAllowed(t)
  BY MovesAre DEF Transfers, Allowed
<1>2. t.worker \in Worker /\ t.starts \in Int /\ t.ends \in Int
  BY <1>1 DEF Move
<1>3. /\ t.out \in Int /\ t.out >= 0 /\ t.setup \in Int /\ t.setup >= 0
      /\ t.back \in Int /\ t.back >= 0
  <2>1. t.out \in Moment /\ t.setup \in Moment /\ t.back \in Moment
    BY <1>1 DEF Move
  <2> QED BY <1>1, <2>1 DEF Useful, FrictionKnown, Moment
<1>4. Horizon \in Nat
  BY DEF ScheduleConstants
<1>5. Productive(t).starts < Productive(t).ends /\ CalendarCovers(t.worker, Clipped(t))
  BY <1>1 DEF Useful, TransferAllowed
<1>6. CASE Implemented(t)
  <2>1. Clipped(t) = [starts |-> Max2(t.starts, 0), ends |-> Min2(t.ends, Horizon)]
    BY <1>6 DEF Clipped
  <2>2. Productive(t) = [starts |-> Max2(t.starts + t.out + t.setup, 0), ends |-> Min2(t.ends - t.back, Horizon)]
    BY <1>6 DEF Productive
  <2> QED BY <1>2, <1>3, <1>4, <1>5, <1>6, <2>1, <2>2 DEF Max2, Min2, Spans
<1>7. CASE ~Implemented(t)
  <2>1. Clipped(t) = [starts |-> t.starts, ends |-> t.ends]
    BY <1>7 DEF Clipped, Window
  <2>2. Productive(t) = [starts |-> t.starts + t.out + t.setup, ends |-> t.ends - t.back]
    BY <1>7 DEF Productive
  <2>3. t.starts >= 0 /\ t.ends <= Horizon
    BY <1>1, <1>7 DEF TransferAllowed, InHorizon
  <2> QED BY <1>2, <1>3, <1>4, <1>5, <1>7, <2>1, <2>2, <2>3 DEF Spans, Length
<1> QED BY <1>6, <1>7

\* What is left of an overtime is part of it; one that is over has nothing to do with the
\* hours from asOf to the horizon.
LEMMA ClippedIs ==
    ASSUME ScheduleConstants, IsPlan(plan), Allowed, NEW o \in Act.overtime
    PROVE  /\ Spans(o) /\ Spans(Clipped(o)) /\ o.worker \in Worker
           /\ \A i : Spans(i) /\ 0 <= i.starts /\ i.ends <= Horizon /\ Overlap(i, o) > 0
                 => ~Over(o) /\ Overlaps(i, Clipped(o)) /\ Overlap(i, o) = Overlap(i, Clipped(o))
           /\ ~Over(o) => /\ Clipped(o).starts < Clipped(o).ends
                          /\ Within(Clipped(o), Cal(o.worker).permitted)
                          /\ \A t \in Transfers : t.worker = o.worker => ~Overlaps(Clipped(o), t)
<1>1. o.starts \in Int /\ o.ends \in Int /\ o.worker \in Worker
  BY DEF IsPlan, IsAction, Act, OvertimeItem
<1>2. o.ends > o.starts /\ OvertimeAllowed(o)
  BY DEF Allowed, OvertimeAllowed
<1>3. Horizon \in Nat
  BY DEF ScheduleConstants
<1>4. Spans(Clipped(o))
  BY <1>1, <1>3 DEF Clipped, Window, Max2, Min2, Spans
<1>5. ~Over(o) => /\ Clipped(o).starts < Clipped(o).ends
                  /\ Within(Clipped(o), Cal(o.worker).permitted)
                  /\ \A t \in Transfers : t.worker = o.worker => ~Overlaps(Clipped(o), t)
  BY <1>2, <1>4 DEF Over, OvertimeAllowed, Spans
<1>6. ASSUME NEW i, Spans(i), 0 <= i.starts, i.ends <= Horizon, Overlap(i, o) > 0
      PROVE  ~Over(o) /\ Overlaps(i, Clipped(o)) /\ Overlap(i, o) = Overlap(i, Clipped(o))
  <2>1. PICK a, b, c, d, h : a = i.starts /\ b = i.ends /\ c = o.starts /\ d = o.ends /\ h = Horizon
    OBVIOUS
  <2>2. a \in Int /\ b \in Int /\ c \in Int /\ d \in Int /\ h \in Nat /\ 0 <= a /\ b <= h
    BY <1>1, <1>3, <1>6, <2>1 DEF Spans
  <2>3. a < b /\ a < d /\ c < b /\ c < d
    BY <1>2, <1>6, <2>1, <2>2 DEF Overlap, Max2, Min2
  <2>4. CASE Implemented(o)
    <3>1. Clipped(o) = [starts |-> Max2(c, 0), ends |-> Min2(d, h)]
      BY <2>1, <2>4 DEF Clipped
    <3> QED BY <2>1, <2>2, <2>3, <3>1 DEF Over, Overlaps, Overlap, Max2, Min2
  <2>5. CASE ~Implemented(o)
    <3>1. Clipped(o) = [starts |-> c, ends |-> d]
      BY <2>1, <2>5 DEF Clipped, Window
    <3> QED BY <2>1, <2>2, <2>3, <3>1 DEF Over, Overlaps, Overlap
  <2> QED BY <2>4, <2>5
<1> QED BY <1>1, <1>4, <1>5, <1>6 DEF Spans

\* A number is its quotient's multiple and its remainder.
LEMMA DivIs ==
    ASSUME NEW d \in Nat, NEW n \in Nat \ {0}
    PROVE  d \div n \in Nat /\ d % n \in 0..(n - 1) /\ d = n * (d \div n) + (d % n)
  OBVIOUS

\* A remainder may be taken off.
LEMMA WithoutRest ==
    ASSUME NEW d \in Nat, NEW n \in Nat \ {0}
    PROVE  d % n \in 0..(n - 1) /\ d % n <= d /\ (d - (d % n)) % n = 0
<1>1. PICK q, r : q = d \div n /\ r = d % n
  OBVIOUS
<1>2. q \in Nat /\ r \in 0..(n - 1) /\ d = n * q + r
  BY <1>1, DivIs
<1>3. PICK m : m = n * q
  OBVIOUS
<1>4. m \in Nat /\ m = d - r
  BY <1>2, <1>3
<1>5. PICK p, z : p = m \div n /\ z = m % n
  OBVIOUS
<1>6. p \in Int /\ z \in 0..(n - 1) /\ m = n * p + z
  <2>1. m \div n \in Nat /\ m % n \in 0..(n - 1) /\ m = n * (m \div n) + (m % n)
    BY <1>4, DivIs, ZenonT(30)
  <2> QED BY <1>5, <2>1
<1>7. PICK k : k = q - p
  OBVIOUS
<1>8. k \in Int /\ n * k = n * q - n * p
  BY <1>2, <1>6, <1>7
<1>9. n * k = z
  BY <1>3, <1>6, <1>8, <1>2
<1>10. k >= 1 => n * k >= n
  BY <1>8
<1>11. k <= 0 => n * k <= 0
  BY <1>8
<1>12. z = 0
  BY <1>6, <1>8, <1>9, <1>10, <1>11
<1>13. r <= d
  BY <1>2, <1>4
<1> QED BY <1>1, <1>2, <1>4, <1>5, <1>12, <1>13

\* A transfer that was accepted lies in its worker's shifts.
LEMMA AwayOnShift ==
    ASSUME ScheduleConstants, IsPlan(plan), Allowed, NEW t \in Transfers
    PROVE  Instants(Clipped(t)) \subseteq OnShift(t.worker)
<1>1. SUFFICES ASSUME NEW x \in Instants(Clipped(t)) PROVE x \in OnShift(t.worker)
  OBVIOUS
<1>2. PICK c, w : c = Clipped(t) /\ w = t.worker
  OBVIOUS
<1>3. /\ Spans(c) /\ w \in Worker /\ 0 <= c.starts /\ c.ends <= Horizon /\ CalendarCovers(w, c)
      /\ Spans(t) /\ t.starts <= c.starts /\ c.ends <= t.ends
  BY <1>2, SpanIs
<1>4. c.starts \in Nat /\ c.ends \in Int /\ x \in c.starts..(c.ends - 1)
  BY <1>1, <1>2, <1>3 DEF Instants, Spans
<1>5. PICK n, r, b : n = TicksPerSlot /\ r = (x - c.starts) % n /\ b = x - r
  OBVIOUS
<1>6. n \in Nat \ {0} /\ Horizon \in Nat
  BY <1>5 DEF ScheduleConstants
<1>7. b \in c.starts..(c.ends - 1) /\ x < b + n /\ b <= x /\ b \in Int /\ (b - c.starts) % n = 0
  <2>1. PICK d : d = x - c.starts
    OBVIOUS
  <2>2. d \in Nat /\ r = d % n
    BY <1>4, <1>5, <2>1
  <2>3. r \in 0..(n - 1) /\ r <= d /\ (d - r) % n = 0
    BY <1>6, <2>2, WithoutRest
  <2>4. b - c.starts = d - r
    BY <1>4, <1>5, <1>6, <2>1, <2>3
  <2> QED BY <1>4, <1>5, <1>6, <2>1, <2>2, <2>3, <2>4
<1>8. PICK h : h = [starts |-> b, ends |-> Min2(b + n, c.ends)]
  OBVIOUS
<1>9. h \in HoursOf(c)
  BY <1>5, <1>7, <1>8 DEF HoursOf
<1>10. /\ Spans(h) /\ x \in Instants(h) /\ h.starts < h.ends
       /\ c.starts <= h.starts /\ h.ends <= c.ends /\ 0 <= h.starts /\ h.starts < Horizon /\ h.ends <= Horizon
  BY <1>3, <1>4, <1>6, <1>7, <1>8 DEF Spans, Instants, Min2
<1>11. Max2(Regular(w, h), Overtime(w, h)) >= h.ends - h.starts
  BY <1>3, <1>9 DEF CalendarCovers
<1>12. PICK g, o : g = Regular(w, h) /\ o = Overtime(w, h)
  OBVIOUS
<1>13. g \in Nat /\ g <= Cardinality(Instants(h) \cap OnShift(w))
  BY <1>3, <1>10, <1>12, RegularIs
<1>14. o = 0
  <2>1. SUFFICES ASSUME o # 0 PROVE FALSE
    OBVIOUS
  <2>2. PICK v \in Act.overtime : v.worker = w /\ o <= Overlap(h, v) /\ o \in Nat
    BY <1>3, <1>10, <1>12, <2>1, OvertimeIs
  <2>3. Spans(v) /\ Spans(Clipped(v))
    BY ClippedIs
  <2>4. Overlap(h, v) > 0
    <3>1. Overlap(h, v) \in Nat
      BY <1>10, <2>3, OverlapIs
    <3> QED BY <2>1, <2>2, <3>1
  <2>5. ~Over(v) /\ Overlaps(h, Clipped(v))
    BY <1>10, <2>4, ClippedIs
  <2>6. ~Overlaps(Clipped(v), t)
    BY <1>2, <2>2, <2>5, ClippedIs
  <2> QED BY <1>3, <1>10, <2>3, <2>5, <2>6 DEF Overlaps, Spans
<1>15. h.ends - h.starts <= g
  BY <1>10, <1>11, <1>12, <1>13, <1>14 DEF Max2, Spans
<1>16. PICK I, J : I = Instants(h) /\ J = Instants(h) \cap OnShift(w)
  OBVIOUS
<1>17. IsFiniteSet(I) /\ Cardinality(I) = h.ends - h.starts
  BY <1>10, <1>16, LengthIs DEF Spans
<1>18. IsFiniteSet(J) /\ J \subseteq I
  BY <1>16, <1>17, FS_Subset
<1>19. Cardinality(I) \in Nat /\ Cardinality(J) \in Nat /\ Cardinality(I) <= Cardinality(J)
  BY <1>13, <1>15, <1>16, <1>17, <1>18, FS_CardinalityType
<1>20. J = I
  BY <1>17, <1>18, <1>19, FS_Subset
<1> QED BY <1>2, <1>10, <1>16, <1>20

\* What an entry of the work says.
Booked(e) == /\ e.ticks = Capacity(e.worker, e.task, e.slot) /\ e.ticks > 0
             /\ CanDo(e.worker, e.task, e.slot) /\ Live(e.task)
             /\ (e.overtime <=> OnOvertime(e.worker, e.slot)) /\ (e.away <=> Away(e.worker, e.slot))

\* A capacity that is not nothing is that of a transfer, of overtime or of regular hours.
LEMMA CapacityIs ==
    ASSUME ScheduleConstants, IsPlan(plan), NEW w \in Worker, NEW t, NEW s \in Slots, Capacity(w, t, s) > 0
    PROVE  /\ Away(w, s) => /\ TargetOfTransfer(Transfer(w, s), t)
                            /\ Capacity(w, t, s) = Min2(TicksPerSlot, Overlap(Hour(s), Productive(Transfer(w, s))))
           /\ ~Away(w, s) => Capacity(w, t, s) = Max2(Regular(w, Hour(s)), Overtime(w, Hour(s)))
           /\ Cal(w).active /\ ~ReservedWorker(w, Hour(s))
<1>1. Cal(w).active /\ ~ReservedWorker(w, Hour(s))
  BY DEF Capacity
<1>2. ~Away(w, s) => Capacity(w, t, s) = Max2(Regular(w, Hour(s)), Overtime(w, Hour(s)))
  BY <1>1 DEF Capacity
<1>3. Away(w, s) => Capacity(w, t, s) = AwayCapacity(w, t, s)
  BY <1>1 DEF Capacity
<1>4. CASE TargetOfTransfer(Transfer(w, s), t)
  <2>1. AwayCapacity(w, t, s) = Min2(TicksPerSlot, Overlap(Hour(s), Productive(Transfer(w, s))))
    BY <1>4 DEF AwayCapacity
  <2> QED BY <1>1, <1>2, <1>3, <1>4, <2>1
<1>5. CASE ~TargetOfTransfer(Transfer(w, s), t)
  <2>1. AwayCapacity(w, t, s) = 0
    BY <1>5 DEF AwayCapacity
  <2> QED BY <1>1, <1>2, <1>3, <2>1
<1> QED BY <1>4, <1>5

\* Hours worked away are hours of the transfer.
LEMMA AwayTicks ==
    ASSUME ScheduleConstants, IsPlan(plan), Allowed,
           NEW e, e.worker \in Worker, e.slot \in Slots, Booked(e), e.away
    PROVE  LET x == Transfer(e.worker, e.slot) IN
           /\ x \in Transfers /\ x.worker = e.worker /\ Of(e.task).project = x.to
           /\ e.ticks \in Nat /\ e.ticks <= Overlap(Hour(e.slot), Productive(x))
           /\ e.ticks <= Cardinality(TicksIn(e) \cap Instants(Productive(x)))
<1>1. PICK x, w, s : x = Transfer(w, s) /\ w = e.worker /\ s = e.slot
  OBVIOUS
<1>2. Away(w, s) /\ Capacity(w, e.task, s) > 0 /\ e.ticks = Capacity(w, e.task, s)
  BY <1>1 DEF Booked
<1>3. x \in Transfers /\ x.worker = w
  BY <1>1, <1>2, TransferIs
<1>4. TargetOfTransfer(x, e.task) /\ e.ticks = Min2(TicksPerSlot, Overlap(Hour(s), Productive(x)))
  BY <1>1, <1>2, CapacityIs
<1>5. Spans(Hour(s)) /\ Spans(Productive(x)) /\ TicksPerSlot \in Nat
  BY <1>1, <1>3, HourIs, SpanIs
<1>6. /\ Overlap(Hour(s), Productive(x)) \in Nat
      /\ Overlap(Hour(s), Productive(x)) = Cardinality(Instants(Hour(s)) \cap Instants(Productive(x)))
  BY <1>5, OverlapIs
<1>7. PICK o : o = Overlap(Hour(s), Productive(x))
  OBVIOUS
<1>8. e.ticks \in Nat /\ e.ticks <= o
  BY <1>4, <1>5, <1>6, <1>7 DEF Min2
<1>9. TicksIn(e) = Instants(Hour(s))
  BY <1>1 DEF TicksIn, Instants
<1>10. Of(e.task).project = x.to
  BY <1>4 DEF TargetOfTransfer
<1> QED BY <1>1, <1>3, <1>6, <1>7, <1>8, <1>9, <1>10

\* Overtime worked is within one overtime of the action.
LEMMA OvertimeTicks ==
    ASSUME ScheduleConstants, IsPlan(plan), Allowed,
           NEW e, e.worker \in Worker, e.slot \in Slots, Booked(e), e.overtime
    PROVE  /\ e.ticks \in Nat
           /\ \E o \in OvertimeOf(e.worker) :
                 e.ticks <= Cardinality(TicksIn(e) \cap Instants(Clipped(o)))
<1>1. PICK w, s : w = e.worker /\ s = e.slot
  OBVIOUS
<1>2. /\ ~Away(w, s) /\ Overtime(w, Hour(s)) > Regular(w, Hour(s))
      /\ Capacity(w, e.task, s) > 0 /\ e.ticks = Capacity(w, e.task, s)
  BY <1>1 DEF Booked, OnOvertime
<1>3. e.ticks = Max2(Regular(w, Hour(s)), Overtime(w, Hour(s)))
  BY <1>1, <1>2, CapacityIs
<1>4. Spans(Hour(s)) /\ 0 <= Hour(s).starts /\ Hour(s).starts < Horizon /\ Hour(s).ends <= Horizon
  <2>1. Spans(Hour(s)) /\ 0 <= Hour(s).starts /\ Hour(s).ends <= Horizon
        /\ Hour(s).ends = Hour(s).starts + TicksPerSlot /\ TicksPerSlot \in Nat \ {0} /\ Horizon \in Nat
    BY <1>1, HourIs DEF ScheduleConstants
  <2> QED BY <2>1 DEF Spans
<1>5. Regular(w, Hour(s)) \in Nat /\ Overtime(w, Hour(s)) \in Nat
  BY <1>1, <1>4, RegularIs, OvertimeIs
<1>6. e.ticks = Overtime(w, Hour(s)) /\ e.ticks > 0 /\ e.ticks \in Nat
  BY <1>2, <1>3, <1>5 DEF Max2
<1>7. PICK o \in Act.overtime : o.worker = w /\ e.ticks <= Overlap(Hour(s), o)
  BY <1>1, <1>4, <1>6, OvertimeIs
<1>8. Spans(o) /\ Spans(Clipped(o))
  BY ClippedIs
<1>9. Overlap(Hour(s), o) > 0
  <2>1. Overlap(Hour(s), o) \in Nat
    BY <1>4, <1>8, OverlapIs
  <2> QED BY <1>6, <1>7, <2>1
<1>10. ~Over(o) /\ Overlap(Hour(s), o) = Overlap(Hour(s), Clipped(o))
  BY <1>4, <1>9, ClippedIs
<1>11. Overlap(Hour(s), Clipped(o)) = Cardinality(Instants(Hour(s)) \cap Instants(Clipped(o)))
  BY <1>4, <1>8, OverlapIs
<1>12. TicksIn(e) = Instants(Hour(s))
  BY <1>1 DEF TicksIn, Instants
<1>13. o \in OvertimeOf(e.worker)
  BY <1>1, <1>7, <1>10 DEF OvertimeOf
<1> QED BY <1>6, <1>7, <1>10, <1>11, <1>12, <1>13

\* Every hour worked is in the worker's calendar, or in overtime the worker permits.
LEMMA TicksAre ==
    ASSUME ScheduleConstants, IsPlan(plan), Allowed,
           NEW e, e.worker \in Worker, e.slot \in Slots, Booked(e)
    PROVE  /\ e.ticks \in Nat
           /\ e.ticks <= Cardinality(TicksIn(e) \cap (IF e.overtime THEN Permitted(e.worker)
                                                      ELSE OnShift(e.worker)))
<1>1. PICK w, s, h : w = e.worker /\ s = e.slot /\ h = Hour(s)
  OBVIOUS
<1>2. /\ Spans(h) /\ 0 <= h.starts /\ h.starts < Horizon /\ h.ends <= Horizon
      /\ TicksIn(e) = Instants(h) /\ IsFiniteSet(Instants(h))
  <2>1. Spans(h) /\ 0 <= h.starts /\ h.ends <= Horizon /\ TicksIn(e) = Instants(h)
        /\ h.ends = h.starts + TicksPerSlot /\ TicksPerSlot \in Nat \ {0} /\ Horizon \in Nat
    BY <1>1, HourIs DEF ScheduleConstants, TicksIn, Instants
  <2>2. h.starts < Horizon
    BY <2>1 DEF Spans
  <2>3. IsFiniteSet(Instants(h))
    BY <2>1, OverlapIs
  <2> QED BY <2>1, <2>2, <2>3
<1>3. \A A, B : A \subseteq B => /\ Cardinality(Instants(h) \cap A) <= Cardinality(Instants(h) \cap B)
                                 /\ Cardinality(Instants(h) \cap A) \in Nat
                                 /\ Cardinality(Instants(h) \cap B) \in Nat
  <2>1. ASSUME NEW A, NEW B, A \subseteq B
        PROVE  /\ Cardinality(Instants(h) \cap A) <= Cardinality(Instants(h) \cap B)
               /\ Cardinality(Instants(h) \cap A) \in Nat /\ Cardinality(Instants(h) \cap B) \in Nat
    <3>1. PICK X, Y : X = Instants(h) \cap A /\ Y = Instants(h) \cap B
      OBVIOUS
    <3>2. X \in SUBSET Y /\ Y \in SUBSET Instants(h)
      BY <2>1, <3>1
    <3>3. IsFiniteSet(Y) /\ IsFiniteSet(X) /\ Cardinality(X) <= Cardinality(Y)
      BY <1>2, <3>2, FS_Subset
    <3> QED BY <3>1, <3>3, FS_CardinalityType
  <2> QED BY <2>1
<1>4. CASE e.overtime
  <2>1. PICK o \in OvertimeOf(w) : e.ticks \in Nat /\ e.ticks <= Cardinality(Instants(h) \cap Instants(Clipped(o)))
    BY <1>1, <1>2, <1>4, OvertimeTicks
  <2>2. o \in Act.overtime /\ o.worker = w /\ ~Over(o)
    BY <2>1 DEF OvertimeOf
  <2>3. Within(Clipped(o), Cal(w).permitted) /\ Spans(Clipped(o))
    BY <2>2, ClippedIs
  <2>4. PICK j \in Cal(w).permitted : j.starts <= Clipped(o).starts /\ Clipped(o).ends <= j.ends
    BY <2>3 DEF Within
  <2>5. j.starts \in Int /\ j.ends \in Int
    BY <1>1, <2>4 DEF IsPlan, IsWorker, Cal
  <2>6. Instants(h) \cap Instants(Clipped(o)) \subseteq Instants(h) \cap Permitted(w)
    <3>1. ASSUME NEW x \in Instants(h), x \in Instants(Clipped(o)) PROVE x \in Permitted(w)
      <4>1. x \in 0..Horizon /\ x >= j.starts /\ x < j.ends
        BY <1>2, <2>3, <2>4, <2>5, <3>1 DEF Instants, Spans, ScheduleConstants
      <4> QED BY <2>4, <4>1 DEF Permitted
    <3> QED BY <3>1
  <2>7. PICK A : A = Instants(h) \cap Instants(Clipped(o))
    OBVIOUS
  <2>8. /\ Instants(h) \cap A = A /\ A \subseteq Instants(h) \cap Permitted(w)
        /\ Instants(h) \cap (Instants(h) \cap Permitted(w)) = Instants(h) \cap Permitted(w)
    BY <2>6, <2>7
  <2>9. /\ Cardinality(A) <= Cardinality(Instants(h) \cap Permitted(w))
        /\ Cardinality(A) \in Nat /\ Cardinality(Instants(h) \cap Permitted(w)) \in Nat
    BY <1>3, <2>8
  <2>10. e.ticks \in Nat /\ e.ticks <= Cardinality(A)
    BY <2>1, <2>7
  <2>11. e.ticks <= Cardinality(Instants(h) \cap Permitted(w))
    BY <2>9, <2>10
  <2> QED BY <1>1, <1>2, <1>4, <2>10, <2>11
<1>5. CASE ~e.overtime /\ e.away
  <2>1. PICK x : x = Transfer(w, s)
    OBVIOUS
  <2>2. /\ x \in Transfers /\ x.worker = w /\ e.ticks \in Nat
        /\ e.ticks <= Cardinality(Instants(h) \cap Instants(Productive(x)))
    BY <1>1, <1>2, <1>5, <2>1, AwayTicks
  <2>3. /\ Spans(Clipped(x)) /\ Spans(Productive(x)) /\ Clipped(x).starts <= Productive(x).starts
        /\ Productive(x).ends <= Clipped(x).ends
    BY <2>2, SpanIs
  <2>4. Instants(Productive(x)) \subseteq Instants(Clipped(x)) /\ Instants(Clipped(x)) \subseteq OnShift(w)
    BY <2>2, <2>3, AwayOnShift DEF Instants, Spans
  <2>5. PICK a, b : a = Cardinality(Instants(h) \cap Instants(Productive(x)))
                    /\ b = Cardinality(Instants(h) \cap OnShift(w))
    OBVIOUS
  <2>6. a <= b /\ a \in Nat /\ b \in Nat
    BY <1>3, <2>4, <2>5
  <2> QED BY <1>1, <1>2, <1>5, <2>2, <2>5, <2>6
<1>6. CASE ~e.overtime /\ ~e.away
  <2>1. /\ ~Away(w, s) /\ ~(Overtime(w, h) > Regular(w, h))
        /\ Capacity(w, e.task, s) > 0 /\ e.ticks = Capacity(w, e.task, s)
    BY <1>1, <1>6 DEF Booked, OnOvertime
  <2>2. e.ticks = Max2(Regular(w, h), Overtime(w, h))
    BY <1>1, <2>1, CapacityIs
  <2>3. Regular(w, h) \in Nat /\ Overtime(w, h) \in Nat
        /\ Regular(w, h) <= Cardinality(Instants(h) \cap OnShift(w))
    BY <1>1, <1>2, RegularIs, OvertimeIs
  <2>4. e.ticks = Regular(w, h)
    BY <2>1, <2>2, <2>3 DEF Max2
  <2> QED BY <1>1, <1>2, <1>6, <2>3, <2>4
<1> QED BY <1>4, <1>5, <1>6

\* Entries of different hours that are all part of a time are together no longer than it.
LEMMA PackedTicks ==
    ASSUME ScheduleConstants, NEW es, IsFiniteSet(es), NEW U, IsFiniteSet(U),
           \A e \in es : /\ e.slot \in Slots /\ e.ticks \in Nat
                         /\ e.ticks <= Cardinality(TicksIn(e) \cap U),
           \A e, f \in es : e.slot = f.slot => e = f
    PROVE  Ticks(es) <= Cardinality(U)
<1>1. PICK c, k, g : /\ c = [e \in es |-> TicksIn(e) \cap U]
                     /\ k = [e \in es |-> Cardinality(TicksIn(e) \cap U)]
                     /\ g = [e \in es |-> e.ticks]
  OBVIOUS
<1>2. \A e \in es : IsFiniteSet(TicksIn(e) \cap U) /\ Cardinality(TicksIn(e) \cap U) \in Nat
  BY FS_Subset, FS_CardinalityType
<1>3. ASSUME NEW e \in es, NEW f \in es, e # f PROVE TicksIn(e) \cap TicksIn(f) = {}
  <2>1. e.slot \in Slots /\ f.slot \in Slots /\ e.slot # f.slot
    BY <1>3
  <2>2. e.slot \in Nat /\ f.slot \in Nat
    BY <2>1, HourIs
  <2>3. /\ Hour(e.slot).ends <= Hour(f.slot).starts \/ Hour(f.slot).ends <= Hour(e.slot).starts
        /\ Spans(Hour(e.slot)) /\ Spans(Hour(f.slot))
    BY <2>1, <2>2, HourIs
  <2> QED BY <2>3 DEF TicksIn, Spans
<1>4. \A e \in es : /\ c[e] = TicksIn(e) \cap U /\ IsFiniteSet(c[e]) /\ k[e] = Cardinality(c[e])
                    /\ k[e] \in Int /\ g[e] = e.ticks /\ g[e] \in Int /\ g[e] <= k[e]
  <2>1. ASSUME NEW e \in es
        PROVE  /\ c[e] = TicksIn(e) \cap U /\ IsFiniteSet(c[e]) /\ k[e] = Cardinality(c[e])
               /\ k[e] \in Int /\ g[e] = e.ticks /\ g[e] \in Int /\ g[e] <= k[e]
    <3>1. PICK X, n : X = TicksIn(e) \cap U /\ n = Cardinality(X)
      OBVIOUS
    <3>2. c[e] = X /\ k[e] = n /\ g[e] = e.ticks
      BY <1>1, <3>1
    <3>3. IsFiniteSet(X) /\ n \in Nat /\ e.ticks \in Nat /\ e.ticks <= n
      BY <1>2, <3>1
    <3> QED BY <3>1, <3>2, <3>3
  <2> QED BY <2>1
<1>5. \A e, f \in es : e # f => c[e] \cap c[f] = {}
  BY <1>3, <1>4
<1>6. PICK V : V = UNION {c[e] : e \in es}
  OBVIOUS
<1>7. SumOver(k, es) = Cardinality(V)
  <2>1. \A e \in es : IsFiniteSet(c[e]) /\ k[e] = Cardinality(c[e])
    BY <1>4
  <2> QED BY <1>5, <1>6, <2>1, SumOfSizes
<1>8. V \in SUBSET U
  BY <1>4, <1>6
<1>9. Cardinality(V) <= Cardinality(U) /\ Cardinality(V) \in Nat /\ Cardinality(U) \in Nat
  BY <1>8, FS_Subset, FS_CardinalityType
<1>10. SumOver(g, es) <= SumOver(k, es)
  BY <1>4, SumLe
<1>11. SumOver(g, es) \in Int
  BY <1>4, SumTake
<1>12. Ticks(es) = SumOver(g, es)
  <2>1. g = [e \in es |-> g[e]]
    BY <1>1
  <2> QED BY <1>1, <2>1, TotalIs DEF Ticks
<1> QED BY <1>7, <1>9, <1>10, <1>11, <1>12

\* What was worked, of an action that was accepted.
WorkIs == /\ IsFiniteSet(work) /\ OneCrewAtATime
          /\ \A e \in work : e.worker \in Worker /\ e.task \in Task /\ e.slot \in Slots /\ Booked(e)

\* Overtime worked is within the overtime of the action, which is within the limit.
LEMMA OvertimeFits ==
    ASSUME ScheduleConstants, IsPlan(plan), Allowed, WorkIs PROVE OvertimeLimited
<1>1. SUFFICES ASSUME NEW w \in Worker, Cal(w).maxOvertime # None
               PROVE  Ticks({e \in work : e.worker = w /\ e.overtime}) <= Cal(w).maxOvertime
  BY DEF OvertimeLimited
<1>2. PICK es : es = {e \in work : e.worker = w /\ e.overtime}
  OBVIOUS
<1>3. IsFiniteSet(es)
  BY <1>2, FS_Subset DEF WorkIs
<1>4. Cal(w).maxOvertime \in Nat
  BY <1>1 DEF IsPlan, IsWorker, Cal, Level
<1>5. CASE es = {}
  <2>1. \A e \in es : e.ticks \in Nat
    BY <1>5
  <2>2. PICK g : g = [e \in es |-> e.ticks]
    OBVIOUS
  <2>3. Ticks(es) = SumOver(g, es)
    <3>1. g = [e \in es |-> g[e]]
      BY <2>2
    <3> QED BY <2>2, <3>1, TotalIs DEF Ticks
  <2>4. Ticks(es) = 0
    BY <1>5, <2>3, SumEmpty
  <2> QED BY <1>2, <1>4, <2>4
<1>6. CASE es # {}
  <2>1. PICK A, d, len : /\ A = OvertimeOf(w) /\ d = [o \in A |-> Instants(Clipped(o))]
                         /\ len = [o \in A |-> Length(Clipped(o))]
    OBVIOUS
  <2>2. A \in SUBSET Act.overtime /\ IsFiniteSet(Act.overtime) /\ \A o \in A : o.worker = w /\ ~Over(o)
    BY <2>1 DEF OvertimeOf, IsPlan, IsAction, Act
  <2>3. IsFiniteSet(A)
    BY <2>2, FS_Subset
  <2>4. ASSUME NEW o \in A
        PROVE  IsFiniteSet(Instants(Clipped(o))) /\ Cardinality(Instants(Clipped(o))) = Length(Clipped(o))
    <3>1. Spans(Clipped(o)) /\ Clipped(o).starts < Clipped(o).ends
      BY <2>2, <2>4, ClippedIs
    <3>2. Clipped(o).starts <= Clipped(o).ends
      BY <3>1 DEF Spans
    <3> QED BY <3>1, <3>2, LengthIs DEF Length
  <2>5. \A o \in A : IsFiniteSet(d[o]) /\ len[o] = Cardinality(d[o])
    BY <2>1, <2>4
  <2>6. PICK U : U = UNION {d[o] : o \in A}
    OBVIOUS
  <2>7. IsFiniteSet(U) /\ Cardinality(U) <= SumOver(len, A)
    BY <2>3, <2>5, <2>6, SumOfSizes
  <2>8. ASSUME NEW e \in es
        PROVE  /\ e.slot \in Slots /\ e.ticks \in Nat /\ A # {}
               /\ e.ticks <= Cardinality(TicksIn(e) \cap U)
    <3>1. e.worker = w /\ e.overtime /\ e.slot \in Slots /\ e.worker \in Worker /\ Booked(e)
      BY <1>2, <2>8 DEF WorkIs
    <3>2. PICK o \in A : e.ticks \in Nat /\ e.ticks <= Cardinality(TicksIn(e) \cap Instants(Clipped(o)))
      BY <2>1, <3>1, OvertimeTicks
    <3>3. PICK X, Y : X = TicksIn(e) \cap Instants(Clipped(o)) /\ Y = TicksIn(e) \cap U
      OBVIOUS
    <3>4. X \in SUBSET Y
      BY <2>1, <2>6, <3>3
    <3>5. IsFiniteSet(Y)
      BY <2>7, <3>3, FS_Subset
    <3>6. Cardinality(X) <= Cardinality(Y) /\ Cardinality(X) \in Nat /\ Cardinality(Y) \in Nat
      BY <3>4, <3>5, FS_Subset, FS_CardinalityType
    <3> QED BY <3>1, <3>2, <3>3, <3>6
  <2>9. \A e, f \in es : e.slot = f.slot => e = f
    BY <1>2 DEF WorkIs, OneCrewAtATime
  <2>10. Ticks(es) <= Cardinality(U)
    BY <1>3, <2>7, <2>8, <2>9, PackedTicks
  <2>11. WithinLimit(w)
    <3>1. A # {}
      BY <1>6, <2>8
    <3> QED BY <2>2, <3>1 DEF Allowed
  <2>12. SumOver(len, A) <= Cal(w).maxOvertime
    <3>1. Total(len) <= Cal(w).maxOvertime
      BY <1>1, <2>1, <2>11 DEF WithinLimit
    <3>2. len = [o \in A |-> len[o]]
      BY <2>1
    <3> QED BY <3>1, <3>2, TotalIs
  <2>13. SumOver(len, A) \in Int /\ Cardinality(U) \in Nat
    <3>1. \A o \in A : len[o] \in Int
      BY <2>5, FS_CardinalityType
    <3> QED BY <2>3, <2>7, <3>1, SumTake, FS_CardinalityType
  <2>14. Ticks(es) \in Int
    <3>1. PICK g : g = [e \in es |-> e.ticks]
      OBVIOUS
    <3>2. g = [e \in es |-> g[e]] /\ \A e \in es : g[e] \in Int
      <4>1. \A e \in es : e.ticks \in Nat
        BY <2>8
      <4> QED BY <3>1, <4>1
    <3>3. Ticks(es) = SumOver(g, es)
      BY <3>1, <3>2, TotalIs DEF Ticks
    <3> QED BY <1>3, <3>2, <3>3, SumTake
  <2> QED BY <1>2, <1>4, <2>7, <2>10, <2>12, <2>13, <2>14
<1> QED BY <1>5, <1>6

\* An hour during a transfer is an hour of the transfer that counts in it.
LEMMA TransfersCost ==
    ASSUME ScheduleConstants, IsPlan(plan), Allowed, WorkIs PROVE TransferCosts
<1>1. SUFFICES ASSUME NEW t \in Transfers, ~Implemented(t),
                      NEW during, during = {e \in work : e.worker = t.worker /\ Overlaps(Hour(e.slot), t)},
                      NEW counted, counted = {e \in during : Transfer(e.worker, e.slot) = t}
               PROVE  /\ \A e \in during : e.away /\ Of(e.task).project = Transfer(e.worker, e.slot).to
                      /\ Ticks(counted) <= (t.ends - t.starts) - (t.out + t.setup + t.back)
  BY DEF TransferCosts
<1>2. ASSUME NEW e \in during PROVE e.away /\ Of(e.task).project = Transfer(e.worker, e.slot).to
  <2>1. e \in work /\ e.worker = t.worker /\ Overlaps(Hour(e.slot), t)
    BY <1>1, <1>2
  <2>2. e.worker \in Worker /\ e.slot \in Slots /\ Booked(e)
    BY <2>1 DEF WorkIs
  <2>3. Away(e.worker, e.slot)
    <3>1. t \in Range(Act.transfers) /\ Useful(t)
      BY DEF Transfers
    <3>2. PICK i \in DOMAIN Act.transfers : Act.transfers[i] = t
      BY <3>1 DEF Range
    <3> QED BY <2>1, <3>1, <3>2 DEF Away, ActiveTransfers
  <2>4. e.away
    BY <2>2, <2>3 DEF Booked
  <2> QED BY <2>2, <2>4, AwayTicks
<1>3. counted \subseteq work /\ IsFiniteSet(counted)
  BY <1>1, FS_Subset DEF WorkIs
<1>4. PICK U : U = Instants(Productive(t))
  OBVIOUS
<1>5. /\ Spans(Productive(t)) /\ Productive(t).starts < Productive(t).ends
      /\ Length(Productive(t)) = (t.ends - t.starts) - (t.out + t.setup + t.back)
  BY <1>1, SpanIs
<1>6. IsFiniteSet(U) /\ Cardinality(U) = (t.ends - t.starts) - (t.out + t.setup + t.back)
  <2>1. Productive(t).starts <= Productive(t).ends
    BY <1>5 DEF Spans
  <2>2. IsFiniteSet(U) /\ Cardinality(U) = Productive(t).ends - Productive(t).starts
    BY <1>4, <1>5, <2>1, LengthIs
  <2>3. Length(Productive(t)) = Productive(t).ends - Productive(t).starts
    BY DEF Length
  <2> QED BY <1>5, <2>2, <2>3
<1>7. ASSUME NEW e \in counted
      PROVE  e.slot \in Slots /\ e.ticks \in Nat /\ e.ticks <= Cardinality(TicksIn(e) \cap U)
  <2>1. e \in during /\ e \in work /\ Transfer(e.worker, e.slot) = t
    BY <1>1, <1>7
  <2>2. e.away /\ e.worker \in Worker /\ e.slot \in Slots /\ Booked(e)
    BY <1>2, <2>1 DEF WorkIs
  <2> QED BY <1>4, <2>1, <2>2, AwayTicks
<1>8. \A e, f \in counted : e.slot = f.slot => e = f
  BY <1>1, <1>3 DEF WorkIs, OneCrewAtATime
<1>9. Ticks(counted) <= Cardinality(U)
  BY <1>3, <1>6, <1>7, <1>8, PackedTicks
<1> QED BY <1>2, <1>6, <1>9

\* The productive part of a useful transfer is an interval, without travel and setup.
LEMMA UsefulIs ==
    ASSUME ScheduleConstants, IsPlan(plan), NEW t \in Transfers
    PROVE  /\ Spans(t) /\ Spans(Productive(t))
           /\ Productive(t).starts < Productive(t).ends
           /\ ~Implemented(t) => t.out + t.setup + t.back < t.ends - t.starts
           /\ t.out \in Int /\ t.setup \in Int /\ t.back \in Int
<1>1. t \in Range(Act.transfers) /\ Useful(t) /\ t \in Move
  BY MovesAre DEF Transfers
<1>2. /\ t.starts \in Int /\ t.ends \in Int
      /\ t.out \in Moment /\ t.setup \in Moment /\ t.back \in Moment
  BY <1>1 DEF Move
<1>3. FrictionKnown(t) /\ Productive(t).starts < Productive(t).ends
  BY <1>1 DEF Useful
<1>4. t.out \in Int /\ t.setup \in Int /\ t.back \in Int /\ Horizon \in Nat
  BY <1>2, <1>3 DEF FrictionKnown, Moment, ScheduleConstants
<1>5. Spans(Productive(t))
  BY <1>2, <1>4 DEF Productive, Max2, Min2, Spans
<1>6. ASSUME ~Implemented(t) PROVE t.out + t.setup + t.back < t.ends - t.starts
  <2>1. t.starts + t.out + t.setup < t.ends - t.back
    BY <1>3, <1>6 DEF Productive
  <2> QED BY <1>2, <1>4, <2>1
<1> QED BY <1>2, <1>3, <1>4, <1>5, <1>6 DEF Spans

\* What is available of a worker is a number.
LEMMA AvailableIs ==
    ASSUME ScheduleConstants, IsPlan(plan), NEW w \in Worker, NEW p, NEW s \in Slots
    PROVE  AvailableOf(w, p, s) \in Nat
<1>1. PICK h : h = Hour(s)
  OBVIOUS
<1>2. Spans(h) /\ 0 <= h.starts /\ h.starts < Horizon /\ h.ends <= Horizon
  <2>1. Spans(h) /\ 0 <= h.starts /\ h.ends <= Horizon
        /\ h.ends = h.starts + TicksPerSlot /\ TicksPerSlot \in Nat \ {0} /\ Horizon \in Nat
    BY <1>1, HourIs DEF ScheduleConstants
  <2> QED BY <2>1 DEF Spans
<1>3. Max2(Regular(w, h), Overtime(w, h)) \in Nat
  <2>1. Regular(w, h) \in Nat /\ Overtime(w, h) \in Nat
    BY <1>2, RegularIs, OvertimeIs
  <2> QED BY <2>1 DEF Max2
<1>4. Away(w, s) => Overlap(h, Productive(Transfer(w, s))) \in Nat
  <2>1. ASSUME Away(w, s) PROVE Spans(Productive(Transfer(w, s)))
    <3>1. PICK x : x = Transfer(w, s)
      OBVIOUS
    <3>2. x \in Transfers
      BY <2>1, <3>1, TransferIs
    <3> QED BY <3>1, <3>2, UsefulIs
  <2> QED BY <1>2, <2>1, OverlapIs
<1>5. CASE Away(w, s)
  BY <1>1, <1>4, <1>5 DEF AvailableOf
<1>6. CASE ~Away(w, s)
  BY <1>1, <1>3, <1>6 DEF AvailableOf
<1> QED BY <1>5, <1>6

\* What somebody worked in an hour was available of them.
LEMMA UsedIsAvailable ==
    ASSUME ScheduleConstants, IsPlan(plan), Allowed, WorkIs, NEW e \in work
    PROVE  e.ticks <= AvailableOf(e.worker, Of(e.task).project, e.slot)
<1>1. PICK w, s, t, p : w = e.worker /\ s = e.slot /\ t = e.task /\ p = Of(t).project
  OBVIOUS
<1>2. w \in Worker /\ t \in Task /\ s \in Slots /\ Booked(e)
  BY <1>1 DEF WorkIs
<1>3. e.ticks = Capacity(w, t, s) /\ Capacity(w, t, s) > 0 /\ CanDo(w, t, s) /\ Live(t) /\ (e.away <=> Away(w, s))
  BY <1>1, <1>2 DEF Booked
<1>4. Cal(w).active /\ ~ReservedWorker(w, Hour(s))
  BY <1>2, <1>3, CapacityIs
<1>5. e.ticks \in Nat
  BY <1>1, <1>2, TicksAre
<1>6. CASE Away(w, s)
  <2>1. PICK x : x = Transfer(w, s)
    OBVIOUS
  <2>2. x \in Transfers /\ x.worker = w /\ p = x.to /\ e.ticks <= Overlap(Hour(s), Productive(x))
    BY <1>1, <1>2, <1>3, <1>6, <2>1, AwayTicks
  <2>3. TargetOfTransfer(x, t)
    BY <1>3, <1>6, <2>1 DEF CanDo
  <2>4. Eligible(w, p)
    BY <1>1, <1>2, <1>3, <2>2, <2>3 DEF Eligible, CanDo
  <2>5. AvailableOf(w, p, s) = Overlap(Hour(s), Productive(x))
    BY <1>4, <1>6, <2>1, <2>2, <2>4 DEF AvailableOf
  <2> QED BY <1>1, <2>2, <2>5
<1>7. CASE ~Away(w, s)
  <2>1. BaselineCanDo(w, t)
    BY <1>1, <1>3, <1>7 DEF CanDo, BaselineCanDo
  <2>2. Eligible(w, p)
    BY <1>1, <1>2, <1>3, <2>1 DEF Eligible
  <2>3. AvailableOf(w, p, s) = Max2(Regular(w, Hour(s)), Overtime(w, Hour(s)))
    BY <1>4, <1>7, <2>2 DEF AvailableOf
  <2>4. e.ticks = Max2(Regular(w, Hour(s)), Overtime(w, Hour(s)))
    BY <1>2, <1>3, <1>7, CapacityIs
  <2> QED BY <1>1, <1>5, <2>3, <2>4
<1> QED BY <1>6, <1>7

\* The hours used in a project are within the hours that were available for it.
LEMMA UsedFits ==
    ASSUME ScheduleConstants, IsPlan(plan), Allowed, WorkIs PROVE UsedWithinAvailable
<1>1. SUFFICES ASSUME NEW p \in Project, NEW s \in Slots
               PROVE  Ticks({e \in work : e.slot = s /\ Of(e.task).project = p}) <= Available(p, s)
  BY DEF UsedWithinAvailable
<1>2. PICK es, g, h, f : /\ es = {e \in work : e.slot = s /\ Of(e.task).project = p}
                         /\ g = [e \in es |-> e.ticks] /\ h = [e \in es |-> e.worker]
                         /\ f = [w \in Worker |-> AvailableOf(w, p, s)]
  OBVIOUS
<1>3. IsFiniteSet(es) /\ IsFiniteSet(Worker) /\ es \subseteq work
  BY <1>2, FS_Subset DEF WorkIs, ScheduleConstants
<1>4. \A w \in Worker : f[w] \in Nat
  BY <1>2, AvailableIs
<1>5. ASSUME NEW e \in es PROVE g[e] \in Int /\ h[e] \in Worker /\ g[e] <= f[h[e]]
  <2>1. e \in work /\ e.slot = s /\ Of(e.task).project = p /\ e.worker \in Worker /\ Booked(e)
    BY <1>2, <1>3, <1>5 DEF WorkIs
  <2>2. e.ticks <= AvailableOf(e.worker, p, s)
    BY <2>1, UsedIsAvailable
  <2>3. e.ticks \in Nat
    BY <2>1, TicksAre
  <2> QED BY <1>2, <2>1, <2>2, <2>3
<1>6. \A d, e \in es : h[d] = h[e] => d = e
  BY <1>2, <1>3 DEF WorkIs, OneCrewAtATime
<1>7. SumOver(g, es) <= SumOver(f, Worker)
  BY <1>3, <1>4, <1>5, <1>6, SumInto
<1>8. Ticks(es) = SumOver(g, es)
  <2>1. g = [e \in es |-> g[e]]
    BY <1>2
  <2> QED BY <1>2, <2>1, TotalIs DEF Ticks
<1>9. Available(p, s) = SumOver(f, Worker)
  <2>1. f = [w \in Worker |-> f[w]]
    BY <1>2
  <2> QED BY <1>2, <2>1, TotalIs DEF Available
<1> QED BY <1>2, <1>7, <1>8, <1>9

\* How much of the work the weather lets be done is a number.
LEMMA WorkabilityIs ==
    ASSUME ScheduleConstants, IsPlan(plan), NEW t \in Task, NEW s \in Slots
    PROVE  Workability(t, s) \in Nat
<1>1. PICK p, own, site : p = Of(t).project /\ own = At(Of(t).workability, s)
                          /\ site = At(plan.project[p].workability, s)
  OBVIOUS
<1>2. own \in Level /\ site \in Level
  BY <1>1 DEF IsPlan, IsTask, Of, At
<1>3. Full \in Nat
  BY DEF ScheduleConstants
<1>4. Forecast(t, s) \in Nat
  <2>1. CASE Of(t).hasProfile
    <3>1. Forecast(t, s) = IF own # None THEN own ELSE IF Of(t).indoor THEN Full ELSE 0
      BY <1>1, <2>1 DEF Forecast
    <3> QED BY <1>2, <1>3, <3>1 DEF Level
  <2>2. CASE ~Of(t).hasProfile /\ Of(t).indoor
    <3>1. Forecast(t, s) = Full
      BY <1>1, <2>2 DEF Forecast
    <3> QED BY <1>3, <3>1
  <2>3. CASE ~Of(t).hasProfile /\ ~Of(t).indoor
    <3>1. Forecast(t, s) = IF site # None THEN site ELSE IF plan.project[p].hasProfile THEN 0 ELSE Full
      BY <1>1, <2>3 DEF Forecast
    <3> QED BY <1>2, <1>3, <3>1 DEF Level
  <2> QED BY <2>1, <2>2, <2>3
<1>5. PICK S : S = {Forecast(t, s)} \cup
        {x.capacity : x \in {y \in Act.weather :
            /\ y.confirmed /\ y.capacity # None
            /\ y.task \in {None, t} /\ y.project \in {None, Of(t).project}
            /\ Overlaps(Hour(s), y)}}
  OBVIOUS
<1>6. S \in SUBSET Nat /\ S # {}
  <2>1. \A x \in Act.weather : x.capacity # None => x.capacity \in Nat
    BY DEF IsPlan, IsAction, Act, Level
  <2> QED BY <1>4, <1>5, <2>1
<1>7. PICK m : m = Min(S)
  OBVIOUS
<1>8. m \in S
  <2>1. \E x \in S : \A y \in S : x <= y
    BY <1>6, LeastNumber
  <2> QED BY <1>7, <2>1 DEF Min
<1>9. Workability(t, s) = m
  BY <1>5, <1>7 DEF Workability
<1> QED BY <1>6, <1>8, <1>9

-----------------------------------------------------------------------------
\* Nothing of the hours depends on anything but the plan.
LEMMA SameCalendar ==
    ASSUME plan' = plan
    PROVE  /\ \A w : \A i : Regular(w, i)' = Regular(w, i) /\ Overtime(w, i)' = Overtime(w, i)
           /\ \A w : \A s : /\ Away(w, s)' <=> Away(w, s)
                            /\ Transfer(w, s)' = Transfer(w, s)
                            /\ ReservedWorker(w, Hour(s))' <=> ReservedWorker(w, Hour(s))
<1>1. \A w : \A i : ShiftDay(w, i)' = ShiftDay(w, i)
  BY DEF ShiftDay, Cal
<1>2. \A w : \A d : ShiftOf(w, d)' = ShiftOf(w, d)
  BY DEF ShiftOf, Cal
<1>3. Act' = Act /\ \A w : Cal(w)' = Cal(w)
  BY DEF Act, Cal
<1>4. ASSUME NEW w, NEW i PROVE Regular(w, i)' = Regular(w, i) /\ Overtime(w, i)' = Overtime(w, i)
  BY <1>1, <1>2, <1>3 DEF Regular, Overtime
<1>5. \A t : Useful(t)' <=> Useful(t)
  BY DEF Useful, Over, Clipped, Implemented, Act, FrictionKnown, Productive
<1>6. ASSUME NEW w, NEW s PROVE ActiveTransfers(w, s)' = ActiveTransfers(w, s)
  BY <1>3, <1>5 DEF ActiveTransfers
<1>7. ASSUME NEW w, NEW s
      PROVE  /\ Away(w, s)' <=> Away(w, s)
             /\ Transfer(w, s)' = Transfer(w, s)
             /\ ReservedWorker(w, Hour(s))' <=> ReservedWorker(w, Hour(s))
  BY <1>3, <1>6 DEF Away, Transfer, ReservedWorker
<1> QED BY <1>4, <1>7

\* So a capacity does not change.
LEMMA SameCapacity ==
    ASSUME plan' = plan
    PROVE  /\ \A w : \A t : \A s : /\ Capacity(w, t, s)' = Capacity(w, t, s)
                                   /\ CanDo(w, t, s)' <=> CanDo(w, t, s)
           /\ \A w : \A s : OnOvertime(w, s)' <=> OnOvertime(w, s)
           /\ \A t : Of(t)' = Of(t) /\ (Live(t)' <=> Live(t))
<1>1. /\ \A t : Of(t)' = Of(t) /\ (Live(t)' <=> Live(t))
      /\ \A w : Cal(w)' = Cal(w)
  BY DEF Of, Cal, Live
<1>2. \A x : \A t : TargetOfTransfer(x, t)' <=> TargetOfTransfer(x, t)
  BY <1>1 DEF TargetOfTransfer
<1>3. \A x : Productive(x)' = Productive(x)
  BY DEF Productive, Implemented, Act
<1>4. ASSUME NEW w, NEW s, NEW t PROVE AwayCapacity(w, t, s)' = AwayCapacity(w, t, s)
  <2>1. Transfer(w, s)' = Transfer(w, s)
    BY SameCalendar
  <2>2. PICK x : x = Transfer(w, s)
    OBVIOUS
  <2>3. Productive(Transfer(w, s))' = Productive(x)
    BY <1>3, <2>1, <2>2 DEF Productive, Implemented, Act
  <2>4. TargetOfTransfer(Transfer(w, s), t)' <=> TargetOfTransfer(x, t)
    BY <1>1, <2>1, <2>2 DEF TargetOfTransfer
  <2> QED BY <2>2, <2>3, <2>4 DEF AwayCapacity
<1>5. ASSUME NEW w, NEW s, NEW t PROVE Capacity(w, t, s)' = Capacity(w, t, s)
  <2>1. /\ Away(w, s)' <=> Away(w, s)
        /\ ReservedWorker(w, Hour(s))' <=> ReservedWorker(w, Hour(s))
        /\ Regular(w, Hour(s))' = Regular(w, Hour(s))
        /\ Overtime(w, Hour(s))' = Overtime(w, Hour(s))
    BY SameCalendar DEF Hour
  <2>2. Cal(w)' = Cal(w) /\ AwayCapacity(w, t, s)' = AwayCapacity(w, t, s)
    BY <1>1, <1>4
  <2> QED BY <2>1, <2>2 DEF Capacity
<1>6. ASSUME NEW w, NEW s, NEW t PROVE CanDo(w, t, s)' <=> CanDo(w, t, s)
  <2>1. /\ Away(w, s)' <=> Away(w, s)
        /\ Transfer(w, s)' = Transfer(w, s)
    BY SameCalendar
  <2>2. TargetOfTransfer(Transfer(w, s), t)' <=> TargetOfTransfer(Transfer(w, s), t)
    BY <1>1, <2>1 DEF TargetOfTransfer
  <2>3. InProject(w, Of(t).project)' <=> InProject(w, Of(t).project)
    BY <1>1 DEF InProject
  <2> QED BY <1>1, <2>1, <2>2, <2>3 DEF CanDo
<1>7. ASSUME NEW w, NEW s PROVE OnOvertime(w, s)' <=> OnOvertime(w, s)
  <2>1. /\ Away(w, s)' <=> Away(w, s)
        /\ Regular(w, Hour(s))' = Regular(w, Hour(s))
        /\ Overtime(w, Hour(s))' = Overtime(w, Hour(s))
    BY SameCalendar DEF Hour
  <2> QED BY <2>1 DEF OnOvertime
<1> QED BY <1>1, <1>5, <1>6, <1>7

\* What was booked stays as it was booked.
LEMMA BookedStays == ASSUME plan' = plan, NEW e, Booked(e) PROVE Booked(e)'
<1>1. PICK w, t, s : w = e.worker /\ t = e.task /\ s = e.slot
  OBVIOUS
<1>2. /\ Capacity(w, t, s)' = Capacity(w, t, s) /\ (CanDo(w, t, s)' <=> CanDo(w, t, s))
      /\ (OnOvertime(w, s)' <=> OnOvertime(w, s)) /\ (Live(t)' <=> Live(t))
      /\ (Away(w, s)' <=> Away(w, s))
  BY SameCapacity, SameCalendar
<1>3. /\ Capacity(e.worker, e.task, e.slot)' = Capacity(w, t, s)
      /\ (CanDo(e.worker, e.task, e.slot)' <=> CanDo(w, t, s))
      /\ (OnOvertime(e.worker, e.slot)' <=> OnOvertime(w, s)) /\ (Live(e.task)' <=> Live(t))
      /\ (Away(e.worker, e.slot)' <=> Away(w, s))
  BY <1>1, <1>2
<1> QED BY <1>1, <1>3 DEF Booked

\* The weather stays as it is.
LEMMA SameWorkability ==
    ASSUME plan' = plan PROVE \A t : \A s : Workability(t, s)' = Workability(t, s)
<1>1. /\ \A t : Of(t)' = Of(t)
      /\ Act' = Act
  BY DEF Of, Act
<1>2. ASSUME NEW t, NEW s PROVE Forecast(t, s)' = Forecast(t, s)
  BY <1>1 DEF Forecast, At
<1> QED BY <1>1, <1>2 DEF Workability

\* An action that was accepted stays so.
LEMMA AllowedStays == ASSUME plan' = plan, Allowed PROVE Allowed'
<1>1. /\ Act' = Act /\ \A w : Cal(w)' = Cal(w)
      /\ \A x : Implemented(x)' <=> Implemented(x)
  BY DEF Act, Cal, Implemented
<1>2. \A t : Of(t)' = Of(t)
  BY DEF Of
<1>3. \A x : Clipped(x)' = Clipped(x) /\ Productive(x)' = Productive(x) /\ (Over(x)' <=> Over(x))
  BY DEF Clipped, Productive, Over, Implemented, Act
<1>4. \A x : (Useful(x)' <=> Useful(x))
  BY DEF Useful, Over, Clipped, Implemented, Act, FrictionKnown, Productive
<1>5. ASSUME NEW w, NEW i PROVE CalendarCovers(w, i)' <=> CalendarCovers(w, i)
  <2>1. \A h : Regular(w, h)' = Regular(w, h) /\ Overtime(w, h)' = Overtime(w, h)
    BY SameCalendar
  <2> QED BY <2>1 DEF CalendarCovers
<1>6. \A w : \A i : ReservedWorker(w, i)' <=> ReservedWorker(w, i)
  BY DEF ReservedWorker
<1>7. \A w : \A p : InProject(w, p)' <=> InProject(w, p)
  BY <1>1 DEF InProject
<1>8. ASSUME NEW t \in Range(Act.transfers) PROVE TransferAllowed(t)'
  <2>1. /\ CalendarCovers(t.worker, Clipped(t))' <=> CalendarCovers(t.worker, Clipped(t))
        /\ ReservedWorker(t.worker, Clipped(t))' <=> ReservedWorker(t.worker, Clipped(t))
    <3>1. PICK c : c = Clipped(t) /\ c = Clipped(t)'
      BY <1>3
    <3>2. /\ CalendarCovers(t.worker, c)' <=> CalendarCovers(t.worker, c)
          /\ ReservedWorker(t.worker, c)' <=> ReservedWorker(t.worker, c)
      BY <1>5, <1>6
    <3>3. CalendarCovers(t.worker, Clipped(t))' <=> CalendarCovers(t.worker, c)'
      BY <3>1 DEF CalendarCovers, Regular, Overtime
    <3>4. ReservedWorker(t.worker, Clipped(t))' <=> ReservedWorker(t.worker, c)'
      BY <3>1 DEF ReservedWorker
    <3> QED BY <3>1, <3>2, <3>3, <3>4
  <2>2. TransferAllowed(t)
    BY DEF Allowed
  <2> QED BY <1>1, <1>2, <1>3, <1>4, <1>7, <2>1, <2>2 DEF TransferAllowed
<1>9. Transfers' = Transfers
  BY <1>1, <1>4 DEF Transfers
<1>10. ASSUME NEW o \in Act.overtime PROVE (OvertimeAllowed(o) /\ WithinLimit(o.worker))'
  <2>1. OvertimeAllowed(o) /\ WithinLimit(o.worker)
    BY DEF Allowed
  <2>2. ReservedWorker(o.worker, Clipped(o))' <=> ReservedWorker(o.worker, Clipped(o))
    BY <1>3 DEF ReservedWorker
  <2>3. OvertimeAllowed(o)'
    BY <1>1, <1>3, <1>9, <2>1, <2>2 DEF OvertimeAllowed
  <2>4. OvertimeOf(o.worker)' = OvertimeOf(o.worker)
    BY <1>1, <1>3 DEF OvertimeOf
  <2>5. WithinLimit(o.worker)'
    BY <1>1, <1>3, <2>1, <2>4 DEF WithinLimit
  <2> QED BY <2>3, <2>5
<1> QED BY <1>1, <1>8, <1>10 DEF Allowed

\* The work done on a task is the same while nobody works on it.
LEMMA DoneStays ==
    ASSUME plan' = plan, NEW t, {f \in work : f.task = t}' = {f \in work : f.task = t}
    PROVE  Done(t)' = Done(t)
<1>1. \A s : Workability(t, s)' = Workability(t, s)
  BY SameWorkability
<1>2. PICK A : A = {f \in work : f.task = t} /\ A = {f \in work : f.task = t}'
  OBVIOUS
<1>3. [e \in A |-> e.ticks * Workability(t, e.slot)'] = [e \in A |-> e.ticks * Workability(t, e.slot)]
  BY <1>1
<1>4. Done(t) = Total([e \in A |-> e.ticks * Workability(t, e.slot)])
  BY <1>2 DEF Done
<1>5. Done(t)' = Total([e \in A |-> e.ticks * Workability(t, e.slot)'])
  BY <1>2 DEF Done
<1> QED BY <1>3, <1>4, <1>5

\* The work done on a task is a number.
LEMMA DoneIsWhole ==
    ASSUME ScheduleConstants, IsPlan(plan), Allowed, WorkIs, NEW t \in Task
    PROVE  Done(t) \in Nat
<1>1. PICK A, g : A = {f \in work : f.task = t} /\ g = [e \in A |-> e.ticks * Workability(t, e.slot)]
  OBVIOUS
<1>2. IsFiniteSet(A) /\ A \subseteq work
  BY <1>1, FS_Subset DEF WorkIs
<1>3. ASSUME NEW e \in A PROVE g[e] \in Nat
  <2>1. e.worker \in Worker /\ e.slot \in Slots /\ Booked(e)
    BY <1>2, <1>3 DEF WorkIs
  <2>2. e.ticks \in Nat /\ Workability(t, e.slot) \in Nat
    BY <2>1, TicksAre, WorkabilityIs
  <2>3. \A m, n \in Nat : m * n \in Nat
    OBVIOUS
  <2> QED BY <1>1, <2>2, <2>3
<1>4. SumOver(g, A) \in Nat
  <2>1. A \in SUBSET A
    OBVIOUS
  <2> QED BY <1>2, <1>3, <2>1, SumPart
<1>5. g = [e \in A |-> g[e]]
  BY <1>1
<1> QED BY <1>1, <1>4, <1>5, TotalIs DEF Done

\* A crew's output is what is added to the work done on the task.
LEMMA OutputCounts ==
    ASSUME ScheduleConstants, IsPlan(plan), Allowed, WorkIs, NEW t \in Task, plan' = plan,
           slot \in Slots, IsFiniteSet(Crew(t)), Crew(t) \subseteq Worker,
           \A w \in Crew(t) : Capacity(w, t, slot) \in Nat,
           \A e \in work : ~(e.task = t /\ e.slot = slot),
           work' = work \cup {Entry(w, t) : w \in Crew(t)}
    PROVE  Output(t) \in Nat /\ Done(t)' = Done(t) + Output(t)
<1>a. PICK C, A, n : C = Crew(t) /\ A = {e \in work : e.task = t} /\ n = Workability(t, slot)
  OBVIOUS
<1>b. PICK c, h : c = [w \in C |-> Capacity(w, t, slot)] /\ h = [w \in C |-> Entry(w, t)]
  OBVIOUS
<1>c. PICK N : N = {h[w] : w \in C}
  OBVIOUS
<1>d. PICK f : f = [e \in A \cup N |-> e.ticks * Workability(t, e.slot)]
  OBVIOUS
<1>1. /\ C = Crew(t) /\ A = {e \in work : e.task = t} /\ n = Workability(t, slot)
      /\ c = [w \in C |-> Capacity(w, t, slot)] /\ h = [w \in C |-> Entry(w, t)]
      /\ N = {h[w] : w \in C}
      /\ f = [e \in A \cup N |-> e.ticks * Workability(t, e.slot)]
  BY <1>a, <1>b, <1>c, <1>d
<1>2. /\ n \in Nat /\ IsFiniteSet(C) /\ IsFiniteSet(A) /\ A \subseteq work
      /\ \A w \in C : c[w] = Capacity(w, t, slot) /\ h[w] = Entry(w, t) /\ c[w] \in Nat
  BY <1>1, WorkabilityIs, FS_Subset DEF WorkIs
<1>3. \A w : Entry(w, t).worker = w /\ Entry(w, t).task = t /\ Entry(w, t).slot = slot
             /\ Entry(w, t).ticks = Capacity(w, t, slot)
  BY DEF Entry
<1>4. \A v, w \in C : h[v] = h[w] => v = w
  BY <1>2, <1>3
<1>5. IsFiniteSet(N)
  BY <1>1, <1>2, ImageIsFinite
<1>6. \A e \in N : e.task = t /\ e.slot = slot /\ \E w \in C : e = h[w] /\ e.ticks = c[w]
  BY <1>1, <1>2, <1>3
<1>7. A \cap N = {}
  BY <1>2, <1>6
<1>8. \A x, y \in Nat : x * y \in Nat
  OBVIOUS
<1>9. \A e \in A \cup N : f[e] = e.ticks * Workability(t, e.slot)
  BY <1>1
<1>10. ASSUME NEW e \in A \cup N PROVE f[e] \in Int
  <2>1. CASE e \in A
    <3>1. e.worker \in Worker /\ e.slot \in Slots /\ Booked(e)
      BY <1>2, <2>1 DEF WorkIs
    <3>2. e.ticks \in Nat /\ Workability(t, e.slot) \in Nat
      BY <3>1, TicksAre, WorkabilityIs
    <3>3. e.ticks * Workability(t, e.slot) \in Nat
      BY <1>8, <3>2
    <3> QED BY <1>9, <3>3
  <2>2. CASE e \in N
    <3>1. e.ticks \in Nat /\ Workability(t, e.slot) = n
      BY <1>1, <1>2, <1>6, <2>2
    <3>2. e.ticks * Workability(t, e.slot) \in Nat
      BY <1>2, <1>8, <3>1
    <3> QED BY <1>9, <3>2
  <2> QED BY <2>1, <2>2
<1>11. SumOver(f, A \cup N) = SumOver(f, A) + SumOver(f, N)
  BY <1>2, <1>5, <1>7, <1>10, SumSplit
<1>12. PICK g : g = [w \in C |-> c[w] * n]
  OBVIOUS
<1>13. ASSUME NEW w \in C PROVE f[h[w]] = g[w] /\ g[w] \in Int /\ c[w] \in Int /\ g[w] = c[w] * n
  <2>1. h[w] \in N /\ h[w].ticks = c[w] /\ h[w].slot = slot
    BY <1>1, <1>2, <1>3, <1>13
  <2>2. f[h[w]] = c[w] * n
    BY <1>1, <1>9, <2>1
  <2>3. c[w] \in Nat /\ c[w] * n \in Nat
    BY <1>2, <1>8
  <2> QED BY <1>12, <2>2, <2>3
<1>14. SumOver(g, C) = SumOver(f, N)
  <2>1. \A w \in C : f[h[w]] = g[w] /\ g[w] \in Int
    BY <1>13
  <2>2. IsFiniteSet(C) /\ N = {h[w] : w \in C}
    BY <1>1, <1>2
  <2>3. SumOver(g, C) = SumOver(f, {h[w] : w \in C})
    BY <1>4, <2>1, <2>2, SumRenamed
  <2> QED BY <2>2, <2>3
<1>15. SumOver(g, C) = SumOver(c, C) * n
  BY <1>2, <1>13, SumTimes
<1>16. Output(t) = SumOver(c, C) * n
  <2>1. c = [w \in C |-> c[w]]
    BY <1>1
  <2> QED BY <1>1, <2>1, TotalIs DEF Output
<1>17. Output(t) \in Nat
  <2>1. SumOver(c, C) \in Nat
    <3>1. C \in SUBSET C
      OBVIOUS
    <3> QED BY <1>2, <3>1, SumPart
  <2> QED BY <1>2, <1>8, <1>16, <2>1
<1>18. Done(t) = SumOver(f, A)
  <2>1. [e \in A |-> e.ticks * Workability(t, e.slot)] = [e \in A |-> f[e]]
    BY <1>9
  <2> QED BY <1>1, <2>1 DEF Done, SumOver
<1>19. Done(t)' = SumOver(f, A \cup N)
  <2>1. \A s : Workability(t, s)' = Workability(t, s)
    BY SameWorkability
  <2>2. N = {Entry(w, t) : w \in C}
    BY <1>1, <1>2
  <2>3. {e \in work' : e.task = t} = A \cup N
    BY <1>1, <1>6, <2>2
  <2>4. [e \in A \cup N |-> e.ticks * Workability(t, e.slot)'] = [e \in A \cup N |-> f[e]]
    BY <1>9, <2>1
  <2>5. Done(t)' = Total([e \in {d \in work' : d.task = t} |-> e.ticks * Workability(t, e.slot)'])
    BY DEF Done
  <2> QED BY <2>3, <2>4, <2>5 DEF SumOver
<1> QED BY <1>11, <1>14, <1>15, <1>16, <1>17, <1>18, <1>19

-----------------------------------------------------------------------------
\* Where an assumption lets somebody work elsewhere are finitely many windows.
LEMMA WindowsAre ==
    ASSUME ScheduleConstants, IsPlan(plan), NEW w \in Worker, NEW a \in Lending
    PROVE  IsFiniteSet(Windows(w, a)) /\ \A i \in Windows(w, a) : i[1] \in Int /\ i[2] \in Int
<1>1. /\ Horizon \in Nat /\ TicksPerDay \in Nat \ {0} /\ a.starts \in Int /\ a.ends \in Int
      /\ Cal(w).from \in Int /\ Cal(w).to \in Int /\ Cal(w).offset \in Int
  BY DEF ScheduleConstants, Lending, IsPlan, IsWorker, Cal
<1>2. CASE a.starts < Horizon /\ a.ends > 0 /\ (a.starts # 0 \/ a.ends # Horizon)
  <2>1. PICK i : i = <<Max2(a.starts, 0), Min2(a.ends, Horizon)>>
    OBVIOUS
  <2>2. Windows(w, a) = {i}
    BY <1>2, <2>1 DEF Windows
  <2>3. i[1] \in Int /\ i[2] \in Int
    BY <1>1, <2>1 DEF Max2, Min2
  <2>4. IsFiniteSet({i})
    BY FS_Singleton
  <2> QED BY <2>2, <2>3, <2>4
<1>3. CASE ~(a.starts < Horizon /\ a.ends > 0 /\ (a.starts # 0 \/ a.ends # Horizon))
  <2>1. PICK first, last : /\ first = Cal(w).offset \div TicksPerDay
                           /\ last = (Horizon + Cal(w).offset) \div TicksPerDay
    OBVIOUS
  <2>2. first \in Int /\ last \in Int
    BY <1>1, <2>1
  <2>3. PICK h : h = [d \in first..last |-> <<Max2(ShiftOf(w, d).starts, 0), Min2(ShiftOf(w, d).ends, Horizon)>>]
    OBVIOUS
  <2>4. \E D \in SUBSET (first..last) : Windows(w, a) = {h[d] : d \in D}
    <3>1. PICK D : D = {d \in first..last : d % 7 \in Cal(w).weekdays /\ h[d][1] < h[d][2]}
      OBVIOUS
    <3>2. PICK E : E = {e \in D : Cardinality({f \in D : f < e}) < MaxWindows}
      OBVIOUS
    <3>3. Windows(w, a) = {h[d] : d \in E}
      BY <1>3, <2>1, <2>3, <3>1, <3>2 DEF Windows
    <3> QED BY <3>1, <3>2, <3>3
  <2>5. PICK D \in SUBSET (first..last) : Windows(w, a) = {h[d] : d \in D}
    BY <2>4
  <2>6. IsFiniteSet(D)
    BY <2>2, FS_Interval, FS_Subset
  <2>7. IsFiniteSet(Windows(w, a))
    BY <2>5, <2>6, ImageIsFinite
  <2>8. ASSUME NEW d \in first..last PROVE h[d][1] \in Int /\ h[d][2] \in Int
    <3>1. d \in Int /\ d * TicksPerDay \in Int
      BY <1>1, <2>2, <2>8
    <3>2. ShiftOf(w, d).starts \in Int /\ ShiftOf(w, d).ends \in Int
      <4>1. PICK m : m = d * TicksPerDay
        OBVIOUS
      <4> QED BY <1>1, <3>1, <4>1 DEF ShiftOf
    <3> QED BY <1>1, <2>3, <2>8, <3>2 DEF Max2, Min2
  <2> QED BY <2>5, <2>7, <2>8
<1> QED BY <1>2, <1>3

\* What the generators move are finitely many transfers.
LEMMA TransfersProposed ==
    ASSUME ScheduleConstants, IsPlan(plan), HasLending(plan), NEW p \in Project
    PROVE  /\ \A a \in TransferParts(p) : a.transfers \subseteq Move /\ a.overtime = {} /\ a.weather = {}
           /\ IsFiniteSet(UNION {a.transfers : a \in TransferParts(p)})
<1>1. ASSUME NEW w \in Worker, NEW a \in plan.assumptions, CanLend(w, a, p)
      PROVE  /\ \A x \in LentBy(w, a, p) : x.transfers \subseteq Move /\ x.overtime = {} /\ x.weather = {}
             /\ IsFiniteSet(UNION {x.transfers : x \in LentBy(w, a, p)})
  <2>1. a \in Lending /\ a.from \in Project /\ a.out \in Moment /\ a.back \in Moment /\ a.setup \in Moment
    BY DEF HasLending, Lending
  <2>2. PICK W, m : /\ W = (IF SkilledFor(w, p) = {} THEN {} ELSE Windows(w, a))
                    /\ m = [i \in W |-> [worker |-> w, from |-> a.from, to |-> p, starts |-> i[1], ends |-> i[2],
                                          out |-> a.out, back |-> a.back, setup |-> a.setup,
                                          targets |-> SkilledFor(w, p)]]
    <3>1. PICK W : W = (IF SkilledFor(w, p) = {} THEN {} ELSE Windows(w, a))
      OBVIOUS
    <3> QED BY <3>1
  <2>3. IsFiniteSet(W) /\ \A i \in W : i[1] \in Int /\ i[2] \in Int
    BY <2>1, <2>2, WindowsAre, FS_EmptySet
  <2>4. \A i \in W : m[i] \in Move
    <3>1. SkilledFor(w, p) \subseteq Task
      BY DEF SkilledFor, LiveIn
    <3> QED BY <2>1, <2>2, <2>3, <3>1 DEF Move
  <2>5. \A x \in LentBy(w, a, p) : \E i \in W : x = [NoAction EXCEPT !.transfers = {m[i]}]
    BY <2>2 DEF LentBy
  <2>6. \A x \in LentBy(w, a, p) : \E i \in W : x.transfers = {m[i]} /\ x.overtime = {} /\ x.weather = {}
    BY <2>5 DEF NoAction
  <2>7. UNION {x.transfers : x \in LentBy(w, a, p)} \subseteq {m[i] : i \in W}
    BY <2>6
  <2>8. IsFiniteSet({m[i] : i \in W})
    BY <2>3, ImageIsFinite
  <2> QED BY <2>4, <2>6, <2>7, <2>8, FS_Subset
<1>2. PICK A : A = [w \in Worker |-> {b \in plan.assumptions : CanLend(w, b, p)}]
  OBVIOUS
<1>3. PICK L : L = [w \in Worker |-> [a \in plan.assumptions |-> UNION {x.transfers : x \in LentBy(w, a, p)}]]
  OBVIOUS
<1>4. PICK V : V = [w \in Worker |-> UNION {L[w][a] : a \in A[w]}]
  OBVIOUS
<1>5. ASSUME NEW w \in Worker PROVE IsFiniteSet(V[w])
  <2>1. IsFiniteSet(A[w]) /\ A[w] \subseteq plan.assumptions
    BY <1>2, FS_Subset DEF HasLending
  <2>2. \A a \in A[w] : IsFiniteSet(L[w][a])
    BY <1>1, <1>2, <1>3
  <2>3. PICK f : f = L[w]
    OBVIOUS
  <2>4. IsFiniteSet({f[a] : a \in A[w]})
    BY <2>1, ImageIsFinite
  <2>5. IsFiniteSet(UNION {f[a] : a \in A[w]})
    BY <2>2, <2>3, <2>4, FS_UNION
  <2> QED BY <1>4, <2>3, <2>5
<1>6. IsFiniteSet(UNION {V[w] : w \in Worker})
  <2>1. IsFiniteSet({V[w] : w \in Worker})
    BY ImageIsFinite DEF ScheduleConstants
  <2> QED BY <1>5, <2>1, FS_UNION
<1>7. ASSUME NEW x \in TransferParts(p)
      PROVE  \E w \in Worker : \E a \in A[w] : x \in LentBy(w, a, p)
  BY <1>2, <1>7 DEF TransferParts
<1>8. ASSUME NEW x \in TransferParts(p)
      PROVE  /\ x.transfers \subseteq Move /\ x.overtime = {} /\ x.weather = {}
             /\ x.transfers \subseteq UNION {V[w] : w \in Worker}
  <2>0. PICK w \in Worker : \E a \in A[w] : x \in LentBy(w, a, p)
    BY <1>7, <1>8
  <2>1. PICK a \in A[w] : x \in LentBy(w, a, p)
    BY <2>0
  <2>2. a \in plan.assumptions /\ CanLend(w, a, p)
    BY <1>2
  <2>3. x.transfers \subseteq L[w][a]
    BY <1>3, <2>1, <2>2
  <2>4. L[w][a] \subseteq V[w]
    BY <1>4
  <2> QED BY <1>1, <2>1, <2>2, <2>3, <2>4
<1>9. UNION {x.transfers : x \in TransferParts(p)} \subseteq UNION {V[w] : w \in Worker}
  BY <1>8
<1> QED BY <1>6, <1>8, <1>9, FS_Subset

\* What they ask for are finitely many hours of overtime.
LEMMA OvertimeProposed ==
    ASSUME ScheduleConstants, IsPlan(plan), NEW p \in Project
    PROVE  /\ \A a \in OvertimeParts(p) : a.overtime \subseteq OvertimeItem /\ a.transfers = {} /\ a.weather = {}
           /\ IsFiniteSet(UNION {a.overtime : a \in OvertimeParts(p)})
<1>1. PICK h : h = [w \in Worker |-> [o \in Cal(w).permitted |->
                      [worker |-> w, starts |-> Max2(o.starts, 0),
                       ends |-> Max2(o.starts, 0) + OvertimeLength(w, o)]]]
  OBVIOUS
<1>2. ASSUME NEW w \in Worker PROVE IsFiniteSet({h[w][o] : o \in Cal(w).permitted})
  <2>1. IsFiniteSet(Cal(w).permitted)
    BY DEF IsPlan, IsWorker, Cal
  <2>2. PICK f : f = h[w]
    OBVIOUS
  <2> QED BY <2>1, <2>2, ImageIsFinite
<1>3. ASSUME NEW w \in Worker, NEW o \in Cal(w).permitted PROVE h[w][o] \in OvertimeItem
  <2>1. o.starts \in Int /\ o.ends \in Int /\ Horizon \in Nat /\ Cal(w).maxOvertime \in Level
    BY DEF IsPlan, IsWorker, Cal, ScheduleConstants
  <2>2. Max2(o.starts, 0) \in Int /\ Min2(o.ends, Horizon) \in Int
    BY <2>1 DEF Max2, Min2
  <2>3. OvertimeLength(w, o) \in Int
    BY <2>1, <2>2 DEF OvertimeLength, Min2, Level
  <2> QED BY <1>1, <2>2, <2>3 DEF OvertimeItem
<1>4. PICK V : V = [w \in Worker |-> {h[w][o] : o \in Cal(w).permitted}]
  OBVIOUS
<1>5. IsFiniteSet(UNION {V[w] : w \in Worker})
  <2>1. IsFiniteSet({V[w] : w \in Worker})
    BY ImageIsFinite DEF ScheduleConstants
  <2>2. \A w \in Worker : IsFiniteSet(V[w])
    BY <1>2, <1>4
  <2> QED BY <2>1, <2>2, FS_UNION
<1>6. ASSUME NEW a \in OvertimeParts(p)
      PROVE  \E w \in Worker : \E o \in Cal(w).permitted : a = [NoAction EXCEPT !.overtime = {h[w][o]}]
  BY <1>1, <1>6 DEF OvertimeParts
<1>7. ASSUME NEW a \in OvertimeParts(p)
      PROVE  /\ a.overtime \subseteq OvertimeItem /\ a.transfers = {} /\ a.weather = {}
             /\ a.overtime \subseteq UNION {V[w] : w \in Worker}
  <2>0. PICK w \in Worker : \E o \in Cal(w).permitted : a = [NoAction EXCEPT !.overtime = {h[w][o]}]
    BY <1>6, <1>7
  <2>1. PICK o \in Cal(w).permitted : a = [NoAction EXCEPT !.overtime = {h[w][o]}]
    BY <2>0
  <2>2. a.overtime = {h[w][o]} /\ a.transfers = {} /\ a.weather = {}
    BY <2>1 DEF NoAction
  <2>3. h[w][o] \in V[w]
    BY <1>4
  <2> QED BY <1>3, <2>2, <2>3
<1>8. UNION {a.overtime : a \in OvertimeParts(p)} \subseteq UNION {V[w] : w \in Worker}
  BY <1>7
<1> QED BY <1>5, <1>7, <1>8, FS_Subset

\* Of the other families nobody is moved or asked for overtime.
LEMMA OthersProposed ==
    ASSUME NEW p, NEW a \in ShiftParts \cup PriorityParts(p) \cup MaterialParts \cup WeatherParts
    PROVE  a.transfers = {} /\ a.overtime = {} /\ \A x \in a.weather : x.capacity \in Level
<1>1. CASE a \in ShiftParts
  <2>1. \E x : a = [NoAction EXCEPT !.shifts = x]
    BY <1>1 DEF ShiftParts
  <2> QED BY <2>1 DEF NoAction
<1>2. CASE a \in PriorityParts(p)
  <2>1. \E x : a = [NoAction EXCEPT !.projectOrder = x]
    BY <1>2 DEF PriorityParts
  <2> QED BY <2>1 DEF NoAction
<1>3. CASE a \in MaterialParts
  <2>1. \E x : a = [NoAction EXCEPT !.materials = x]
    BY <1>3 DEF MaterialParts
  <2> QED BY <2>1 DEF NoAction
<1>4. CASE a \in WeatherParts
  <2>1. PICK r : r = [t \in Task |->
            [task |-> t, project |-> Of(t).project, starts |-> FirstStart(t, 0),
             ends |-> FirstStart(t, 0) + Of(t).plannedEnd - Of(t).planned,
             confirmed |-> FALSE, capacity |-> None]]
    OBVIOUS
  <2>2. PICK t \in Task : a = [NoAction EXCEPT !.weather = {r[t]}]
    BY <1>4, <2>1 DEF WeatherParts
  <2>3. r[t].capacity = None
    BY <2>1
  <2>4. a.weather = {r[t]} /\ a.transfers = {} /\ a.overtime = {}
    BY <2>2 DEF NoAction
  <2> QED BY <2>3, <2>4 DEF Level
<1> QED BY <1>1, <1>2, <1>3, <1>4

\* A bundle moves finitely many people and asks for finitely many hours.
LEMMA BundlesAre ==
    ASSUME ScheduleConstants, IsPlan(plan), HasLending(plan), NEW p \in Project, NEW a \in Bundles(p)
    PROVE  /\ a.transfers \subseteq Move /\ IsFiniteSet(a.transfers)
           /\ a.overtime \subseteq OvertimeItem /\ IsFiniteSet(a.overtime)
           /\ \A x \in a.weather : x.capacity \in Level
<1>1. PICK ps \in SUBSET Elementary(p) : a = Bundle(ps)
  BY DEF Bundles, kSubset
<1>2. /\ a.transfers = UNION {x.transfers : x \in ps} /\ a.overtime = UNION {x.overtime : x \in ps}
      /\ a.weather = UNION {x.weather : x \in ps}
  BY <1>1 DEF Bundle
<1>3. PICK M, O : /\ M = UNION {x.transfers : x \in TransferParts(p)}
                  /\ O = UNION {x.overtime : x \in OvertimeParts(p)}
  OBVIOUS
<1>4. IsFiniteSet(M) /\ IsFiniteSet(O)
  BY <1>3, TransfersProposed, OvertimeProposed
<1>5. ASSUME NEW x \in ps
      PROVE  /\ x.transfers \subseteq Move /\ x.transfers \subseteq M
             /\ x.overtime \subseteq OvertimeItem /\ x.overtime \subseteq O
             /\ \A y \in x.weather : y.capacity \in Level
  <2>1. CASE x \in TransferParts(p)
    <3>1. x.transfers \subseteq Move /\ x.overtime = {} /\ x.weather = {}
      BY <2>1, TransfersProposed
    <3> QED BY <1>3, <2>1, <3>1
  <2>2. CASE x \in OvertimeParts(p)
    <3>1. x.overtime \subseteq OvertimeItem /\ x.transfers = {} /\ x.weather = {}
      BY <2>2, OvertimeProposed
    <3> QED BY <1>3, <2>2, <3>1
  <2>3. CASE x \in ShiftParts \cup PriorityParts(p) \cup MaterialParts \cup WeatherParts
    <3>1. x.transfers = {} /\ x.overtime = {} /\ \A y \in x.weather : y.capacity \in Level
      BY <2>3, OthersProposed
    <3> QED BY <3>1
  <2>4. x \in Elementary(p)
    BY <1>1, <1>5
  <2> QED BY <2>1, <2>2, <2>3, <2>4 DEF Elementary
<1>6. a.transfers \subseteq Move /\ a.transfers \in SUBSET M
  BY <1>2, <1>5
<1>7. a.overtime \subseteq OvertimeItem /\ a.overtime \in SUBSET O
  BY <1>2, <1>5
<1>8. \A y \in a.weather : y.capacity \in Level
  BY <1>2, <1>5
<1> QED BY <1>4, <1>6, <1>7, <1>8, FS_Subset

\* Laid over what was implemented, it is an action again.
LEMMA ComposedIs ==
    ASSUME ScheduleConstants, IsPlan(plan), HasLending(plan), NEW p \in Project, NEW a \in Bundles(p),
           NEW moves \in InOrder(a.transfers \ Range(Act.transfers))
    PROVE  IsAction(Compose(a, moves))
<1>1. /\ a.transfers \subseteq Move /\ IsFiniteSet(a.transfers)
      /\ a.overtime \subseteq OvertimeItem /\ IsFiniteSet(a.overtime)
      /\ \A x \in a.weather : x.capacity \in Level
  BY BundlesAre
<1>2. IsAction(Act)
  BY DEF IsPlan, Act
<1>3. PICK T : T = a.transfers \ Range(Act.transfers)
  OBVIOUS
<1>4. T \subseteq Move /\ IsFiniteSet(T)
  BY <1>1, <1>3, FS_Difference
<1>5. PICK n : n = Cardinality(T)
  OBVIOUS
<1>6. n \in Nat
  BY <1>4, <1>5, FS_CardinalityType
<1>7. moves \in [1..n -> T]
  BY <1>3, <1>5 DEF InOrder, SetToSeqs
<1>8. moves \in Seq(Move)
  BY <1>4, <1>6, <1>7
<1>9. Act.transfers \o moves \in Seq(Move)
  BY <1>2, <1>8 DEF IsAction
<1>10. IsFiniteSet(Act.overtime \cup a.overtime)
  BY <1>1, <1>2, FS_Union DEF IsAction
<1>11. /\ Compose(a, moves).transfers = Act.transfers \o moves
       /\ Compose(a, moves).overtime = Act.overtime \cup a.overtime
       /\ Compose(a, moves).weather = Act.weather \cup a.weather
  BY DEF Compose
<1> QED BY <1>1, <1>2, <1>9, <1>10, <1>11 DEF IsAction

-----------------------------------------------------------------------------
\* What holds of the hours in every state.
HInv == /\ IsPlan(plan) /\ HasLending(plan) /\ phase \in Phases
        /\ phase \in {"run", "done"} => Allowed
        /\ IsFiniteSet(work) /\ (\A e \in work : Booked(e))
        /\ remaining \in [Task -> Nat]
        /\ EffortCounted

\* It holds before anything was done.
LEMMA InitHInv == ASSUME RecoveryConstants, ProposeInit PROVE HInv
<1>1. IsPlan(plan) /\ HasLending(plan)
  BY DEF RecoveryConstants, ScheduleConstants, ProposeInit
<1>2. phase = "propose" /\ work = {} /\ remaining \in [Task -> Nat]
  BY DEF ProposeInit
<1>3. IsFiniteSet(work)
  BY <1>2, FS_EmptySet
<1> QED BY <1>1, <1>2, <1>3 DEF HInv, EffortCounted, Phases

\* Before the hours begin nothing was worked, and an action stays one.
LEMMA EarlyHours ==
    ASSUME ScheduleConstants, SInv, HInv, AsGiven \/ (\E p \in Project : Propose(p)) \/ Reject PROVE HInv'
<1>1. /\ work' = work /\ remaining' = remaining /\ phase' \in {"prepare", "rejected"}
      /\ phase \in {"propose", "prepare"}
  BY DEF AsGiven, Propose, Reject
<1>2. work = {}
  BY <1>1 DEF SInv, Quiet
<1>3. plan' = plan \/ \E x : IsAction(x) /\ plan' = [plan EXCEPT !.action = x]
  <2>1. CASE \E p \in Project : Propose(p)
    <3>1. PICK p \in Project : Propose(p)
      BY <2>1
    <3>2. PICK a \in Bundles(p) : \E moves \in InOrder(a.transfers \ Range(Act.transfers)) :
             plan' = plan \/ plan' = [plan EXCEPT !.action = Compose(a, moves)]
      BY <3>1 DEF Propose
    <3>3. PICK moves \in InOrder(a.transfers \ Range(Act.transfers)) :
             plan' = plan \/ plan' = [plan EXCEPT !.action = Compose(a, moves)]
      BY <3>2
    <3>4. IsAction(Compose(a, moves))
      BY ComposedIs DEF HInv
    <3> QED BY <3>3, <3>4
  <2>2. CASE AsGiven \/ Reject
    BY <2>2 DEF AsGiven, Reject
  <2> QED BY <2>1, <2>2
<1>4. IsPlan(plan)' /\ HasLending(plan)'
  <2>1. CASE plan' = plan
    BY <2>1 DEF HInv, IsPlan, HasLending
  <2>2. CASE \E x : IsAction(x) /\ plan' = [plan EXCEPT !.action = x]
    <3>1. PICK x : IsAction(x) /\ plan' = [plan EXCEPT !.action = x]
      BY <2>2
    <3>2. /\ plan'.task = plan.task /\ plan'.project = plan.project /\ plan'.worker = plan.worker
          /\ plan'.assumptions = plan.assumptions /\ plan'.action = x /\ DOMAIN plan' = DOMAIN plan
      BY <3>1 DEF HInv, IsPlan
    <3> QED BY <3>1, <3>2 DEF HInv, IsPlan, HasLending
  <2> QED BY <1>3, <2>1, <2>2
<1> QED BY <1>1, <1>2, <1>4 DEF HInv, EffortCounted, Phases

\* The hours begin: everything is left to do.
LEMMA StartHours == ASSUME ScheduleConstants, SInv, HInv, Start PROVE HInv'
<1>1. /\ plan' = plan /\ work' = work /\ work = {} /\ phase' = "run" /\ Acceptable
      /\ remaining' = [t \in Task |-> IF Live(t) THEN Of(t).effort ELSE 0]
      /\ finish' = [t \in Task |-> StartFinish(t)]
  BY DEF Start, SInv, Quiet
<1>2. Allowed'
  BY <1>1, AllowedStays DEF Acceptable, Allowed
<1>3. \A t \in Task : Of(t).effort \in Nat
  BY DEF HInv, IsPlan, IsTask, Of
<1>4. ASSUME NEW t \in Task, Live(t)', Of(t).effort' > 0
      PROVE  /\ remaining'[t] = Max2(0, Of(t)'.effort - Done(t)')
             /\ finish'[t] # None <=> Done(t)' >= Of(t)'.effort
  <2>1. Of(t)' = Of(t) /\ Live(t)
    BY <1>1, <1>4 DEF Of, Live
  <2>2. Done(t) = 0
    <3>1. PICK A, g : A = {f \in work : f.task = t} /\ g = [e \in A |-> e.ticks * Workability(t, e.slot)]
      OBVIOUS
    <3>2. A = {} /\ g = [e \in A |-> g[e]]
      BY <1>1, <3>1
    <3> QED BY <3>1, <3>2, TotalIs, SumEmpty DEF Done
  <2>3. Done(t)' = Done(t)
    <3>1. {f \in work : f.task = t}' = {f \in work : f.task = t}
      BY <1>1
    <3> QED BY <1>1, <3>1, DoneStays
  <2>4. remaining'[t] = Of(t).effort /\ Of(t).effort \in Nat /\ Of(t).effort > 0
    BY <1>1, <1>3, <1>4, <2>1
  <2>5. finish'[t] = None
    BY <1>1, <2>1, <2>4 DEF StartFinish, Live
  <2> QED BY <2>1, <2>2, <2>3, <2>4, <2>5 DEF Max2
<1>5. EffortCounted'
  BY <1>4 DEF EffortCounted
<1>6. remaining' \in [Task -> Nat]
  BY <1>1, <1>3
<1>7. IsPlan(plan)' /\ HasLending(plan)'
  BY <1>1 DEF HInv, IsPlan, HasLending
<1> QED BY <1>1, <1>2, <1>5, <1>6, <1>7 DEF HInv, Phases

\* What was worked is, while actions that were accepted are carried out, work as it should be.
LEMMA WorkSound ==
    ASSUME SInv, HInv PROVE WorkIs
  BY DEF SInv, HInv, Current, Recorded, WorkIs

\* A new hour or the end of the run leaves what was worked as it is.
LEMMA IdleHours == ASSUME SInv, HInv, NextSlot \/ Stop \/ UNCHANGED vars PROVE HInv'
<1>1. /\ plan' = plan /\ work' = work /\ remaining' = remaining /\ finish' = finish
      /\ phase' \in Phases /\ (phase' \in {"run", "done"} => phase \in {"run", "done"})
  BY DEF NextSlot, Stop, vars, HInv, Phases
<1>2. IsPlan(plan)' /\ HasLending(plan)'
  BY <1>1 DEF HInv, IsPlan, HasLending
<1>3. (phase \in {"run", "done"} => Allowed)'
  BY <1>1, AllowedStays DEF HInv
<1>4. \A e \in work : Booked(e)'
  BY <1>1, BookedStays DEF HInv
<1>5. ASSUME NEW t \in Task PROVE Done(t)' = Done(t)
  <2>1. {f \in work : f.task = t}' = {f \in work : f.task = t}
    BY <1>1
  <2> QED BY <1>1, <2>1, DoneStays
<1>6. \A t \in Task : Of(t)' = Of(t) /\ (Live(t)' <=> Live(t))
  BY <1>1 DEF Of, Live
<1>7. EffortCounted'
  <2>1. ASSUME phase' \in {"run", "done"}, NEW t \in Task, Live(t)', Of(t)'.effort > 0
        PROVE  /\ remaining'[t] = Max2(0, Of(t)'.effort - Done(t)')
               /\ finish'[t] # None <=> Done(t)' >= Of(t)'.effort
    <3>1. Live(t) /\ Of(t).effort > 0 /\ phase \in {"run", "done"}
      BY <1>1, <1>6, <2>1
    <3>2. /\ remaining[t] = Max2(0, Of(t).effort - Done(t))
          /\ finish[t] # None <=> Done(t) >= Of(t).effort
      BY <3>1 DEF HInv, EffortCounted
    <3> QED BY <1>1, <1>5, <1>6, <3>2
  <2> QED BY <2>1 DEF EffortCounted
<1> QED BY <1>1, <1>2, <1>3, <1>4, <1>7 DEF HInv

\* Who is in a crew is booked for the hours they have.
LEMMA CrewIsBooked ==
    ASSUME ScheduleConstants, IsPlan(plan), Allowed, NEW t \in Task, Live(t), slot \in Slots,
           NEW w \in Crew(t), Crew(t) \subseteq Worker
    PROVE  Booked(Entry(w, t)) /\ Capacity(w, t, slot) \in Nat
<1>1. Crew(t) \subseteq Free(t)
  BY DEF Crew, Lowest
<1>2. Capacity(w, t, slot) > 0 /\ CanDo(w, t, slot) /\ w \in Worker
  BY <1>1 DEF Free, Able
<1>3. PICK e : e = Entry(w, t)
  OBVIOUS
<1>4. /\ e.worker = w /\ e.task = t /\ e.slot = slot /\ e.ticks = Capacity(w, t, slot)
      /\ e.overtime = OnOvertime(w, slot) /\ e.away = Away(w, slot)
  BY <1>3 DEF Entry
<1>5. Booked(e)
  BY <1>2, <1>4 DEF Booked
<1>6. e.ticks \in Nat
  BY <1>2, <1>4, <1>5, TicksAre
<1> QED BY <1>3, <1>4, <1>5, <1>6

\* A placement: either nothing is worked, or the crew's output is what is taken off.
LEMMA PlaceWork ==
    ASSUME SInv, NEW t \in Task, Place(t)
    PROVE  \/ work' = work /\ remaining' = remaining /\ finish' = finish
           \/ /\ ~(Cardinality(Free(t)) < Of(t).minCrew)
              /\ work' = work \cup {Entry(w, t) : w \in Crew(t)}
              /\ remaining' = [remaining EXCEPT ![t] = remaining'[t]]
              /\ remaining'[t] = Max2(0, remaining[t] - Output(t))
              /\ finish'[t] = IF Output(t) >= remaining[t] THEN Hour(slot).ends ELSE finish[t]
              /\ \A u \in Task \ {t} : remaining'[u] = remaining[u] /\ finish'[u] = finish[u]
<1>1. DOMAIN remaining = Task /\ DOMAIN finish = Task
  BY DEF SInv
<1>2. CASE Cardinality(Free(t)) < Of(t).minCrew \/ Output(t) = 0
  BY <1>2 DEF Place
<1>3. CASE ~(Cardinality(Free(t)) < Of(t).minCrew \/ Output(t) = 0)
  <2>1. PICK k : k = Output(t)
    OBVIOUS
  <2>2. /\ work' = work \cup {Entry(w, t) : w \in Crew(t)}
        /\ remaining' = [remaining EXCEPT ![t] = Max2(0, @ - k)]
        /\ finish' = IF k >= remaining[t] THEN [finish EXCEPT ![t] = Hour(slot).ends] ELSE finish
    BY <1>3, <2>1 DEF Place
  <2>3. remaining'[t] = Max2(0, remaining[t] - k)
    BY <1>1, <2>2
  <2>4. finish'[t] = IF k >= remaining[t] THEN Hour(slot).ends ELSE finish[t]
    BY <1>1, <2>2
  <2>5. \A u \in Task \ {t} : remaining'[u] = remaining[u] /\ finish'[u] = finish[u]
    BY <1>1, <2>2
  <2> QED BY <1>3, <2>1, <2>2, <2>3, <2>4, <2>5
<1> QED BY <1>2, <1>3

\* Effort of which less is left is effort of which more was done.
LEMMA LessIsLeft ==
    ASSUME NEW effort \in Nat, NEW done \in Nat, NEW out \in Nat, NEW left \in Nat,
           left = Max2(0, effort - done), left > 0
    PROVE  /\ Max2(0, left - out) = Max2(0, effort - (done + out))
           /\ out >= left <=> done + out >= effort
           /\ ~(done >= effort)
  BY DEF Max2

\* A placement books its crew, and what it takes off is what it has done.
LEMMA PlaceHours == ASSUME ScheduleConstants, SInv, HInv, NEW t \in Task, Place(t) PROVE HInv'
<1>1. /\ plan' = plan /\ phase' = phase /\ phase = "run" /\ t \in waiting
      /\ DOMAIN remaining' = Task
  BY PlaceKind
<1>2. slot \in Slots /\ Unfinished(t) /\ Live(t)
  BY <1>1 DEF SInv, StillReady, Ready, Unfinished
<1>3. IsPlan(plan) /\ Allowed /\ remaining \in [Task -> Nat]
  BY <1>1 DEF HInv
<1>4. IsPlan(plan)' /\ HasLending(plan)' /\ Allowed'
  BY <1>1, <1>3, AllowedStays DEF HInv, IsPlan, HasLending
<1>5. WorkIs
  BY WorkSound
<1>6. \A e \in work : Booked(e)'
  BY <1>1, BookedStays DEF HInv
<1>7. \A u \in Task : Of(u)' = Of(u) /\ (Live(u)' <=> Live(u))
  BY <1>1 DEF Of, Live
<1>8. \A u \in Task : Live(u) /\ Of(u).effort > 0 =>
         /\ remaining[u] = Max2(0, Of(u).effort - Done(u))
         /\ finish[u] # None <=> Done(u) >= Of(u).effort
  BY <1>1 DEF HInv, EffortCounted
<1>9. \A u \in Task : Of(u).effort \in Nat /\ Done(u) \in Nat
  <2>1. \A u \in Task : Done(u) \in Nat
    BY <1>3, <1>5, DoneIsWhole
  <2> QED BY <1>3, <2>1 DEF IsPlan, IsTask, Of
<1>10. CASE work' = work /\ remaining' = remaining /\ finish' = finish
  <2>1. ASSUME NEW u \in Task PROVE Done(u)' = Done(u)
    <3>1. {f \in work : f.task = u}' = {f \in work : f.task = u}
      BY <1>10
    <3> QED BY <1>1, <3>1, DoneStays
  <2>2. EffortCounted'
    BY <1>7, <1>8, <1>10, <2>1 DEF EffortCounted
  <2> QED BY <1>1, <1>4, <1>6, <1>10, <2>2 DEF HInv
<1>11. CASE /\ ~(Cardinality(Free(t)) < Of(t).minCrew)
            /\ work' = work \cup {Entry(w, t) : w \in Crew(t)}
            /\ remaining' = [remaining EXCEPT ![t] = remaining'[t]]
            /\ remaining'[t] = Max2(0, remaining[t] - Output(t))
            /\ finish'[t] = IF Output(t) >= remaining[t] THEN Hour(slot).ends ELSE finish[t]
            /\ \A u \in Task \ {t} : remaining'[u] = remaining[u] /\ finish'[u] = finish[u]
  <2>1. Crew(t) \subseteq Worker /\ IsFiniteSet(Crew(t))
    BY <1>11, CrewIsSound
  <2>2. \A w \in Crew(t) : Booked(Entry(w, t)) /\ Capacity(w, t, slot) \in Nat
    BY <1>2, <1>3, <2>1, CrewIsBooked
  <2>3. \A e \in work : ~(e.task = t /\ e.slot = slot)
    BY <1>1 DEF SInv, Current
  <2>4. Output(t) \in Nat /\ Done(t)' = Done(t) + Output(t)
    BY <1>1, <1>2, <1>3, <1>5, <1>11, <2>1, <2>2, <2>3, OutputCounts
  <2>5. PICK N : N = {Entry(w, t) : w \in Crew(t)}
    OBVIOUS
  <2>6. \A e \in N : e.task = t /\ Booked(e)
    BY <2>2, <2>5 DEF Entry
  <2>7. IsFiniteSet(work') /\ \A e \in work' : Booked(e)'
    <3>1. \A e \in N : Booked(e)'
      BY <1>1, <2>6, BookedStays
    <3>2. IsFiniteSet(N)
      <4>1. PICK h : h = [w \in Crew(t) |-> Entry(w, t)]
        OBVIOUS
      <4>2. IsFiniteSet({h[w] : w \in Crew(t)}) /\ {h[w] : w \in Crew(t)} = N
        BY <2>1, <2>5, <4>1, ImageIsFinite
      <4> QED BY <4>2
    <3>3. IsFiniteSet(work \cup N)
      BY <1>5, <3>2, FS_Union DEF WorkIs
    <3> QED BY <1>6, <1>11, <2>5, <3>1, <3>3
  <2>8. \A u \in Task \ {t} : Done(u)' = Done(u)
    <3>1. ASSUME NEW u \in Task \ {t} PROVE {f \in work : f.task = u}' = {f \in work : f.task = u}
      BY <1>11, <2>5, <2>6
    <3> QED BY <1>1, <3>1, DoneStays
  <2>9. remaining' \in [Task -> Nat]
    <3>1. remaining[t] \in Nat
      BY <1>3
    <3>2. remaining'[t] \in Nat
      BY <1>11, <2>4, <3>1 DEF Max2
    <3> QED BY <1>3, <1>11, <3>2
  <2>10. Hour(slot).ends # None
    BY <1>2, HourIs DEF Spans, ScheduleConstants
  <2>11. ASSUME Of(t).effort > 0
         PROVE  /\ remaining'[t] = Max2(0, Of(t).effort - Done(t)')
                /\ finish'[t] # None <=> Done(t)' >= Of(t).effort
    <3>1. remaining[t] > 0 /\ remaining[t] \in Nat /\ finish[t] = None
      BY <1>2, <1>3 DEF Unfinished
    <3>2. /\ remaining[t] = Max2(0, Of(t).effort - Done(t))
          /\ Of(t).effort \in Nat /\ Done(t) \in Nat
      BY <1>2, <1>8, <1>9, <2>11
    <3>3. /\ Max2(0, remaining[t] - Output(t)) = Max2(0, Of(t).effort - (Done(t) + Output(t)))
          /\ Output(t) >= remaining[t] <=> Done(t) + Output(t) >= Of(t).effort
      BY <2>4, <3>1, <3>2, LessIsLeft
    <3>4. finish'[t] # None <=> Output(t) >= remaining[t]
      BY <1>11, <2>10, <3>1
    <3> QED BY <1>11, <2>4, <3>3, <3>4
  <2>12. EffortCounted'
    <3>1. ASSUME NEW u \in Task, Live(u), Of(u).effort > 0
          PROVE  /\ remaining'[u] = Max2(0, Of(u).effort - Done(u)')
                 /\ finish'[u] # None <=> Done(u)' >= Of(u).effort
      <4>1. CASE u = t
        BY <2>11, <3>1, <4>1
      <4>2. CASE u # t
        BY <1>8, <1>11, <2>8, <3>1, <4>2
      <4> QED BY <4>1, <4>2
    <3> QED BY <1>7, <3>1 DEF EffortCounted
  <2> QED BY <1>1, <1>4, <2>7, <2>9, <2>12 DEF HInv
<1> QED BY <1>10, <1>11, PlaceWork

\* Every step keeps it.
LEMMA NextHInv == ASSUME ScheduleConstants, SInv, HInv, [RecoveryNext]_vars PROVE HInv'
<1>1. CASE AsGiven \/ (\E p \in Project : Propose(p)) \/ Reject
  BY <1>1, EarlyHours
<1>2. CASE Start
  BY <1>2, StartHours
<1>3. CASE NextSlot \/ Stop \/ UNCHANGED vars
  BY <1>3, IdleHours
<1>4. CASE \E t \in Task : Place(t)
  BY <1>4, PlaceHours
<1> QED BY <1>1, <1>2, <1>3, <1>4 DEF RecoveryNext, Next

\* So it always holds.
LEMMA HInvHolds == ASSUME RecoveryConstants PROVE RecoverySpec => [](SInv /\ HInv)
<1>1. ScheduleConstants
  BY DEF RecoveryConstants
<1>2. ProposeInit => SInv /\ HInv
  BY <1>1, InitSInv, InitHInv
<1>3. SInv /\ HInv /\ [RecoveryNext]_vars => (SInv /\ HInv)'
  BY <1>1, NextSInv, NextHInv
<1> QED BY <1>2, <1>3, PTL DEF RecoverySpec

\* Before anything is worked there is nothing to account for.
LEMMA NothingWorked ==
    ASSUME ScheduleConstants, IsPlan(plan), work = {}
    PROVE  CalendarKept /\ ActionPaid /\ UsedWithinAvailable
<1>1. Ticks({}) = 0
  <2>1. PICK g : g = [e \in {} |-> e.ticks]
    OBVIOUS
  <2>2. g = [e \in {} |-> g[e]]
    BY <2>1
  <2> QED BY <2>1, <2>2, TotalIs, SumEmpty DEF Ticks
<1>2. CalendarKept
  BY DEF CalendarKept
<1>3. OvertimeLimited
  <2>1. ASSUME NEW w \in Worker, Cal(w).maxOvertime # None
        PROVE  Ticks({e \in work : e.worker = w /\ e.overtime}) <= Cal(w).maxOvertime
    <3>1. Cal(w).maxOvertime \in Nat
      BY <2>1 DEF IsPlan, IsWorker, Cal, Level
    <3>2. {e \in work : e.worker = w /\ e.overtime} = {}
      OBVIOUS
    <3> QED BY <1>1, <3>1, <3>2
  <2> QED BY <2>1 DEF OvertimeLimited
<1>4. TransferCosts
  <2>1. SUFFICES ASSUME NEW t \in Transfers, ~Implemented(t),
                        NEW during, during = {e \in work : e.worker = t.worker /\ Overlaps(Hour(e.slot), t)},
                        NEW counted, counted = {e \in during : Transfer(e.worker, e.slot) = t}
                 PROVE  /\ \A e \in during : e.away /\ Of(e.task).project = Transfer(e.worker, e.slot).to
                        /\ Ticks(counted) <= (t.ends - t.starts) - (t.out + t.setup + t.back)
    BY DEF TransferCosts
  <2>2. during = {} /\ counted = {}
    BY <2>1
  <2>3. 0 <= (t.ends - t.starts) - (t.out + t.setup + t.back)
    BY <2>1, UsefulIs DEF Spans
  <2> QED BY <1>1, <2>2, <2>3
<1>5. UsedWithinAvailable
  <2>1. ASSUME NEW p \in Project, NEW s \in Slots
        PROVE  Ticks({e \in work : e.slot = s /\ Of(e.task).project = p}) <= Available(p, s)
    <3>1. PICK f : f = [w \in Worker |-> AvailableOf(w, p, s)]
      OBVIOUS
    <3>2. \A w \in Worker : f[w] \in Nat
      BY <3>1, AvailableIs
    <3>3. SumOver(f, {}) <= SumOver(f, Worker)
      BY <3>2, SumPart DEF ScheduleConstants
    <3>4. Available(p, s) = SumOver(f, Worker)
      <4>1. f = [w \in Worker |-> f[w]]
        BY <3>1
      <4> QED BY <3>1, <4>1, TotalIs DEF Available
    <3>5. {e \in work : e.slot = s /\ Of(e.task).project = p} = {}
      OBVIOUS
    <3> QED BY <1>1, <3>3, <3>4, <3>5, SumEmpty
  <2> QED BY <2>1 DEF UsedWithinAvailable
<1> QED BY <1>2, <1>3, <1>4, <1>5 DEF ActionPaid

\* What is worked of an action that was accepted is in the calendars.
LEMMA CalendarIsKept ==
    ASSUME ScheduleConstants, IsPlan(plan), Allowed, WorkIs PROVE CalendarKept
  BY TicksAre DEF CalendarKept, WorkIs

\* In every state, of every action a caller gives or the generators make, the hours worked are
\* in a calendar or in overtime that is permitted and within the worker's limit, cost what
\* the transfers cost, add up to the effort, and are no more than were available
\* (_prepare_action, _worker_slot_capacity, _run_sample, _attach_capacity_context).
THEOREM HoursAreAlwaysReal == ASSUME RecoveryConstants PROVE RecoverySpec => []HoursAreReal
<1>1. ScheduleConstants
  BY DEF RecoveryConstants
<1>2. ASSUME SInv, HInv PROVE HoursAreReal
  <2>1. IsPlan(plan) /\ EffortCounted /\ phase \in Phases
    BY <1>2 DEF HInv
  <2>2. CASE phase \in {"run", "done"}
    <3>1. Allowed /\ WorkIs
      BY <1>2, <2>2, WorkSound DEF HInv
    <3> QED BY <1>1, <2>1, <3>1, CalendarIsKept, OvertimeFits, TransfersCost, UsedFits
            DEF HoursAreReal, ActionPaid
  <2>3. CASE phase \notin {"run", "done"}
    <3>1. work = {}
      BY <1>2, <2>1, <2>3 DEF SInv, Quiet, Phases
    <3> QED BY <1>1, <2>1, <3>1, NothingWorked DEF HoursAreReal
  <2> QED BY <2>2, <2>3
<1>3. SInv /\ HInv => HoursAreReal
  BY <1>2
<1> QED BY <1>3, HInvHolds, PTL

-----------------------------------------------------------------------------
\* The smallest of some ids is one of them.
LEMMA LeastId == ASSUME NEW S \in SUBSET Nat, S # {} PROVE Min(S) \in S
<1>1. \E x \in S : \A y \in S : x =< y
  BY LeastNumber
<1> QED BY <1>1 DEF Min

\* A project is generated for from a request as it was read: no step comes back to that.
Asked == phase = "propose" => plan \in Inputs

\* This holds always.
LEMMA AskedHolds == RecoverySpec => []Asked
<1>1. ProposeInit => Asked
  BY DEF ProposeInit, Asked
<1>2. Asked /\ [RecoveryNext]_vars => Asked'
  <2> SUFFICES ASSUME Asked, [RecoveryNext]_vars PROVE Asked'
    OBVIOUS
  <2>1. CASE AsGiven
    BY <2>1 DEF AsGiven, Asked
  <2>2. ASSUME NEW p \in Project, Propose(p) PROVE Asked'
    <3>1. phase' \in {"rejected", "prepare"}
      BY <2>2 DEF Propose
    <3> QED BY <3>1 DEF Asked
  <2>3. CASE Reject \/ Start \/ Stop
    BY <2>3 DEF Reject, Start, Stop, Asked
  <2>4. CASE NextSlot
    BY <2>4 DEF NextSlot, Asked
  <2>5. ASSUME NEW t \in Task, Place(t) PROVE Asked'
    <3>1. phase' = phase /\ plan' = plan
      BY <2>5 DEF Place
    <3> QED BY <3>1 DEF Asked
  <2>6. CASE UNCHANGED vars
    BY <2>6 DEF vars, Asked
  <2> QED BY <2>1, <2>2, <2>3, <2>4, <2>5, <2>6 DEF RecoveryNext, Next
<1> QED BY <1>1, <1>2, PTL DEF RecoverySpec

\* The first hour a task can be worked in is an hour of the run, and not before the
\* instant that was asked for.
LEMMA FirstStartIs ==
    ASSUME ScheduleConstants, NEW t \in Task, NEW x \in Int, FirstStart(t, x) # None
    PROVE  FirstStart(t, x) \in Nat /\ x <= FirstStart(t, x)
<1>1. PICK open : open = {s \in Slots : Hour(s).starts >= x /\ Schedulable(t, s)}
  OBVIOUS
<1>2. FirstStart(t, x) = IF open = {} THEN None ELSE Hour(Min(open)).starts
  BY <1>1 DEF FirstStart
<1>3. open # {} /\ FirstStart(t, x) = Hour(Min(open)).starts
  BY <1>2
<1>4. open \in SUBSET Nat
  BY <1>1 DEF Slots
<1>5. PICK s \in open : s = Min(open)
  BY <1>3, <1>4, LeastId
<1>6. s \in Nat /\ TicksPerSlot \in Nat /\ Hour(s).starts >= x
  BY <1>1, <1>4, <1>5 DEF ScheduleConstants
<1>7. Hour(s).starts = s * TicksPerSlot /\ s * TicksPerSlot \in Nat
  BY <1>6 DEF Hour
<1> QED BY <1>3, <1>5, <1>6, <1>7

\* An interval of the windows an assumption gives is in the run.
LEMMA WindowsInHorizon ==
    ASSUME ScheduleConstants, IsPlan(plan), NEW w \in Worker, NEW a \in Lending, NEW i \in Windows(w, a)
    PROVE  i[1] >= 0 /\ i[2] <= Horizon
<1>1. /\ Horizon \in Nat /\ TicksPerDay \in Nat \ {0} /\ a.starts \in Int /\ a.ends \in Int
      /\ Cal(w).from \in Int /\ Cal(w).to \in Int /\ Cal(w).offset \in Int
  BY DEF ScheduleConstants, Lending, IsPlan, IsWorker, Cal
<1>2. \E x, y \in Int : i = <<Max2(x, 0), Min2(y, Horizon)>>
  <2>1. CASE a.starts < Horizon /\ a.ends > 0 /\ (a.starts # 0 \/ a.ends # Horizon)
    <3>1. i = <<Max2(a.starts, 0), Min2(a.ends, Horizon)>>
      BY <2>1 DEF Windows
    <3> QED BY <1>1, <3>1
  <2>2. CASE ~(a.starts < Horizon /\ a.ends > 0 /\ (a.starts # 0 \/ a.ends # Horizon))
    <3>1. \E d \in (Cal(w).offset \div TicksPerDay)..((Horizon + Cal(w).offset) \div TicksPerDay) :
             i = <<Max2(ShiftOf(w, d).starts, 0), Min2(ShiftOf(w, d).ends, Horizon)>>
      BY <2>2 DEF Windows
    <3>2. PICK d \in Int : i = <<Max2(ShiftOf(w, d).starts, 0), Min2(ShiftOf(w, d).ends, Horizon)>>
      BY <3>1
    <3>3. ShiftOf(w, d).starts \in Int /\ ShiftOf(w, d).ends \in Int
      <4>1. PICK m : m = d * TicksPerDay
        OBVIOUS
      <4>2. m \in Int
        BY <1>1, <4>1
      <4> QED BY <1>1, <4>1, <4>2 DEF ShiftOf
    <3> QED BY <3>2, <3>3
  <2> QED BY <2>1, <2>2
<1>3. PICK x, y \in Int : i = <<Max2(x, 0), Min2(y, Horizon)>>
  BY <1>2
<1> QED BY <1>1, <1>3 DEF Max2, Min2

\* A dated task that is moved to a first hour and fits keeps its length, so it ends after it starts.
LEMMA MovedFits ==
    ASSUME ScheduleConstants, IsParsed(plan), NEW t \in Task, Dated(t), NEW x \in Int,
           FirstStart(t, x) # None, FirstStart(t, x) + Of(t).plannedEnd - Of(t).planned <= Horizon,
           NEW r, r.starts = FirstStart(t, x),
           r.ends = FirstStart(t, x) + Of(t).plannedEnd - Of(t).planned
    PROVE  InHorizon(r) /\ r.starts < r.ends /\ x <= r.starts
<1>1. FirstStart(t, x) \in Nat /\ x <= FirstStart(t, x)
  BY FirstStartIs
<1>2. Of(t).planned \in Int /\ Of(t).plannedEnd \in Int /\ Of(t).planned < Of(t).plannedEnd
  BY DEF IsParsed, Dated, Of, Moment
<1> QED BY <1>1, <1>2 DEF InHorizon

\* A task is moved within the run, and not before its material,
LEMMA ShiftsAllowedToPropose ==
    ASSUME ScheduleConstants, IsParsed(plan), NEW a \in ShiftParts PROVE PartAllowed(a)
<1>1. PICK from : from = [t \in Task |-> IF Of(t).material = None THEN 0 ELSE Max2(0, Of(t).material)]
  OBVIOUS
<1>2. PICK r : r = [t \in Task |-> [task |-> t, starts |-> FirstStart(t, from[t]),
                       ends |-> FirstStart(t, from[t]) + Of(t).plannedEnd - Of(t).planned]]
  OBVIOUS
<1>3. PICK t \in Task : /\ Dated(t) /\ FirstStart(t, from[t]) # None
                        /\ FirstStart(t, from[t]) + Of(t).plannedEnd - Of(t).planned <= Horizon
                        /\ a = [NoAction EXCEPT !.shifts = {r[t]}]
  BY <1>1, <1>2 DEF ShiftParts
<1>4. a.shifts = {r[t]} /\ a.transfers = {} /\ a.overtime = {} /\ a.weather = {}
  BY <1>3 DEF NoAction
<1>5. from[t] \in Int /\ (Of(t).material # None => from[t] >= Of(t).material)
  <2>1. Of(t).material \in Moment
    BY DEF IsParsed, Of
  <2> QED BY <1>1, <2>1 DEF Max2, Moment
<1>6. /\ r[t].task = t /\ r[t].starts = FirstStart(t, from[t])
      /\ r[t].ends = FirstStart(t, from[t]) + Of(t).plannedEnd - Of(t).planned
  BY <1>2
<1>7. InHorizon(r[t]) /\ r[t].starts < r[t].ends /\ from[t] <= r[t].starts
  BY <1>3, <1>5, <1>6, MovedFits
<1>8. Of(t).material # None => r[t].starts >= Of(t).material
  <2>1. FirstStart(t, from[t]) \in Nat
    BY <1>3, <1>5, FirstStartIs
  <2>2. Of(t).material \in Moment
    BY DEF IsParsed, Of
  <2> QED BY <1>5, <1>6, <1>7, <2>1, <2>2 DEF Moment
<1> QED BY <1>4, <1>6, <1>7, <1>8 DEF PartAllowed

\* also on account of the weather,
LEMMA WeatherAllowedToPropose ==
    ASSUME ScheduleConstants, IsParsed(plan), NEW a \in WeatherParts PROVE PartAllowed(a)
<1>1. PICK r : r = [t \in Task |->
          [task |-> t, project |-> Of(t).project, starts |-> FirstStart(t, 0),
           ends |-> FirstStart(t, 0) + Of(t).plannedEnd - Of(t).planned,
           confirmed |-> FALSE, capacity |-> None]]
  OBVIOUS
<1>2. PICK t \in Task : /\ Dated(t) /\ FirstStart(t, 0) # None
                        /\ FirstStart(t, 0) + Of(t).plannedEnd - Of(t).planned <= Horizon
                        /\ a = [NoAction EXCEPT !.weather = {r[t]}]
  BY <1>1 DEF WeatherParts
<1>3. a.shifts = {} /\ a.transfers = {} /\ a.overtime = {} /\ a.weather = {r[t]}
  BY <1>2 DEF NoAction
<1>4. /\ r[t].starts = FirstStart(t, 0)
      /\ r[t].ends = FirstStart(t, 0) + Of(t).plannedEnd - Of(t).planned
  BY <1>1
<1>5. InHorizon(r[t]) /\ r[t].starts < r[t].ends
  BY <1>2, <1>4, MovedFits
<1> QED BY <1>3, <1>5 DEF PartAllowed

\* people are moved who may be, from where they belong to somewhere else,
LEMMA TransfersAllowedToPropose ==
    ASSUME ScheduleConstants, IsPlan(plan), HasLending(plan), IsParsed(plan), NEW p \in Project,
           NEW x \in TransferParts(p)
    PROVE  PartAllowed(x)
<1>1. PICK w \in Worker : \E a \in plan.assumptions : CanLend(w, a, p) /\ x \in LentBy(w, a, p)
  BY DEF TransferParts
<1>2. PICK a \in plan.assumptions : CanLend(w, a, p) /\ x \in LentBy(w, a, p)
  BY <1>1
<1>3. PICK W : W = (IF SkilledFor(w, p) = {} THEN {} ELSE Windows(w, a))
  OBVIOUS
<1>4. PICK m : m = [i \in W |-> [worker |-> w, from |-> a.from, to |-> p, starts |-> i[1], ends |-> i[2],
                                 out |-> a.out, back |-> a.back, setup |-> a.setup,
                                 targets |-> SkilledFor(w, p)]]
  OBVIOUS
<1>5. PICK i \in W : x = [NoAction EXCEPT !.transfers = {m[i]}]
  BY <1>2, <1>3, <1>4 DEF LentBy
<1>6. x.shifts = {} /\ x.transfers = {m[i]} /\ x.overtime = {} /\ x.weather = {}
  BY <1>5 DEF NoAction
<1>7. /\ m[i].worker = w /\ m[i].from = a.from /\ m[i].to = p /\ m[i].starts = i[1] /\ m[i].ends = i[2]
      /\ m[i].targets = SkilledFor(w, p)
  BY <1>4
<1>8. a \in Lending /\ i \in Windows(w, a)
  BY <1>3 DEF HasLending
<1>9. InHorizon(m[i])
  BY <1>7, <1>8, WindowsInHorizon DEF InHorizon
<1>10. a.from # p /\ InProject(w, a.from) /\ Cal(w).active /\ Cal(w).canTransfer
  BY <1>2 DEF CanLend, IsParsed
<1>11. \A k \in SkilledFor(w, p) : Of(k).project = p
  BY DEF SkilledFor, LiveIn
<1> QED BY <1>6, <1>7, <1>9, <1>10, <1>11 DEF PartAllowed

\* and overtime is asked for where it is permitted.
LEMMA OvertimeAllowedToPropose ==
    ASSUME ScheduleConstants, IsPlan(plan), NEW p \in Project, NEW a \in OvertimeParts(p)
    PROVE  PartAllowed(a)
<1>1. PICK h : h = [w \in Worker |-> [o \in Cal(w).permitted |->
                      [worker |-> w, starts |-> Max2(o.starts, 0),
                       ends |-> Max2(o.starts, 0) + OvertimeLength(w, o)]]]
  OBVIOUS
<1>2. PICK w \in Worker : \E o \in Cal(w).permitted :
          OvertimeLength(w, o) > 0 /\ a = [NoAction EXCEPT !.overtime = {h[w][o]}]
  BY <1>1 DEF OvertimeParts
<1>3. PICK o \in Cal(w).permitted :
          OvertimeLength(w, o) > 0 /\ a = [NoAction EXCEPT !.overtime = {h[w][o]}]
  BY <1>2
<1>4. PICK n : n = OvertimeLength(w, o)
  OBVIOUS
<1>5. PICK q : q = h[w][o]
  OBVIOUS
<1>6. q.worker = w /\ q.starts = Max2(o.starts, 0) /\ q.ends = Max2(o.starts, 0) + n
  BY <1>1, <1>4, <1>5
<1>7. o.starts \in Int /\ o.ends \in Int /\ Horizon \in Nat /\ Cal(w).maxOvertime \in Level
  BY DEF IsPlan, IsWorker, Cal, ScheduleConstants
<1>8. /\ n \in Int /\ n > 0 /\ n <= Min2(o.ends, Horizon) - Max2(o.starts, 0)
      /\ Cal(w).maxOvertime # None => n <= Cal(w).maxOvertime
  BY <1>3, <1>4, <1>7 DEF OvertimeLength, Min2, Max2, Level
<1>9. /\ q.starts \in Int /\ q.ends \in Int /\ q.starts >= 0 /\ q.starts >= o.starts
      /\ q.ends <= Horizon /\ q.ends <= o.ends /\ q.starts < q.ends /\ q.ends - q.starts = n
  BY <1>6, <1>7, <1>8 DEF Min2, Max2
<1>10. InHorizon(q) /\ Length(q) = n
  BY <1>9 DEF InHorizon, Length
<1>11. Within(Window(q), Cal(w).permitted)
  BY <1>9 DEF Within, Window
<1>12. a.shifts = {} /\ a.transfers = {} /\ a.overtime = {q} /\ a.weather = {}
  BY <1>3, <1>5 DEF NoAction
<1> QED BY <1>6, <1>8, <1>9, <1>10, <1>11, <1>12 DEF PartAllowed

\* Whatever was asked, what the six generators propose is what _prepare_action can accept:
\* between asOf and the horizon, moving people who may be moved from a project of theirs, with
\* overtime only where it is permitted and within the worker's limit, and no task before its material.
THEOREM GeneratedIsAlwaysAllowed == ASSUME RecoveryConstants PROVE RecoverySpec => []GeneratedIsAllowed
<1>1. ASSUME Asked, phase = "propose", NEW p \in Project, NEW a \in Elementary(p) PROVE PartAllowed(a)
  <2>1. ScheduleConstants /\ IsPlan(plan) /\ HasLending(plan) /\ IsParsed(plan)
    BY <1>1 DEF RecoveryConstants, ScheduleConstants, Asked
  <2>2. CASE a \in PriorityParts(p) \cup MaterialParts
    <3>1. a.transfers = {} /\ a.overtime = {} /\ a.shifts = {} /\ a.weather = {}
      <4>1. CASE a \in PriorityParts(p)
        <5>1. \E x : a = [NoAction EXCEPT !.projectOrder = x]
          BY <4>1 DEF PriorityParts
        <5> QED BY <5>1 DEF NoAction
      <4>2. CASE a \in MaterialParts
        <5>1. \E x : a = [NoAction EXCEPT !.materials = x]
          BY <4>2 DEF MaterialParts
        <5> QED BY <5>1 DEF NoAction
      <4> QED BY <2>2, <4>1, <4>2
    <3> QED BY <3>1 DEF PartAllowed
  <2>3. CASE a \in ShiftParts
    BY <2>1, <2>3, ShiftsAllowedToPropose
  <2>4. CASE a \in WeatherParts
    BY <2>1, <2>4, WeatherAllowedToPropose
  <2>5. CASE a \in TransferParts(p)
    BY <2>1, <2>5, TransfersAllowedToPropose
  <2>6. CASE a \in OvertimeParts(p)
    BY <2>1, <2>6, OvertimeAllowedToPropose
  <2> QED BY <1>1, <2>2, <2>3, <2>4, <2>5, <2>6 DEF Elementary
<1>2. Asked => GeneratedIsAllowed
  BY <1>1 DEF GeneratedIsAllowed
<1> QED BY <1>2, AskedHolds, PTL

-----------------------------------------------------------------------------
\* An order of a set: of two elements one is first, and nothing goes in circles.
Orders(R, S) ==
    /\ \A x \in S : <<x, x>> \notin R
    /\ \A x, y, z \in S : <<x, y>> \in R /\ <<y, z>> \in R => <<x, z>> \in R
    /\ \A x, y \in S : x # y => <<x, y>> \in R \/ <<y, x>> \in R
Before(x, R, S) == {y \in S : <<y, x>> \in R}

\* A finite set that is ordered is listed: all of it, each element once, in its order.
LEMMA ListedIs ==
    ASSUME NEW R, NEW S, IsFiniteSet(S), Orders(R, S)
    PROVE  /\ Cardinality(S) \in Nat /\ Listed(S, R) \in [1..Cardinality(S) -> S]
           /\ \A x \in S : \E n \in 1..Cardinality(S) : Listed(S, R)[n] = x
           /\ \A m, n \in 1..Cardinality(S) : m < n => <<Listed(S, R)[m], Listed(S, R)[n]>> \in R
           /\ \A n \in 1..Cardinality(S) : Cardinality(Before(Listed(S, R)[n], R, S)) = n - 1
<1> DEFINE size == Cardinality(S)
           rank == [x \in S |-> Cardinality(Before(x, R, S)) + 1]
<1>1. ASSUME NEW x \in S
      PROVE  /\ IsFiniteSet(Before(x, R, S)) /\ Cardinality(Before(x, R, S)) \in Nat
             /\ Cardinality(Before(x, R, S)) <= size - 1 /\ size \in Nat
  <2>1. Before(x, R, S) \subseteq S \ {x}
    BY <1>1 DEF Before, Orders
  <2>2. IsFiniteSet(S \ {x}) /\ Cardinality(S \ {x}) = size - 1
    BY <1>1, FS_RemoveElement
  <2>3. IsFiniteSet(Before(x, R, S)) /\ Cardinality(Before(x, R, S)) <= size - 1
    BY <2>1, <2>2, FS_Subset
  <2> QED BY <2>3, FS_CardinalityType
<1>2. ASSUME NEW x \in S, NEW y \in S, <<x, y>> \in R PROVE rank[x] < rank[y]
  <2>1. Before(x, R, S) \subseteq Before(y, R, S) \ {x} /\ x \in Before(y, R, S)
    BY <1>2 DEF Before, Orders
  <2>2. IsFiniteSet(Before(y, R, S) \ {x}) /\ Cardinality(Before(y, R, S) \ {x}) = Cardinality(Before(y, R, S)) - 1
    BY <1>1, <2>1, FS_RemoveElement
  <2>3. Cardinality(Before(x, R, S)) <= Cardinality(Before(y, R, S)) - 1
    BY <2>1, <2>2, FS_Subset
  <2> QED BY <1>1, <2>3
<1>3. size \in Nat /\ IsFiniteSet(1..size) /\ Cardinality(1..size) = size
  <2>1. size \in Nat
    BY FS_CardinalityType
  <2> QED BY <2>1, FS_Interval
<1>4. rank \in [S -> 1..size]
  BY <1>1
<1>5. \A x, y \in S : rank[x] = rank[y] => x = y
  <2> SUFFICES ASSUME NEW x \in S, NEW y \in S, rank[x] = rank[y], x # y PROVE FALSE
    OBVIOUS
  <2>1. rank[x] \in Int /\ rank[y] \in Int
    BY <1>4
  <2>2. <<x, y>> \in R \/ <<y, x>> \in R
    BY DEF Orders
  <2> HIDE DEF rank
  <2> QED BY <1>2, <2>1, <2>2
<1>6. rank \in Surjection(S, 1..size)
  <2>1. rank \in Injection(S, 1..size)
    BY <1>4, <1>5 DEF Injection, IsInjective
  <2> HIDE DEF rank
  <2> QED BY <1>3, <2>1, FS_Injection
<1>7. \A n \in 1..size : \E x \in S : rank[x] = n
  BY <1>6 DEF Surjection
<1>8. \A n \in 1..size : Listed(S, R)[n] = CHOOSE x \in S : Cardinality(Before(x, R, S)) = n - 1
  BY DEF Listed, Before
<1>9. \A n \in 1..size : Listed(S, R)[n] \in S /\ rank[Listed(S, R)[n]] = n
  <2> TAKE n \in 1..size
  <2>1. PICK x \in S : rank[x] = n
    BY <1>7
  <2>2. Cardinality(Before(x, R, S)) = n - 1
    BY <1>1, <2>1
  <2>3. Listed(S, R)[n] \in S /\ Cardinality(Before(Listed(S, R)[n], R, S)) = n - 1
    BY <1>8, <2>2
  <2> QED BY <2>3
<1>10. Listed(S, R) \in [1..size -> S]
  BY <1>9 DEF Listed
<1>11. \A x \in S : \E n \in 1..size : Listed(S, R)[n] = x
  <2> TAKE x \in S
  <2>1. rank[x] \in 1..size
    BY <1>4
  <2> HIDE DEF rank
  <2> QED BY <1>5, <1>9, <2>1
<1>12. ASSUME NEW m \in 1..size, NEW n \in 1..size, m < n PROVE <<Listed(S, R)[m], Listed(S, R)[n]>> \in R
  <2>1. Listed(S, R)[m] # Listed(S, R)[n]
    <3> HIDE DEF rank
    <3> QED BY <1>9, <1>12
  <2>2. ~(<<Listed(S, R)[n], Listed(S, R)[m]>> \in R)
    <3> HIDE DEF rank
    <3> QED BY <1>2, <1>9, <1>12
  <2> QED BY <1>9, <2>1, <2>2 DEF Orders
<1>13. \A n \in 1..size : Cardinality(Before(Listed(S, R)[n], R, S)) = n - 1
  <2> TAKE n \in 1..size
  <2>1. rank[Listed(S, R)[n]] = Cardinality(Before(Listed(S, R)[n], R, S)) + 1
    BY <1>9
  <2>2. Cardinality(Before(Listed(S, R)[n], R, S)) \in Nat
    BY <1>1, <1>9
  <2>3. rank[Listed(S, R)[n]] = n
    BY <1>9
  <2> HIDE DEF rank
  <2> QED BY <2>1, <2>2, <2>3
<1> QED BY <1>3, <1>10, <1>11, <1>12, <1>13

\* A list of n elements.
Row(s, n) == n \in Nat /\ s = [i \in 1..n |-> s[i]]

\* What a list of a list is.
LEMMA ListRow == ASSUME NEW s, IsList(s) PROVE Row(s, Len(s))
<1>1. s \in Seq(Range(s))
  BY DEF IsList
<1>2. Len(s) \in Nat /\ s \in [1..Len(s) -> Range(s)]
  <2> HIDE <1>1
  <2>1. PICK T : s \in Seq(T) /\ T = Range(s)
    BY <1>1
  <2> QED BY <2>1, LenProperties
<1> QED BY <1>2 DEF Row

\* A row is a list.
LEMMA RowList == ASSUME NEW s, NEW n, Row(s, n) PROVE IsList(s) /\ Len(s) = n /\ DOMAIN s = 1..n
<1>1. DOMAIN s = 1..n /\ n \in Nat
  BY DEF Row
<1>2. s \in [1..n -> Range(s)]
  BY <1>1 DEF Row, Range
<1>3. s \in Seq(Range(s))
  BY <1>1, <1>2 DEF Seq
<1> QED BY <1>1, <1>3 DEF IsList

\* The places it takes, in their order.
Places(at, S) ==
    /\ Cardinality(S) \in Nat /\ at \in [1..Cardinality(S) -> S]
    /\ \A x \in S : \E n \in 1..Cardinality(S) : at[n] = x
    /\ \A m, n \in 1..Cardinality(S) : m < n => at[m] < at[n]

\* Numbers are listed upwards, each with all smaller ones before it.
LEMMA AscendingIs ==
    ASSUME NEW S \in SUBSET Nat, IsFiniteSet(S)
    PROVE  /\ Places(Ascending(S), S)
           /\ \A n \in 1..Cardinality(S) : Cardinality({y \in S : y < Ascending(S)[n]}) = n - 1
<1> DEFINE R == {x \in S \X S : x[1] < x[2]}
<1>2. \A x, y \in S : <<x, y>> \in R <=> x < y
  OBVIOUS
<1>1. Orders(R, S)
  <2> HIDE DEF R
  <2>1. \A x, y \in S : x \in Int /\ y \in Int
    OBVIOUS
  <2> QED BY <1>2, <2>1 DEF Orders
<1>3. \A x \in S : Before(x, R, S) = {y \in S : y < x}
  BY DEF Before
<1>4. Ascending(S) = Listed(S, R)
  BY DEF Ascending
<1> HIDE DEF R
<1>5. /\ Cardinality(S) \in Nat /\ Ascending(S) \in [1..Cardinality(S) -> S]
      /\ \A x \in S : \E n \in 1..Cardinality(S) : Ascending(S)[n] = x
      /\ \A m, n \in 1..Cardinality(S) : m < n => <<Ascending(S)[m], Ascending(S)[n]>> \in R
      /\ \A n \in 1..Cardinality(S) : Cardinality(Before(Ascending(S)[n], R, S)) = n - 1
  BY <1>1, <1>4, ListedIs
<1>6. \A m, n \in 1..Cardinality(S) : m < n => Ascending(S)[m] < Ascending(S)[n]
  BY <1>2, <1>5
<1>7. \A n \in 1..Cardinality(S) : Cardinality({y \in S : y < Ascending(S)[n]}) = n - 1
  BY <1>3, <1>5
<1> QED BY <1>5, <1>6, <1>7 DEF Places

\* What is left of a sequence when only some of its places are kept.
LEMMA OnlyIs ==
    ASSUME NEW s, NEW S \in SUBSET Nat, IsFiniteSet(S)
    PROVE  /\ Row(Only(s, S), Cardinality(S))
           /\ \E at : Places(at, S) /\ \A n \in 1..Cardinality(S) : Only(s, S)[n] = s[at[n]]
<1>1. Places(Ascending(S), S)
  BY AscendingIs
<1>2. DOMAIN Ascending(S) = 1..Cardinality(S)
  BY <1>1 DEF Places
<1>3. Only(s, S) = [n \in 1..Cardinality(S) |-> s[Ascending(S)[n]]]
  BY <1>2 DEF Only
<1>4. Row(Only(s, S), Cardinality(S))
  BY <1>1, <1>3 DEF Row, Places
<1>5. \A n \in 1..Cardinality(S) : Only(s, S)[n] = s[Ascending(S)[n]]
  BY <1>3
<1> QED BY <1>1, <1>4, <1>5

\* A list cut to its first elements.
LEMMA TakeIs ==
    ASSUME NEW s, NEW n, Row(s, n), NEW max \in Nat
    PROVE  \E k \in 0..max : /\ k <= n /\ (k < max => k = n)
                             /\ Row(Take(s, max), k) /\ \A i \in 1..k : Take(s, max)[i] = s[i]
<1>1. DOMAIN s = 1..n /\ n \in Nat
  BY DEF Row
<1>2. PICK k \in Nat : k = IF n <= max THEN n ELSE max
  BY <1>1
<1>3. {i \in DOMAIN s : i <= max} = 1..k
  BY <1>1, <1>2
<1>4. IsFiniteSet(1..k) /\ Cardinality(1..k) = k /\ 1..k \in SUBSET Nat
  BY FS_Interval
<1>5. Places(Ascending(1..k), 1..k) /\ \A i \in 1..k : Cardinality({y \in 1..k : y < Ascending(1..k)[i]}) = i - 1
  BY <1>4, AscendingIs
<1>6. ASSUME NEW i \in 1..k PROVE Ascending(1..k)[i] = i
  <2>1. Ascending(1..k)[i] \in 1..k
    BY <1>4, <1>5 DEF Places
  <2>2. PICK a \in 1..k : a = Ascending(1..k)[i]
    BY <2>1
  <2>3. {y \in 1..k : y < a} = 1..(a - 1)
    OBVIOUS
  <2>4. Cardinality(1..(a - 1)) = a - 1
    <3>1. a - 1 \in Int /\ 1 \in Int
      OBVIOUS
    <3>2. Cardinality(1..(a - 1)) = IF 1 > a - 1 THEN 0 ELSE a - 1 - 1 + 1
      BY <3>1, FS_Interval
    <3> QED BY <3>2
  <2> QED BY <1>5, <2>2, <2>3, <2>4
<1>7. DOMAIN Ascending(1..k) = 1..k
  BY <1>4, <1>5 DEF Places
<1>8. Take(s, max) = [i \in 1..k |-> s[Ascending(1..k)[i]]]
  BY <1>3, <1>7 DEF Take, Only
<1>9. Take(s, max) = [i \in 1..k |-> s[i]]
  BY <1>6, <1>8
<1>10. k \in 0..max /\ k <= n /\ (k < max => k = n)
  BY <1>1, <1>2
<1>11. Row(Take(s, max), k) /\ \A i \in 1..k : Take(s, max)[i] = s[i]
  BY <1>9 DEF Row
<1> QED BY <1>10, <1>11

\* Every signature has a first use.
LEMMA FirstUse ==
    ASSUME NEW sig, NEW n \in Nat, DOMAIN sig = 1..n, NEW b \in 1..n
    PROVE  \E f \in Firsts(sig) : f <= b /\ sig[f] = sig[b]
<1> DEFINE same == {i \in 1..n : sig[i] = sig[b]}
<1>1. PICK f \in same : \A i \in same : f <= i
  <2>1. same \in SUBSET Nat /\ same # {}
    OBVIOUS
  <2> QED BY <2>1, LeastNumber
<1>2. \A j \in 1..n : j < f => sig[j] # sig[f]
  BY <1>1
<1> QED BY <1>1, <1>2 DEF Firsts

\* What is kept of a list: first uses, in its order, none left out before one that is kept;
\* only a limit that is reached leaves out a signature.
Keeps(at, k, sig, n, max) ==
    /\ k \in 0..max /\ at \in [1..k -> 1..n]
    /\ \A i, j \in 1..k : i < j => at[i] < at[j] /\ sig[at[i]] # sig[at[j]]
    /\ \A i \in 1..k : \A b \in 1..n : b < at[i] => \E j \in 1..(i - 1) : sig[at[j]] = sig[b]
    /\ k < max => \A b \in 1..n : \E j \in 1..k : sig[at[j]] = sig[b]

\* Of a list that is cut to its first uses, this is kept.
LEMMA KeptAre ==
    ASSUME NEW s, NEW n, Row(s, n), NEW sig, DOMAIN sig = 1..n, NEW max \in Nat
    PROVE  \E k, at : /\ Keeps(at, k, sig, n, max)
                      /\ Row(Take(Unique(s, sig), max), k)
                      /\ \A i \in 1..k : Take(Unique(s, sig), max)[i] = s[at[i]]
<1>1. n \in Nat
  BY DEF Row
<1> DEFINE S == Firsts(sig)
<1>2. S \subseteq 1..n /\ S \in SUBSET Nat /\ IsFiniteSet(S)
  <2>1. S \subseteq 1..n
    BY DEF Firsts
  <2>2. IsFiniteSet(1..n)
    BY <1>1, FS_Interval
  <2>3. IsFiniteSet(S)
    <3> HIDE DEF S
    <3> QED BY <2>1, <2>2, FS_Subset
  <2>4. 1..n \subseteq Nat
    OBVIOUS
  <2> HIDE DEF S
  <2> QED BY <2>1, <2>3, <2>4
<1>3. \A i, j \in S : i < j => sig[i] # sig[j]
  BY DEF Firsts
<1>4. \A b \in 1..n : \E f \in S : f <= b /\ sig[f] = sig[b]
  BY <1>1, FirstUse
<1> HIDE DEF S
<1>5. Unique(s, sig) = Only(s, S)
  BY DEF Unique, S
<1>6. PICK at : /\ Row(Unique(s, sig), Cardinality(S)) /\ Places(at, S)
                /\ \A i \in 1..Cardinality(S) : Unique(s, sig)[i] = s[at[i]]
  BY <1>2, <1>5, OnlyIs
<1>7. PICK k \in 0..max : /\ k <= Cardinality(S) /\ (k < max => k = Cardinality(S))
                          /\ Row(Take(Unique(s, sig), max), k)
                          /\ \A i \in 1..k : Take(Unique(s, sig), max)[i] = Unique(s, sig)[i]
  BY <1>6, TakeIs
<1> DEFINE N == Cardinality(S)
           to == [i \in 1..k |-> at[i]]
<1>8. N \in Nat /\ k \in Nat /\ 1..k \subseteq 1..N
  BY <1>6, <1>7 DEF Places
<1>9. /\ \A i \in 1..N : at[i] \in S
      /\ \A x \in S : \E i \in 1..N : at[i] = x
      /\ \A i, j \in 1..N : i < j => at[i] < at[j]
  BY <1>6 DEF Places
<1> HIDE DEF N
<1>10. \A i \in 1..k : Take(Unique(s, sig), max)[i] = s[to[i]]
  BY <1>6, <1>7, <1>8 DEF N
<1>11. to \in [1..k -> 1..n]
  BY <1>2, <1>8, <1>9
<1>12. \A i, j \in 1..k : i < j => to[i] < to[j] /\ sig[to[i]] # sig[to[j]]
  BY <1>3, <1>8, <1>9
<1>13. ASSUME NEW i \in 1..k, NEW b \in 1..n, b < to[i] PROVE \E j \in 1..(i - 1) : sig[to[j]] = sig[b]
  <2>1. PICK f \in S : f <= b /\ sig[f] = sig[b]
    BY <1>4
  <2>2. PICK j \in 1..N : at[j] = f
    BY <1>9
  <2>3. at[i] \in Nat /\ f \in Nat /\ b \in Nat /\ at[j] < at[i] /\ i \in 1..N
    <3>1. i \in 1..N /\ to[i] = at[i]
      BY <1>8
    <3>2. at[i] \in S /\ at[i] \in Nat /\ f \in Nat
      BY <1>2, <1>9, <3>1
    <3> HIDE DEF to
    <3>3. b < at[i] /\ f <= b /\ at[j] = f /\ b \in Nat
      BY <1>13, <2>1, <2>2, <3>1
    <3>4. at[j] < at[i]
      BY <3>2, <3>3
    <3> QED BY <3>1, <3>2, <3>3, <3>4
  <2>4. j < i
    <3>1. i # j
      BY <2>3
    <3>2. ~(i < j)
      BY <1>9, <2>2, <2>3
    <3> QED BY <3>1, <3>2, <2>3, <1>8
  <2>5. j \in 1..(i - 1) /\ to[j] = f
    BY <1>8, <2>2, <2>4
  <2> QED BY <2>1, <2>5
<1>14. k < max => \A b \in 1..n : \E j \in 1..k : sig[to[j]] = sig[b]
  <2> SUFFICES ASSUME k < max, NEW b \in 1..n PROVE \E j \in 1..k : sig[to[j]] = sig[b]
    OBVIOUS
  <2>1. k = N
    BY <1>7 DEF N
  <2>2. PICK f \in S : sig[f] = sig[b]
    BY <1>4
  <2>3. PICK j \in 1..N : at[j] = f
    BY <1>9
  <2> QED BY <2>1, <2>2, <2>3
<1>15. Keeps(to, k, sig, n, max)
  BY <1>7, <1>11, <1>12, <1>13, <1>14 DEF Keeps
<1> QED BY <1>7, <1>10, <1>15

\* Lists of lists, and the turns in which their elements come.
Rows(ss, m) == Row(ss, m) /\ \A i \in 1..m : IsList(ss[i])

\* Every element has a turn.
LEMMA TurnsAre ==
    ASSUME NEW ss, NEW m, Rows(ss, m)
    PROVE  /\ IsFiniteSet(Turns(ss)) /\ Turns(ss) \subseteq Nat \X (1..m)
           /\ \A n, i : <<n, i>> \in Turns(ss) <=> i \in 1..m /\ n \in 1..Len(ss[i])
<1>1. m \in Nat /\ DOMAIN ss = 1..m
  BY DEF Rows, Row
<1>2. \A i \in 1..m : Len(ss[i]) \in Nat /\ DOMAIN ss[i] = 1..Len(ss[i])
  BY ListRow DEF Rows, Row
<1>3. \A n, i : <<n, i>> \in Turns(ss) <=> i \in 1..m /\ n \in 1..Len(ss[i])
  BY <1>1, <1>2 DEF Turns
<1>4. Turns(ss) \subseteq Nat \X (1..m)
  BY <1>1, <1>2 DEF Turns
<1> DEFINE lens == {Len(ss[i]) : i \in 1..m}
<1>5. PICK top \in Nat : \A i \in 1..m : Len(ss[i]) <= top
  <2> DEFINE h == [i \in 1..m |-> Len(ss[i])]
             all == {h[i] : i \in 1..m}
  <2>1. IsFiniteSet(all)
    <3> HIDE DEF h
    <3>1. IsFiniteSet(1..m)
      BY <1>1, FS_Interval
    <3> QED BY <3>1, ImageIsFinite
  <2>2. \A i \in 1..m : h[i] = Len(ss[i]) /\ h[i] \in Nat
    BY <1>2
  <2> HIDE DEF h
  <2>3. all \in SUBSET Nat
    BY <2>2
  <2>4. CASE all = {}
    BY <2>4
  <2>5. CASE all # {}
    <3>1. \E x \in all : \A y \in all : y <= x
      <4> HIDE DEF all
      <4> QED BY <2>1, <2>3, <2>5, GreatestNumber
    <3> QED BY <2>2, <2>3, <3>1
  <2> QED BY <2>4, <2>5
<1>6. Turns(ss) \subseteq (1..top) \X (1..m)
  <2>1. ASSUME NEW t \in Turns(ss) PROVE t \in (1..top) \X (1..m)
    <3>1. PICK n, i : t = <<n, i>>
      BY <1>4
    <3> QED BY <1>2, <1>3, <1>5, <3>1
  <2> QED BY <2>1
<1>7. IsFiniteSet((1..top) \X (1..m))
  <2>1. IsFiniteSet(1..top) /\ IsFiniteSet(1..m)
    BY <1>1, FS_Interval
  <2> QED BY <2>1, FS_Product
<1>8. IsFiniteSet(Turns(ss))
  BY <1>6, <1>7, FS_Subset
<1> QED BY <1>3, <1>4, <1>8

\* How an interleaving goes through its lists.
Visits(at, n, ss) ==
    /\ n \in Nat /\ at \in [1..n -> Turns(ss)]
    /\ \A t \in Turns(ss) : \E k \in 1..n : at[k] = t
    /\ \A j, k \in 1..n : j < k => Earlier(at[j], at[k])

\* The lists, element by element, in their turns.
LEMMA InTurnIs ==
    ASSUME NEW ss, NEW m, Rows(ss, m)
    PROVE  \E n, at : /\ Visits(at, n, ss) /\ Row(InTurn(ss), n)
                      /\ \A k \in 1..n : InTurn(ss)[k] = ss[at[k][2]][at[k][1]]
<1> DEFINE T == Turns(ss)
           R == {x \in T \X T : Earlier(x[1], x[2])}
           at == Listed(T, R)
           n == Cardinality(T)
<1>1. IsFiniteSet(T) /\ T \subseteq Nat \X (1..m)
  BY TurnsAre
<1> HIDE DEF T
<1>2. \A x, y \in T : <<x, y>> \in R <=> Earlier(x, y)
  OBVIOUS
<1>3. \A x \in T : x[1] \in Int /\ x[2] \in Int /\ x = <<x[1], x[2]>>
  BY <1>1
<1> HIDE DEF R
<1>5. Orders(R, T)
  <2>1. \A x \in T : ~Earlier(x, x)
    BY <1>3 DEF Earlier
  <2>2. \A x, y, z \in T : Earlier(x, y) /\ Earlier(y, z) => Earlier(x, z)
    BY <1>3 DEF Earlier
  <2>3. \A x, y \in T : x # y => Earlier(x, y) \/ Earlier(y, x)
    BY <1>3 DEF Earlier
  <2> QED BY <1>2, <2>1, <2>2, <2>3 DEF Orders
<1>6. /\ n \in Nat /\ at \in [1..n -> T]
      /\ \A x \in T : \E k \in 1..n : at[k] = x
      /\ \A j, k \in 1..n : j < k => <<at[j], at[k]>> \in R
  BY <1>1, <1>5, ListedIs
<1>7. InTurn(ss) = [k \in DOMAIN at |-> ss[at[k][2]][at[k][1]]]
  BY DEF InTurn, R, T
<1> HIDE DEF at, n
<1>8. InTurn(ss) = [k \in 1..n |-> ss[at[k][2]][at[k][1]]]
  BY <1>6, <1>7
<1>9. Row(InTurn(ss), n) /\ \A k \in 1..n : InTurn(ss)[k] = ss[at[k][2]][at[k][1]]
  BY <1>6, <1>8 DEF Row
<1>10. Visits(at, n, ss)
  BY <1>2, <1>6 DEF Visits, T
<1> QED BY <1>9, <1>10

\* What is earlier has been visited.
LEMMA VisitedEarlier ==
    ASSUME NEW ss, NEW m, Rows(ss, m), NEW n, NEW at, Visits(at, n, ss)
    PROVE  \A k \in 1..n : \A t \in Turns(ss) : Earlier(t, at[k]) => \E j \in 1..n : j < k /\ at[j] = t
<1> SUFFICES ASSUME NEW k \in 1..n, NEW t \in Turns(ss), Earlier(t, at[k])
             PROVE  \E j \in 1..n : j < k /\ at[j] = t
  OBVIOUS
<1>1. PICK j \in 1..n : at[j] = t
  BY DEF Visits
<1>2. at[k] \in Turns(ss) /\ Turns(ss) \subseteq Nat \X (1..m) /\ n \in Nat /\ m \in Nat
  BY TurnsAre DEF Visits, Rows, Row
<1>3. \A x \in Turns(ss) : x[1] \in Int /\ x[2] \in Int
  BY <1>2
<1>4. ~Earlier(at[k], t) /\ at[k] # t
  BY <1>2, <1>3 DEF Earlier
<1>5. ~(k < j) /\ k # j
  BY <1>1, <1>4 DEF Visits
<1> QED BY <1>1, <1>2, <1>5

\* Combinations come in an order: by the first number one has and the other has not.
LEMMA SoonerIs ==
    ASSUME NEW S \in SUBSET (SUBSET Nat)
    PROVE  /\ \A A \in S : ~Sooner(A, A)
           /\ \A A, B, C \in S : Sooner(A, B) /\ Sooner(B, C) => Sooner(A, C)
           /\ \A A, B \in S : A # B => Sooner(A, B) \/ Sooner(B, A)
<1>1. \A A \in S : ~Sooner(A, A)
  BY DEF Sooner
<1>2. ASSUME NEW A \in S, NEW B \in S, NEW C \in S, Sooner(A, B), Sooner(B, C) PROVE Sooner(A, C)
  <2>1. PICK i \in A \ B : \A j \in B \ A : i < j
    BY <1>2 DEF Sooner
  <2>2. PICK k \in B \ C : \A j \in C \ B : k < j
    BY <1>2 DEF Sooner
  <2>3. A \subseteq Int /\ B \subseteq Int /\ C \subseteq Int /\ i \in Int /\ k \in Int /\ i # k
    OBVIOUS
  <2>4. CASE i < k
    <3>1. i \in A \ C
      BY <2>2, <2>3, <2>4
    <3>2. \A j \in C \ A : i < j
      BY <2>1, <2>2, <2>3, <2>4
    <3> QED BY <3>1, <3>2 DEF Sooner
  <2>5. CASE k < i
    <3>1. k \in A \ C
      BY <2>1, <2>3, <2>5
    <3>2. \A j \in C \ A : k < j
      BY <2>1, <2>2, <2>3, <2>5
    <3> QED BY <3>1, <3>2 DEF Sooner
  <2> QED BY <2>3, <2>4, <2>5
<1>3. ASSUME NEW A \in S, NEW B \in S, A # B PROVE Sooner(A, B) \/ Sooner(B, A)
  <2> DEFINE D == (A \ B) \cup (B \ A)
  <2>1. PICK d \in D : \A y \in D : d <= y
    <3>1. D \in SUBSET Nat /\ D # {}
      BY <1>3
    <3> HIDE DEF D
    <3> QED BY <3>1, LeastNumber
  <2>2. A \subseteq Int /\ B \subseteq Int
    OBVIOUS
  <2>3. CASE d \in A \ B
    <3>1. \A j \in B \ A : d < j
      BY <2>1, <2>2, <2>3
    <3> QED BY <2>3, <3>1 DEF Sooner
  <2>4. CASE d \in B \ A
    <3>1. \A j \in A \ B : d < j
      BY <2>1, <2>2, <2>4
    <3> QED BY <2>4, <3>1 DEF Sooner
  <2> QED BY <2>3, <2>4
<1> QED BY <1>1, <1>2, <1>3

\* The combinations of one size: all that fit, each with as many parts.
LEMMA CombinationsAre ==
    ASSUME NEW parts, NEW n, Row(parts, n), NEW size
    PROVE  \E c : /\ Row(Combinations(parts, size), c)
                  /\ \A k \in 1..c : Row(Combinations(parts, size)[k], size)
                  /\ Fitting(parts, size) # {} => c > 0
<1> DEFINE S == Fitting(parts, size)
           R == {x \in S \X S : Sooner(x[1], x[2])}
           at == Listed(S, R)
           c == Cardinality(S)
<1>1. DOMAIN parts = 1..n /\ n \in Nat
  BY DEF Row
<1>2. S \subseteq SUBSET (1..n) /\ \A A \in S : Cardinality(A) = size
  BY <1>1 DEF Fitting, kSubset
<1>3. IsFiniteSet(1..n) /\ IsFiniteSet(SUBSET (1..n))
  <2>1. IsFiniteSet(1..n)
    BY <1>1, FS_Interval
  <2> QED BY <2>1, FS_SUBSET
<1> HIDE DEF S
<1>4. IsFiniteSet(S) /\ \A A \in S : IsFiniteSet(A) /\ A \in SUBSET Nat
  <2>1. IsFiniteSet(S)
    BY <1>2, <1>3, FS_Subset
  <2>2. ASSUME NEW A \in S PROVE IsFiniteSet(A) /\ A \in SUBSET Nat
    <3>1. A \in SUBSET (1..n)
      BY <1>2
    <3>2. IsFiniteSet(A)
      BY <1>3, <3>1, FS_Subset
    <3> QED BY <3>1, <3>2
  <2> QED BY <2>1, <2>2
<1>5. \A A, B \in S : <<A, B>> \in R <=> Sooner(A, B)
  OBVIOUS
<1> HIDE DEF R
<1>6. Orders(R, S)
  <2>1. S \in SUBSET (SUBSET Nat)
    BY <1>4
  <2> QED BY <1>5, <2>1, SoonerIs DEF Orders
<1>7. c \in Nat /\ at \in [1..c -> S] /\ \A A \in S : \E k \in 1..c : at[k] = A
  BY <1>4, <1>6, ListedIs
<1>8. Combinations(parts, size) = [k \in DOMAIN at |-> Only(parts, at[k])]
  BY DEF Combinations, R, S
<1> HIDE DEF at, c
<1>9. Combinations(parts, size) = [k \in 1..c |-> Only(parts, at[k])]
  BY <1>7, <1>8
<1>10. \A A \in S : Row(Only(parts, A), size)
  BY <1>2, <1>4, OnlyIs
<1>11. Row(Combinations(parts, size), c) /\ \A k \in 1..c : Row(Combinations(parts, size)[k], size)
  BY <1>7, <1>9, <1>10 DEF Row
<1>12. S # {} => c > 0
  BY <1>7
<1> QED BY <1>11, <1>12 DEF S

\* The parts of a project: a list, as they come in turn and no more than the limit.
LEMMA BoundedIs ==
    ASSUME SearchConstants, case \in Cases, NEW p \in DOMAIN case.families
    PROVE  \E k : Row(Bounded(p), k)
<1> DEFINE all == InTurn(case.families[p])
           m == Len(case.families[p])
<1>1. Rows(case.families[p], m)
  <2>1. IsList(case.families[p]) /\ \A i \in DOMAIN case.families[p] : IsList(case.families[p][i])
    BY DEF SearchConstants
  <2>2. Row(case.families[p], m)
    BY <2>1, ListRow
  <2>3. DOMAIN case.families[p] = 1..m
    BY <2>2 DEF Row
  <2> QED BY <2>1, <2>2, <2>3 DEF Rows
<1>2. PICK n : Row(all, n)
  <2> HIDE DEF m
  <2> QED BY <1>1, InTurnIs
<1>3. Bounded(p) = Take(Unique(all, all), MaxElementary)
  BY DEF Bounded
<1>4. DOMAIN all = 1..n /\ MaxElementary \in Nat
  BY <1>2 DEF Row, SearchConstants
<1> HIDE DEF all
<1>5. \E k, at : Keeps(at, k, all, n, MaxElementary) /\ Row(Take(Unique(all, all), MaxElementary), k)
  BY <1>2, <1>4, KeptAre
<1> QED BY <1>3, <1>5

\* The combinations of every size.
LEMMA SizesAre ==
    ASSUME SearchConstants, case \in Cases, NEW p \in DOMAIN case.families
    PROVE  /\ Rows(BySize(p), MaxBundle)
           /\ \A size \in 1..MaxBundle :
                 /\ BySize(p)[size] = Combinations(Bounded(p), size)
                 /\ \E c : Row(Combinations(Bounded(p), size), c) /\ (Fitting(Bounded(p), size) # {} => c > 0)
                 /\ \A k \in DOMAIN BySize(p)[size] : Row(BySize(p)[size][k], size)
<1>1. PICK n : Row(Bounded(p), n)
  BY BoundedIs
<1>2. MaxBundle \in Nat
  BY DEF SearchConstants
<1>3. Row(BySize(p), MaxBundle) /\ \A size \in 1..MaxBundle : BySize(p)[size] = Combinations(Bounded(p), size)
  BY <1>2 DEF BySize, Row
<1>4. ASSUME NEW size \in 1..MaxBundle
      PROVE  \E c : /\ Row(Combinations(Bounded(p), size), c)
                    /\ \A k \in 1..c : Row(Combinations(Bounded(p), size)[k], size)
                    /\ Fitting(Bounded(p), size) # {} => c > 0
  BY <1>1, CombinationsAre
<1>5. ASSUME NEW size \in 1..MaxBundle
      PROVE  /\ IsList(BySize(p)[size])
             /\ \E c : Row(Combinations(Bounded(p), size), c) /\ (Fitting(Bounded(p), size) # {} => c > 0)
             /\ \A k \in DOMAIN BySize(p)[size] : Row(BySize(p)[size][k], size)
  <2>1. PICK c : /\ Row(Combinations(Bounded(p), size), c)
                 /\ \A k \in 1..c : Row(Combinations(Bounded(p), size)[k], size)
                 /\ Fitting(Bounded(p), size) # {} => c > 0
    BY <1>4
  <2>2. IsList(Combinations(Bounded(p), size)) /\ DOMAIN Combinations(Bounded(p), size) = 1..c
    BY <2>1, RowList
  <2> QED BY <1>3, <2>1, <2>2
<1> QED BY <1>3, <1>5 DEF Rows

\* What is kept of a list of part lists.
LEMMA KeptOfIs ==
    ASSUME SearchConstants, NEW all, NEW n, Row(all, n)
    PROVE  \E k, at : /\ Keeps(at, k, Signatures(all), n, MaxCandidates)
                      /\ Row(KeptOf(all), k) /\ \A i \in 1..k : KeptOf(all)[i] = all[at[i]]
<1>1. DOMAIN all = 1..n
  BY DEF Row
<1>2. DOMAIN Signatures(all) = 1..n
  BY <1>1 DEF Signatures
<1>3. MaxCandidates \in Nat
  BY DEF SearchConstants
<1> QED BY <1>2, <1>3, KeptAre DEF KeptOf

\* A search has a list of candidates.
LEMMA SearchOfIs ==
    ASSUME SearchConstants, case \in Cases, NEW p \in DOMAIN case.families
    PROVE  \E k \in 0..MaxCandidates : Row(SearchOf(p), k)
<1>1. Rows(BySize(p), MaxBundle)
  BY SizesAre
<1>2. PICK n : Row(InTurn(BySize(p)), n)
  BY <1>1, InTurnIs
<1>3. PICK k, at : Keeps(at, k, Signatures(InTurn(BySize(p))), n, MaxCandidates) /\ Row(KeptOf(InTurn(BySize(p))), k)
  BY <1>2, KeptOfIs
<1> QED BY <1>3 DEF SearchOf, Keeps

\* Two parts that fit are a combination of two, and each is one of one.
LEMMA PairFits ==
    ASSUME NEW parts, NEW n, Row(parts, n), NEW i \in 1..n, NEW j \in 1..n, i < j, Fits(<<parts[i], parts[j]>>)
    PROVE  {i, j} \in Fitting(parts, 2) /\ {i} \in Fitting(parts, 1)
<1>1. n \in Nat /\ DOMAIN parts = 1..n
  BY DEF Row
<1>2. {i, j} \in SUBSET (1..n) /\ {i} \in SUBSET (1..n) /\ {i, j} \in SUBSET Nat /\ {i} \in SUBSET Nat
  BY <1>1
<1>3. IsFiniteSet({i}) /\ Cardinality({i}) = 1
  BY FS_Singleton
<1>4. IsFiniteSet({i, j}) /\ Cardinality({i, j}) = 2
  <2>1. {i, j} = {i} \cup {j} /\ j \notin {i}
    BY <1>1
  <2>2. PICK S : S = {i}
    OBVIOUS
  <2>3. IsFiniteSet(S) /\ Cardinality(S) = 1 /\ j \notin S
    BY <1>3, <2>1, <2>2
  <2>4. IsFiniteSet(S \cup {j}) /\ Cardinality(S \cup {j}) = IF j \in S THEN Cardinality(S) ELSE Cardinality(S) + 1
    BY <2>3, FS_AddElement
  <2> QED BY <2>1, <2>2, <2>3, <2>4
<1>5. {i} \in kSubset(1, DOMAIN parts) /\ {i, j} \in kSubset(2, DOMAIN parts)
  BY <1>1, <1>2, <1>3, <1>4 DEF kSubset
<1>6. Fits(Only(parts, {i}))
  <2>1. Row(Only(parts, {i}), 1)
    BY <1>2, <1>3, OnlyIs
  <2> QED BY <2>1 DEF Fits, Row
<1>7. Fits(Only(parts, {i, j}))
  <2>1. PICK at : /\ Row(Only(parts, {i, j}), 2) /\ Places(at, {i, j})
                  /\ \A k \in 1..2 : Only(parts, {i, j})[k] = parts[at[k]]
    BY <1>2, <1>4, OnlyIs
  <2>2. at[1] \in {i, j} /\ at[2] \in {i, j} /\ at[1] < at[2]
    BY <1>4, <2>1 DEF Places
  <2>3. at[1] = i /\ at[2] = j
    BY <1>1, <2>2
  <2>4. Only(parts, {i, j})[1] = parts[i] /\ Only(parts, {i, j})[2] = parts[j]
    BY <2>1, <2>3
  <2>5. <<parts[i], parts[j]>> \notin Conflicts
    BY DEF Fits
  <2>6. DOMAIN Only(parts, {i, j}) = 1..2
    BY <2>1 DEF Row
  <2>7. ASSUME NEW a \in 1..2, NEW b \in 1..2, a < b
        PROVE  <<Only(parts, {i, j})[a], Only(parts, {i, j})[b]>> \notin Conflicts
    <3>1. a = 1 /\ b = 2
      BY <2>7
    <3> QED BY <2>4, <2>5, <3>1
  <2> QED BY <2>6, <2>7 DEF Fits
<1> QED BY <1>5, <1>6, <1>7 DEF Fitting

\* One action is never the same work as two.
LEMMA OneIsNotTwo ==
    ASSUME NEW u, NEW v, Row(u, 1), Row(v, 2)
    PROVE  ActionSignature(u) # ActionSignature(v)
<1> SUFFICES ASSUME ActionSignature(u) = ActionSignature(v) PROVE FALSE
  OBVIOUS
<1>1. DOMAIN u = 1..1 /\ DOMAIN v = 1..2
  BY DEF Row
<1> DEFINE k == u[1].kind
<1>2. v[1].kind = k /\ v[2].kind = k
  <2>1. {u[i].kind : i \in DOMAIN u} = {v[i].kind : i \in DOMAIN v}
    BY DEF ActionSignature
  <2> QED BY <1>1, <2>1
<1>3. PartsOf(u, k) = 1..1 /\ PartsOf(v, k) = 1..2
  <2>1. \A i \in 1..1 : i = 1
    OBVIOUS
  <2>2. \A i \in 1..2 : i = 1 \/ i = 2
    OBVIOUS
  <2> QED BY <1>1, <1>2, <2>1, <2>2 DEF PartsOf
<1>4. ActionSignature(u)[k] = Only(u, 1..1) /\ ActionSignature(v)[k] = Only(v, 1..2)
  <2>1. k \in {u[i].kind : i \in DOMAIN u} /\ k \in {v[i].kind : i \in DOMAIN v}
    BY <1>1, <1>2
  <2>2. ActionSignature(u)[k] = Only(u, PartsOf(u, k)) /\ ActionSignature(v)[k] = Only(v, PartsOf(v, k))
    BY <2>1 DEF ActionSignature
  <2> QED BY <1>3, <2>2
<1>5. Row(Only(u, 1..1), 1) /\ Row(Only(v, 1..2), 2)
  <2>1. IsFiniteSet(1..1) /\ Cardinality(1..1) = 1 /\ IsFiniteSet(1..2) /\ Cardinality(1..2) = 2
    <3>1. 1..1 = {1} /\ 1..2 = {1} \cup {2} /\ 2 \notin {1}
      OBVIOUS
    <3>2. IsFiniteSet({1}) /\ Cardinality({1}) = 1
      BY FS_Singleton
    <3>3. IsFiniteSet({1} \cup {2}) /\ Cardinality({1} \cup {2}) = 1 + 1
      BY <3>1, <3>2, FS_AddElement
    <3> QED BY <3>1, <3>2, <3>3
  <2>2. 1..1 \in SUBSET Nat /\ 1..2 \in SUBSET Nat
    OBVIOUS
  <2> QED BY <2>1, <2>2, OnlyIs
<1>6. DOMAIN Only(u, 1..1) = 1..1 /\ DOMAIN Only(v, 1..2) = 1..2
  BY <1>5 DEF Row
<1>7. 2 \in 1..2 /\ 2 \notin 1..1
  OBVIOUS
<1> QED BY <1>4, <1>6, <1>7

\* The first turns are the first of the first list and the first of the second.
LEMMA FirstTurns ==
    ASSUME NEW ss, NEW m, Rows(ss, m), 2 <= m, NEW n, NEW at, Visits(at, n, ss),
           <<1, 1>> \in Turns(ss), <<1, 2>> \in Turns(ss)
    PROVE  2 <= n /\ at[1] = <<1, 1>> /\ at[2] = <<1, 2>>
<1>1. n \in Nat /\ at \in [1..n -> Turns(ss)] /\ m \in Nat
  BY DEF Visits, Rows, Row
<1>2. \A t \in Turns(ss) : t = <<t[1], t[2]>> /\ t[1] \in Nat \ {0} /\ t[2] \in Nat \ {0}
  <2> TAKE t \in Turns(ss)
  <2>1. t = <<t[1], t[2]>>
    BY TurnsAre
  <2>2. t[2] \in 1..m /\ t[1] \in 1..Len(ss[t[2]])
    BY <2>1, TurnsAre
  <2>3. Len(ss[t[2]]) \in Nat
    BY <2>2, ListRow DEF Rows, Row
  <2> QED BY <1>1, <2>1, <2>2, <2>3
<1>3. \A t \in Turns(ss) : ~Earlier(t, <<1, 1>>)
  BY <1>2 DEF Earlier
<1>4. \A t \in Turns(ss) : Earlier(t, <<1, 2>>) => t = <<1, 1>>
  BY <1>2 DEF Earlier
<1>5. PICK a \in 1..n : at[a] = <<1, 1>>
  BY DEF Visits
<1>6. PICK b \in 1..n : at[b] = <<1, 2>>
  BY DEF Visits
<1>7. a = 1
  <2> SUFFICES ASSUME 1 < a PROVE FALSE
    BY <1>1
  <2>1. 1 \in 1..n /\ Earlier(at[1], at[a])
    BY <1>1 DEF Visits
  <2> QED BY <1>1, <1>3, <1>5, <2>1
<1>8. b # 1 /\ 2 <= b
  BY <1>1, <1>5, <1>6, <1>7
<1>9. b = 2
  <2> SUFFICES ASSUME 2 < b PROVE FALSE
    BY <1>1, <1>8
  <2>1. 2 \in 1..n /\ 1 \in 1..n
    BY <1>1, <1>8
  <2>2. Earlier(at[2], at[b]) /\ Earlier(at[1], at[2])
    BY <2>1 DEF Visits
  <2>3. at[2] = <<1, 1>>
    BY <1>1, <1>4, <1>6, <2>1, <2>2
  <2> QED BY <1>1, <1>3, <2>1, <2>2, <2>3
<1> QED BY <1>1, <1>5, <1>6, <1>7, <1>9

\* A list that begins with two signatures keeps both.
LEMMA FirstTwoKept ==
    ASSUME NEW at, NEW k, NEW sig, NEW n \in Nat, NEW max \in Nat, Keeps(at, k, sig, n, max),
           2 <= n, 2 <= max, sig[1] # sig[2]
    PROVE  2 <= k /\ at[2] = 2
<1>1. k \in Nat /\ at \in [1..k -> 1..n] /\ 1 \in 1..n /\ 2 \in 1..n
  BY DEF Keeps
<1>2. 2 <= k
  <2> SUFFICES ASSUME k < 2 PROVE FALSE
    BY <1>1
  <2>1. PICK i \in 1..k : sig[at[i]] = sig[1]
    BY <1>1 DEF Keeps
  <2>2. PICK j \in 1..k : sig[at[j]] = sig[2]
    BY <1>1 DEF Keeps
  <2>3. i = 1 /\ j = 1
    BY <1>1, <2>1, <2>2
  <2> QED BY <2>1, <2>2, <2>3
<1>3. 1 \in 1..k /\ 2 \in 1..k
  BY <1>1, <1>2
<1>4. at[1] = 1
  <2> SUFFICES ASSUME 1 < at[1] PROVE FALSE
    BY <1>1, <1>3
  <2>1. \E j \in 1..(1 - 1) : sig[at[j]] = sig[1]
    BY <1>1, <1>3 DEF Keeps
  <2> QED BY <2>1
<1>5. at[1] < at[2]
  BY <1>3 DEF Keeps
<1>6. at[2] = 2
  <2> SUFFICES ASSUME 2 < at[2] PROVE FALSE
    BY <1>1, <1>3, <1>4, <1>5
  <2>1. PICK j \in 1..(2 - 1) : sig[at[j]] = sig[2]
    BY <1>1, <1>3 DEF Keeps
  <2>2. j = 1
    BY <2>1
  <2> QED BY <1>4, <2>1, <2>2
<1> QED BY <1>2, <1>6

\* A search that can combine two actions has a pair second.
LEMMA PairIsSecond ==
    ASSUME SearchConstants, case \in Cases, NEW p \in DOMAIN case.families, MaxBundle > 1, MaxCandidates > 1,
           NEW i \in DOMAIN Bounded(p), NEW j \in DOMAIN Bounded(p), i < j,
           Fits(<<Bounded(p)[i], Bounded(p)[j]>>)
    PROVE  2 \in DOMAIN SearchOf(p) /\ Len(SearchOf(p)[2]) = 2
<1>1. PICK z : Row(Bounded(p), z)
  BY BoundedIs
<1>2. i \in 1..z /\ j \in 1..z
  BY <1>1 DEF Row
<1>3. {i, j} \in Fitting(Bounded(p), 2) /\ {i} \in Fitting(Bounded(p), 1)
  BY <1>1, <1>2, PairFits
<1> DEFINE ss == BySize(p)
<1>4. MaxBundle \in Nat /\ MaxCandidates \in Nat /\ 2 <= MaxBundle /\ 2 <= MaxCandidates
  BY DEF SearchConstants
<1>5. Rows(ss, MaxBundle) /\ \A size \in 1..MaxBundle :
                 /\ ss[size] = Combinations(Bounded(p), size)
                 /\ \E c : Row(Combinations(Bounded(p), size), c) /\ (Fitting(Bounded(p), size) # {} => c > 0)
                 /\ \A k \in DOMAIN ss[size] : Row(ss[size][k], size)
  BY SizesAre
<1> HIDE DEF ss
<1>6. ASSUME NEW size \in 1..2, Fitting(Bounded(p), size) # {}
      PROVE  <<1, size>> \in Turns(ss) /\ Row(ss[size][1], size)
  <2>1. size \in 1..MaxBundle
    BY <1>4
  <2>2. PICK c : Row(ss[size], c) /\ c > 0
    BY <1>5, <1>6, <2>1
  <2>3. 1 \in 1..c /\ DOMAIN ss[size] = 1..c /\ Len(ss[size]) = c
    BY <2>2, RowList DEF Row
  <2>4. <<1, size>> \in Turns(ss)
    BY <1>5, <2>1, <2>3, TurnsAre
  <2> QED BY <1>5, <2>1, <2>3, <2>4
<1>7. <<1, 1>> \in Turns(ss) /\ <<1, 2>> \in Turns(ss) /\ Row(ss[1][1], 1) /\ Row(ss[2][1], 2)
  BY <1>3, <1>6
<1>8. PICK n, at : /\ Visits(at, n, ss) /\ Row(InTurn(ss), n)
                   /\ \A k \in 1..n : InTurn(ss)[k] = ss[at[k][2]][at[k][1]]
  BY <1>5, InTurnIs
<1>9. 2 <= n /\ at[1] = <<1, 1>> /\ at[2] = <<1, 2>>
  BY <1>4, <1>5, <1>7, <1>8, FirstTurns
<1> DEFINE all == InTurn(ss)
<1>10. n \in Nat /\ 1 \in 1..n /\ 2 \in 1..n
  BY <1>8, <1>9 DEF Row
<1>11. all[1] = ss[1][1] /\ all[2] = ss[2][1]
  BY <1>8, <1>9, <1>10
<1>12. Row(all, n)
  BY <1>8
<1>13. SearchOf(p) = KeptOf(all)
  BY DEF SearchOf, ss
<1> HIDE DEF all
<1>14. Signatures(all)[1] # Signatures(all)[2]
  <2>1. DOMAIN all = 1..n
    BY <1>12 DEF Row
  <2>2. ActionSignature(all[1]) # ActionSignature(all[2])
    BY <1>7, <1>11, OneIsNotTwo
  <2> QED BY <1>10, <2>1, <2>2 DEF Signatures
<1>15. PICK k, kept : /\ Keeps(kept, k, Signatures(all), n, MaxCandidates)
                      /\ Row(KeptOf(all), k) /\ \A x \in 1..k : KeptOf(all)[x] = all[kept[x]]
  BY <1>12, KeptOfIs
<1>16. 2 <= k /\ kept[2] = 2
  BY <1>4, <1>9, <1>10, <1>14, <1>15, FirstTwoKept
<1>17. DOMAIN KeptOf(all) = 1..k /\ 2 \in 1..k
  BY <1>15, <1>16 DEF Row
<1>18. KeptOf(all)[2] = ss[2][1]
  BY <1>11, <1>15, <1>16, <1>17
<1>19. Len(ss[2][1]) = 2
  BY <1>7, RowList
<1> QED BY <1>13, <1>17, <1>18, <1>19

\* One list after the other.
Joined(both, s, m, t, n) ==
    Row(both, m + n) /\ (\A i \in 1..m : both[i] = s[i]) /\ \A i \in 1..n : both[m + i] = t[i]

\* Nothing is lost when lists are joined.
LEMMA BothLists ==
    ASSUME NEW s, NEW m, Row(s, m), NEW t, NEW n, Row(t, n)
    PROVE  Joined(s \o t, s, m, t, n)
<1> DEFINE S == Range(s) \cup Range(t)
<1>1. m \in Nat /\ n \in Nat /\ Len(s) = m /\ Len(t) = n /\ s \in Seq(Range(s)) /\ t \in Seq(Range(t))
  BY RowList DEF Row, IsList
<1>2. s \in Seq(S) /\ t \in Seq(S)
  BY <1>1, SeqMonotonic
<1> HIDE DEF S
<1>3. /\ s \o t \in Seq(S) /\ Len(s \o t) = m + n
      /\ \A i \in 1..(m + n) : (s \o t)[i] = IF i <= m THEN s[i] ELSE t[i - m]
  BY <1>1, <1>2, ConcatProperties
<1>4. s \o t \in [1..(m + n) -> S]
  BY <1>3, LenProperties
<1>5. Row(s \o t, m + n)
  BY <1>1, <1>4 DEF Row
<1>6. \A i \in 1..m : (s \o t)[i] = s[i]
  BY <1>1, <1>3
<1>7. ASSUME NEW i \in 1..n PROVE (s \o t)[m + i] = t[i]
  <2>1. m + i \in 1..(m + n) /\ ~(m + i <= m) /\ (m + i) - m = i
    BY <1>1
  <2> QED BY <1>3, <2>1
<1> QED BY <1>5, <1>6, <1>7 DEF Joined

\* All projects have been searched.
Searched == /\ DOMAIN searches = DOMAIN case.families
            /\ \A p \in DOMAIN searches : searches[p] = SearchOf(p)

\* The searches in their order, and what is kept of them.
Searches == [i \in DOMAIN case.order |-> searches[case.order[i]]]

\* They are lists, within the limit, and every project is in the order.
LEMMA OrderedIs ==
    ASSUME SearchConstants, case \in Cases, Searched
    PROVE  /\ Rows(Searches, Len(case.order))
           /\ \A i \in 1..Len(case.order) :
                 /\ Searches[i] = searches[case.order[i]]
                 /\ \E k \in 0..MaxCandidates : Row(Searches[i], k)
           /\ \A p \in DOMAIN searches : \E i \in 1..Len(case.order) : Searches[i] = searches[p]
<1>1. IsList(case.order) /\ Range(case.order) = DOMAIN case.families
  BY DEF SearchConstants
<1>2. PICK m : m = Len(case.order) /\ Row(case.order, m)
  BY <1>1, ListRow
<1>3. DOMAIN case.order = 1..m /\ m \in Nat
  BY <1>2 DEF Row
<1>4. Row(Searches, m) /\ \A i \in 1..m : Searches[i] = searches[case.order[i]]
  BY <1>3 DEF Searches, Row
<1>5. \A i \in 1..m : case.order[i] \in DOMAIN case.families
  BY <1>1, <1>3 DEF Range
<1>6. ASSUME NEW i \in 1..m PROVE IsList(Searches[i]) /\ \E k \in 0..MaxCandidates : Row(Searches[i], k)
  <2>1. Searches[i] = SearchOf(case.order[i])
    BY <1>4, <1>5 DEF Searched
  <2>2. PICK k \in 0..MaxCandidates : Row(Searches[i], k)
    BY <1>5, <2>1, SearchOfIs
  <2> QED BY <2>2, RowList
<1>7. ASSUME NEW p \in DOMAIN searches PROVE \E i \in 1..m : Searches[i] = searches[p]
  <2>1. PICK i \in 1..m : case.order[i] = p
    BY <1>1, <1>3 DEF Range, Searched
  <2> QED BY <1>4, <2>1
<1> QED BY <1>2, <1>4, <1>6, <1>7 DEF Rows

\* What is generated: what is kept of the searches in turn, each under an id of its own.
LEMMA GeneratedIs ==
    ASSUME SearchConstants, case \in Cases, Searched
    PROVE  \E n, at, k, kept :
              /\ Visits(at, n, Searches) /\ Row(InTurn(Searches), n)
              /\ \A b \in 1..n : InTurn(Searches)[b] = Searches[at[b][2]][at[b][1]]
              /\ Keeps(kept, k, Signatures(InTurn(Searches)), n, MaxCandidates)
              /\ Row(Generated, k)
              /\ \A i \in 1..k : /\ Generated[i].parts = InTurn(Searches)[kept[i]] /\ Generated[i].errors = FALSE
                                 /\ Generated[i].id \in {<<"portfolio", i>>, <<"bundle", InTurn(Searches)[kept[i]]>>}
              /\ \A i, j \in 1..k : i < j => Generated[i].id # Generated[j].id
<1> DEFINE all == InTurn(Searches)
           list == KeptOf(all)
<1>1. PICK m : Rows(Searches, m)
  BY OrderedIs
<1>2. PICK n, at : Visits(at, n, Searches) /\ Row(all, n) /\ \A b \in 1..n : all[b] = Searches[at[b][2]][at[b][1]]
  BY <1>1, InTurnIs
<1> HIDE DEF all
<1>3. PICK k, kept : /\ Keeps(kept, k, Signatures(all), n, MaxCandidates)
                     /\ Row(list, k) /\ \A i \in 1..k : list[i] = all[kept[i]]
  BY <1>2, KeptOfIs
<1>4. Generated = IF case.portfolio THEN PortfolioIds(list)
                  ELSE [i \in DOMAIN list |-> [id |-> <<"bundle", list[i]>>, parts |-> list[i], errors |-> FALSE]]
  BY DEF Generated, Searches, all
<1> HIDE DEF list
<1>5. DOMAIN list = 1..k /\ k \in Nat
  BY <1>3 DEF Row
<1>6. Row(Generated, k)
  BY <1>4, <1>5 DEF Row, PortfolioIds
<1>7. ASSUME NEW i \in 1..k
      PROVE  /\ Generated[i].parts = list[i] /\ Generated[i].errors = FALSE
             /\ Generated[i].id = IF case.portfolio THEN <<"portfolio", i>> ELSE <<"bundle", list[i]>>
  BY <1>4, <1>5 DEF PortfolioIds
<1>8. ASSUME NEW i \in 1..k, NEW j \in 1..k, i < j PROVE list[i] # list[j]
  <2>1. kept[i] \in 1..n /\ kept[j] \in 1..n /\ Signatures(all)[kept[i]] # Signatures(all)[kept[j]]
    BY <1>3, <1>8 DEF Keeps
  <2>2. DOMAIN all = 1..n
    BY <1>2 DEF Row
  <2>3. ActionSignature(all[kept[i]]) # ActionSignature(all[kept[j]])
    BY <2>1, <2>2 DEF Signatures
  <2> QED BY <1>3, <2>3
<1>9. ASSUME NEW i \in 1..k, NEW j \in 1..k, i < j PROVE Generated[i].id # Generated[j].id
  <2>1. i # j
    BY <1>5, <1>9
  <2>2. CASE case.portfolio
    <3>1. Generated[i].id = <<"portfolio", i>> /\ Generated[j].id = <<"portfolio", j>>
      BY <1>7, <2>2
    <3>2. <<"portfolio", i>>[2] # <<"portfolio", j>>[2]
      BY <2>1
    <3> QED BY <3>1, <3>2
  <2>3. CASE ~case.portfolio
    <3>1. Generated[i].id = <<"bundle", list[i]>> /\ Generated[j].id = <<"bundle", list[j]>>
      BY <1>7, <2>3
    <3>2. <<"bundle", list[i]>>[2] # <<"bundle", list[j]>>[2]
      BY <1>8, <1>9
    <3> QED BY <3>1, <3>2
  <2> QED BY <2>2, <2>3
<1>10. ASSUME NEW i \in 1..k
       PROVE  /\ Generated[i].parts = all[kept[i]] /\ Generated[i].errors = FALSE
              /\ Generated[i].id \in {<<"portfolio", i>>, <<"bundle", all[kept[i]]>>}
  BY <1>3, <1>7
<1> QED BY <1>2, <1>3, <1>6, <1>9, <1>10 DEF all

\* Candidates that are given, each under an id of its own.
LEMMA ExplicitIs ==
    ASSUME NEW given, NEW n, Row(given, n)
    PROVE  /\ Row(Explicit(given), n)
           /\ \A i \in 1..n : \E a, b : Explicit(given)[i].id = <<"given", a, b>>
           /\ \A i, j \in 1..n : i < j => Explicit(given)[i].id # Explicit(given)[j].id
<1>1. DOMAIN given = 1..n /\ n \in Nat
  BY DEF Row
<1> DEFINE uses(i) == {j \in 1..(i - 1) : given[j].id = given[i].id}
<1>2. Row(Explicit(given), n)
  BY <1>1 DEF Explicit, Row
<1>3. \A i \in 1..n : Explicit(given)[i].id = <<"given", given[i].id, Cardinality(uses(i))>>
  BY <1>1 DEF Explicit
<1>4. ASSUME NEW i \in 1..n, NEW j \in 1..n, i < j PROVE Explicit(given)[i].id # Explicit(given)[j].id
  <2> SUFFICES ASSUME given[i].id = given[j].id PROVE Cardinality(uses(i)) # Cardinality(uses(j))
    BY <1>3
  <2>1. IsFiniteSet(1..(j - 1)) /\ uses(j) \in SUBSET (1..(j - 1))
    <3>1. j - 1 \in Int
      BY <1>1
    <3> QED BY <3>1, FS_Interval
  <2>2. uses(i) \subseteq uses(j) /\ i \in uses(j) /\ i \notin uses(i)
    BY <1>1, <1>4
  <2> HIDE DEF uses
  <2>3. IsFiniteSet(uses(j))
    BY <2>1, FS_Subset
  <2> QED BY <2>2, <2>3, FS_Subset
<1> QED BY <1>2, <1>3, <1>4

\* The proposals are a list.
LEMMA ExtraIs ==
    ASSUME SearchConstants, case \in Cases
    PROVE  \E n : /\ Row(Extra, n)
                  /\ \A i \in 1..n : \E a, b : Extra[i].id = <<"given", a, b>>
                  /\ \A i, j \in 1..n : i < j => Extra[i].id # Extra[j].id
<1>1. Row(case.proposals, Len(case.proposals))
  BY ListRow DEF SearchConstants, AreGiven
<1>2. MaxProposals \in Nat
  BY DEF SearchConstants
<1>3. PICK n : Row(Take(case.proposals, MaxProposals), n)
  BY <1>1, <1>2, TakeIs
<1> QED BY <1>3, ExplicitIs DEF Extra

\* What is evaluated: first the proposals, then the candidates of the search, as far as
\* they are different work and the limit allows.
Queues(x, e, k) ==
    /\ Row(Extra, e) /\ Row(Own, k) /\ Joined(Extra \o Own, Extra, e, Own, k)
    /\ \E n : /\ Keeps(x, n, EffectsOf(Extra \o Own), e + k, MaxCandidates)
              /\ Row(ToEvaluate, n) /\ \A i \in 1..n : ToEvaluate[i] = (Extra \o Own)[x[i]]

\* The queue is such a queue.
LEMMA QueueIs ==
    ASSUME SearchConstants, case \in Cases, case.explicit = Unset => Searched
    PROVE  \E x, e, k : Queues(x, e, k)
<1>1. PICK e : Row(Extra, e)
  BY ExtraIs
<1>2. PICK k : Row(Own, k)
  <2>1. CASE case.explicit = Unset
    <3>1. \E k : Row(Generated, k)
      BY <2>1, GeneratedIs
    <3> QED BY <2>1, <3>1 DEF Own
  <2>2. CASE case.explicit # Unset
    <3>1. Row(case.explicit, Len(case.explicit))
      BY <2>2, ListRow DEF SearchConstants, AreGiven
    <3> QED BY <2>2, <3>1, ExplicitIs DEF Own
  <2> QED BY <2>1, <2>2
<1> DEFINE s == Extra \o Own
<1>3. Joined(s, Extra, e, Own, k)
  BY <1>1, <1>2, BothLists
<1>4. ToEvaluate = Take(Unique(s, EffectsOf(s)), MaxCandidates)
  BY DEF ToEvaluate
<1> HIDE DEF s
<1>5. DOMAIN EffectsOf(s) = 1..(e + k)
  BY <1>3 DEF EffectsOf, Row, Joined
<1>6. MaxCandidates \in Nat
  BY DEF SearchConstants
<1>7. PICK n, x : /\ Keeps(x, n, EffectsOf(s), e + k, MaxCandidates)
                  /\ Row(Take(Unique(s, EffectsOf(s)), MaxCandidates), n)
                  /\ \A i \in 1..n : Take(Unique(s, EffectsOf(s)), MaxCandidates)[i] = s[x[i]]
  BY <1>3, <1>5, <1>6, KeptAre DEF Joined
<1> QED BY <1>1, <1>2, <1>3, <1>4, <1>7 DEF Queues, s

\* No two of them do the same work, and what is searched has ids of its own.
LEMMA QueueIsOnce ==
    ASSUME SearchConstants, case \in Cases, case.explicit = Unset => Searched
    PROVE  \A i, j \in DOMAIN ToEvaluate : i < j =>
              /\ Effect(ToEvaluate[i]) # Effect(ToEvaluate[j])
              /\ case.explicit = Unset => ToEvaluate[i].id # ToEvaluate[j].id
<1> DEFINE s == Extra \o Own
<1>1. PICK x, e, k : Queues(x, e, k)
  BY QueueIs
<1>2. Row(s, e + k) /\ (\A i \in 1..e : s[i] = Extra[i]) /\ (\A i \in 1..k : s[e + i] = Own[i]) /\ Row(Extra, e) /\ Row(Own, k)
  BY <1>1 DEF Queues, Joined
<1>3. PICK n : /\ Keeps(x, n, EffectsOf(s), e + k, MaxCandidates)
               /\ Row(ToEvaluate, n) /\ \A i \in 1..n : ToEvaluate[i] = s[x[i]]
  BY <1>1 DEF Queues
<1> HIDE DEF s
<1>4. DOMAIN ToEvaluate = 1..n /\ DOMAIN s = 1..(e + k) /\ e \in Nat /\ k \in Nat /\ n \in Nat
  BY <1>2, <1>3 DEF Row
<1>5. ASSUME NEW i \in 1..n, NEW j \in 1..n, i < j PROVE Effect(ToEvaluate[i]) # Effect(ToEvaluate[j])
  <2>1. x[i] \in 1..(e + k) /\ x[j] \in 1..(e + k) /\ EffectsOf(s)[x[i]] # EffectsOf(s)[x[j]]
    BY <1>3, <1>5 DEF Keeps
  <2> QED BY <1>3, <1>4, <2>1 DEF EffectsOf
<1>6. ASSUME case.explicit = Unset, NEW a \in 1..(e + k), NEW b \in 1..(e + k), a < b PROVE s[a].id # s[b].id
  <2>1. Own = Generated
    BY <1>6 DEF Own
  <2>2. \A i, j \in 1..k : i < j => Own[i].id # Own[j].id
    <3>1. PICK kk : Row(Generated, kk) /\ \A i, j \in 1..kk : i < j => Generated[i].id # Generated[j].id
      BY <1>6, GeneratedIs
    <3>2. kk = k
      <4>1. Len(Generated) = kk /\ Len(Generated) = k
        BY <1>2, <2>1, <3>1, RowList
      <4> QED BY <4>1
    <3> QED BY <2>1, <3>1, <3>2
  <2>3. \A i \in 1..k : \E y, z : Own[i].id = <<y, z>>
    <3>1. PICK kk, all, kept : /\ Row(Generated, kk)
                /\ \A i \in 1..kk : Generated[i].id \in {<<"portfolio", i>>, <<"bundle", all[kept[i]]>>}
      BY <1>6, GeneratedIs
    <3>2. kk = k
      <4>1. Len(Generated) = kk /\ Len(Generated) = k
        BY <1>2, <2>1, <3>1, RowList
      <4> QED BY <4>1
    <3> QED BY <2>1, <3>1, <3>2
  <2>4. /\ \A i \in 1..e : \E y, z : Extra[i].id = <<"given", y, z>>
        /\ \A i, j \in 1..e : i < j => Extra[i].id # Extra[j].id
    <3>1. PICK ee : /\ Row(Extra, ee) /\ \A i \in 1..ee : \E y, z : Extra[i].id = <<"given", y, z>>
                    /\ \A i, j \in 1..ee : i < j => Extra[i].id # Extra[j].id
      BY ExtraIs
    <3>2. ee = e
      <4>1. Len(Extra) = ee /\ Len(Extra) = e
        BY <1>2, <3>1, RowList
      <4> QED BY <4>1
    <3> QED BY <3>1, <3>2
  <2>5. CASE b <= e
    <3>1. a \in 1..e /\ b \in 1..e
      BY <1>4, <1>6, <2>5
    <3> QED BY <1>2, <1>6, <2>4, <3>1
  <2>6. CASE a <= e /\ e < b
    <3>1. PICK i \in 1..k : b = e + i
      <4>1. b - e \in 1..k /\ b = e + (b - e)
        BY <1>4, <2>6
      <4> QED BY <4>1
    <3>2. a \in 1..e
      BY <1>4, <2>6
    <3>3. PICK y, z : s[a].id = <<"given", y, z>>
      BY <1>2, <2>4, <3>2
    <3>4. PICK u, v : s[b].id = <<u, v>>
      BY <1>2, <2>3, <3>1
    <3>5. <<"given", y, z>> # <<u, v>>
      <4>1. Len(<<"given", y, z>>) = 3 /\ Len(<<u, v>>) = 2
        OBVIOUS
      <4> QED BY <4>1
    <3> QED BY <3>3, <3>4, <3>5
  <2>7. CASE e < a
    <3>1. PICK i, j \in 1..k : a = e + i /\ b = e + j /\ i < j
      <4>1. a - e \in 1..k /\ b - e \in 1..k /\ a = e + (a - e) /\ b = e + (b - e) /\ a - e < b - e
        BY <1>4, <1>6, <2>7
      <4> QED BY <4>1
    <3> QED BY <1>2, <2>2, <3>1
  <2> QED BY <1>4, <2>5, <2>6, <2>7
<1>7. ASSUME case.explicit = Unset, NEW i \in 1..n, NEW j \in 1..n, i < j PROVE ToEvaluate[i].id # ToEvaluate[j].id
  <2>1. x[i] \in 1..(e + k) /\ x[j] \in 1..(e + k) /\ x[i] < x[j]
    BY <1>3, <1>7 DEF Keeps
  <2> QED BY <1>3, <1>6, <1>7, <2>1
<1> QED BY <1>4, <1>5, <1>7

\* The least of some numbers is one of them, and at most each.
LEMMA MinIs == ASSUME NEW S \in SUBSET Nat, NEW x \in S PROVE Min(S) \in Nat /\ Min(S) \in S /\ Min(S) <= x
<1>1. PICK y \in S : \A z \in S : y <= z
  BY LeastNumber
<1>2. Min(S) = CHOOSE z \in S : \A w \in S : z <= w
  BY DEF Min
<1> QED BY <1>1, <1>2

\* What has been evaluated is the begin of the queue.
Progress ==
    /\ IsList(evaluated) /\ Len(evaluated) <= Len(ToEvaluate)
    /\ \A i \in 1..Len(evaluated) : evaluated[i] = ToEvaluate[i]

\* The evaluated candidates, and where they come from.
LEMMA EvaluatedIs ==
    ASSUME SearchConstants, case \in Cases, case.explicit = Unset => Searched, Progress
    PROVE  /\ DOMAIN evaluated = 1..Len(evaluated) /\ Len(evaluated) \in Nat
           /\ DOMAIN evaluated \subseteq DOMAIN ToEvaluate
<1>1. Row(evaluated, Len(evaluated))
  BY ListRow DEF Progress
<1>2. PICK n : Row(ToEvaluate, n)
  BY QueueIs DEF Queues
<1>3. Len(ToEvaluate) = n /\ DOMAIN ToEvaluate = 1..n
  BY <1>2, RowList
<1> QED BY <1>1, <1>2, <1>3 DEF Progress, Row

\* Whatever comes sooner in some search than a candidate of the search that has been evaluated
\* in any, has been evaluated.
LEMMA SharedIs ==
    ASSUME SearchConstants, case \in Cases, case.explicit = Unset, Searched, Progress
    PROVE  SharedOut
<1> SUFFICES ASSUME NEW x \in Tried \ Proposed, NEW p \in DOMAIN searches,
                    NEW n \in DOMAIN searches[p], n < Round(x)
             PROVE  ActionSignature(searches[p][n]) \in Tried
  BY DEF SharedOut
<1> DEFINE s == Extra \o Own
           all == InTurn(Searches)
<1>1. PICK q, e, k : Queues(q, e, k)
  BY QueueIs
<1>2. Row(Extra, e) /\ Row(Own, k) /\ Joined(s, Extra, e, Own, k)
  BY <1>1 DEF Queues
<1>3. PICK N : /\ Keeps(q, N, EffectsOf(s), e + k, MaxCandidates)
               /\ Row(ToEvaluate, N) /\ \A i \in 1..N : ToEvaluate[i] = s[q[i]]
  BY <1>1 DEF Queues
<1> HIDE DEF s
<1>4. PICK i \in 1..N : x = ActionSignature(evaluated[i].parts) /\ i \in 1..Len(evaluated)
  <2>1. PICK i \in DOMAIN evaluated : x = ActionSignature(evaluated[i].parts)
    BY DEF Tried
  <2>2. i \in 1..Len(evaluated) /\ i \in DOMAIN ToEvaluate
    BY <2>1, EvaluatedIs
  <2> QED BY <1>3, <2>1, <2>2 DEF Row
<1>5. evaluated[i] = s[q[i]] /\ q[i] \in 1..(e + k) /\ e \in Nat /\ k \in Nat /\ N \in Nat
  BY <1>2, <1>3, <1>4 DEF Progress, Keeps, Row
<1>6. PICK a \in 1..k : q[i] = e + a
  <2>1. e < q[i]
    <3> SUFFICES ASSUME q[i] <= e PROVE FALSE
      BY <1>5
    <3>1. q[i] \in 1..e
      BY <1>5
    <3>2. s[q[i]] = Extra[q[i]] /\ q[i] \in DOMAIN Extra
      BY <1>2, <3>1 DEF Joined, Row
    <3> QED BY <1>4, <1>5, <3>2 DEF Proposed
  <2>2. q[i] - e \in 1..k /\ q[i] = e + (q[i] - e)
    BY <1>5, <2>1
  <2> QED BY <2>2
<1>7. Own = Generated
  BY DEF Own
<1>8. PICK m, at, kk, kept :
              /\ Visits(at, m, Searches) /\ Row(all, m)
              /\ \A b \in 1..m : all[b] = Searches[at[b][2]][at[b][1]]
              /\ Keeps(kept, kk, Signatures(all), m, MaxCandidates)
              /\ Row(Generated, kk)
              /\ \A j \in 1..kk : /\ Generated[j].parts = all[kept[j]] /\ Generated[j].errors = FALSE
                                  /\ Generated[j].id \in {<<"portfolio", j>>, <<"bundle", all[kept[j]]>>}
              /\ \A j, h \in 1..kk : j < h => Generated[j].id # Generated[h].id
  BY GeneratedIs, Zenon
<1> HIDE DEF all
<1>9. kk = k
  <2>1. Len(Generated) = kk /\ Len(Generated) = k
    BY <1>2, <1>7, <1>8, RowList
  <2> QED BY <2>1
<1>10. kept[a] \in 1..m /\ DOMAIN all = 1..m /\ m \in Nat
  BY <1>6, <1>8, <1>9 DEF Keeps, Row
<1>11. x = ActionSignature(all[kept[a]])
  <2>1. s[e + a] = Own[a]
    BY <1>2, <1>6 DEF Joined
  <2>2. Own[a].parts = all[kept[a]]
    BY <1>6, <1>7, <1>8, <1>9
  <2> QED BY <1>4, <1>5, <1>6, <2>1, <2>2
<1>12. PICK L : /\ Rows(Searches, L)
                /\ \A j \in 1..L : /\ Searches[j] = searches[case.order[j]]
                                   /\ \E c \in 0..MaxCandidates : Row(Searches[j], c)
                /\ \A r \in DOMAIN searches : \E j \in 1..L : Searches[j] = searches[r]
                /\ L = Len(case.order)
  BY OrderedIs
<1>13. at[kept[a]] \in Turns(Searches)
  BY <1>8, <1>10 DEF Visits
<1>14. PICK n0, i0 : at[kept[a]] = <<n0, i0>> /\ i0 \in 1..L /\ n0 \in 1..Len(Searches[i0])
  <2>1. \E n0, i0 : at[kept[a]] = <<n0, i0>>
    BY <1>12, <1>13, TurnsAre
  <2> QED BY <1>12, <1>13, <2>1, TurnsAre
<1>15. x = ActionSignature(Searches[i0][n0])
  BY <1>8, <1>10, <1>11, <1>14
<1>16. n0 \in 1..MaxCandidates /\ n0 \in DOMAIN Searches[i0]
  <2>1. PICK c \in 0..MaxCandidates : Row(Searches[i0], c)
    BY <1>12, <1>14
  <2>2. Len(Searches[i0]) = c /\ DOMAIN Searches[i0] = 1..c
    BY <2>1, RowList
  <2>3. MaxCandidates \in Nat
    BY DEF SearchConstants
  <2> QED BY <1>14, <2>1, <2>2, <2>3
<1>17. Round(x) \in Nat /\ Round(x) <= n0
  <2> DEFINE S == {r \in 1..MaxCandidates : \E w \in DOMAIN searches :
                    r \in DOMAIN searches[w] /\ ActionSignature(searches[w][r]) = x}
  <2>1. case.order[i0] \in DOMAIN searches
    <3>1. IsList(case.order) /\ Range(case.order) = DOMAIN case.families
      BY DEF SearchConstants
    <3>2. DOMAIN case.order = 1..L
      BY <1>12, <3>1, ListRow DEF Row
    <3> QED BY <1>14, <3>1, <3>2 DEF Range, Searched
  <2>2. n0 \in S
    BY <1>12, <1>14, <1>15, <1>16, <2>1
  <2>3. S \in SUBSET Nat
    OBVIOUS
  <2>4. Round(x) = Min(S)
    BY DEF Round
  <2> HIDE DEF S
  <2> QED BY <2>2, <2>3, <2>4, MinIs
<1>18. PICK ip \in 1..L : Searches[ip] = searches[p]
  BY <1>12
<1>19. n \in 1..Len(Searches[ip]) /\ n < n0
  <2>1. PICK c \in 0..MaxCandidates : Row(Searches[ip], c)
    BY <1>12, <1>18
  <2>2. Len(Searches[ip]) = c /\ DOMAIN Searches[ip] = 1..c
    BY <2>1, RowList
  <2>3. n \in 1..Len(Searches[ip]) /\ c \in Nat
    BY <1>18, <2>1, <2>2
  <2> QED BY <1>16, <1>17, <2>2, <2>3
<1>20. <<n, ip>> \in Turns(Searches) /\ Earlier(<<n, ip>>, at[kept[a]])
  <2>1. <<n, ip>> \in Turns(Searches)
    BY <1>12, <1>18, <1>19, TurnsAre
  <2>2. <<n, ip>>[1] < <<n0, i0>>[1]
    BY <1>19
  <2> QED BY <1>14, <2>1, <2>2 DEF Earlier
<1>21. PICK b \in 1..m : b < kept[a] /\ at[b] = <<n, ip>>
  <2>1. \A h \in 1..m : \A t \in Turns(Searches) : Earlier(t, at[h]) => \E b \in 1..m : b < h /\ at[b] = t
    BY <1>8, <1>12, VisitedEarlier
  <2> QED BY <1>10, <1>20, <2>1
<1>22. b \in 1..m /\ b < kept[a] /\ all[b] = searches[p][n]
  <2>1. b \in 1..m /\ b < kept[a]
    BY <1>10, <1>21
  <2> QED BY <1>8, <1>18, <1>21, <2>1
<1>23. PICK j \in 1..(a - 1) : Signatures(all)[kept[j]] = Signatures(all)[b]
  <2>1. a \in 1..kk
    BY <1>6, <1>9
  <2>2. \A h \in 1..m : h < kept[a] => \E j \in 1..(a - 1) : Signatures(all)[kept[j]] = Signatures(all)[h]
    BY <1>8, <2>1 DEF Keeps
  <2> QED BY <1>22, <2>2
<1>24. j \in 1..k /\ j < a /\ kept[j] \in 1..m
  <2>1. j \in 1..k /\ j < a
    BY <1>5, <1>6
  <2> QED BY <1>8, <1>9, <2>1 DEF Keeps
<1>25. ActionSignature(Own[j].parts) = ActionSignature(searches[p][n])
  BY <1>7, <1>8, <1>9, <1>10, <1>22, <1>23, <1>24 DEF Signatures
<1>26. e + j \in 1..(e + k) /\ e + j < q[i] /\ s[e + j] = Own[j]
  BY <1>2, <1>5, <1>6, <1>24 DEF Joined
<1>27. PICK d \in 1..(i - 1) : EffectsOf(s)[q[d]] = EffectsOf(s)[e + j]
  <2>1. \A h \in 1..(e + k) : h < q[i] => \E d \in 1..(i - 1) : EffectsOf(s)[q[d]] = EffectsOf(s)[h]
    BY <1>3 DEF Keeps
  <2> QED BY <1>26, <2>1
<1>28. d \in 1..N /\ d \in 1..Len(evaluated) /\ q[d] \in 1..(e + k) /\ evaluated[d] = s[q[d]]
  <2>1. d \in 1..N /\ d \in 1..Len(evaluated)
    BY <1>4, <1>5, EvaluatedIs
  <2> QED BY <1>3, <2>1 DEF Keeps, Progress
<1>29. DOMAIN s = 1..(e + k)
  BY <1>2 DEF Joined, Row
<1>30. Effect(evaluated[d]) = Effect(Own[j])
  BY <1>26, <1>27, <1>28, <1>29 DEF EffectsOf
<1>31. ActionSignature(evaluated[d].parts) = ActionSignature(Own[j].parts)
  BY <1>30 DEF Effect
<1>32. d \in DOMAIN evaluated
  BY <1>28, EvaluatedIs
<1> QED BY <1>25, <1>31, <1>32 DEF Tried

\* The invariant of the search: a search that was made is the search of its project, what is
\* evaluated is the begin of the queue, and nothing is queued before every project is searched.
SearchInv ==
    /\ case \in Cases
    /\ searches = [p \in DOMAIN case.families |-> searches[p]]
    /\ \A p \in DOMAIN case.families : searches[p] \in {Unset, SearchOf(p)}
    /\ queue = Unset => evaluated = << >>
    /\ queue # Unset => /\ queue = ToEvaluate /\ (case.explicit = Unset => Searched) /\ Progress

\* Of a case nothing changes but what has been searched and evaluated.
LEMMA SameSearch == ASSUME case' = case, NEW p PROVE SearchOf(p)' = SearchOf(p)
<1>1. Bounded(p)' = Bounded(p)
  BY DEF Bounded
<1>2. BySize(p)' = BySize(p)
  BY <1>1 DEF BySize
<1> QED BY <1>2 DEF SearchOf

\* ... and without a search, the queue does not change.
LEMMA SameQueue == ASSUME case' = case, searches' = searches PROVE ToEvaluate' = ToEvaluate /\ (Searched => Searched')
<1>1. Extra' = Extra
  BY DEF Extra
<1>2. Generated' = Generated
  BY DEF Generated
<1>3. Own' = Own
  BY <1>2 DEF Own
<1>4. ASSUME Searched PROVE Searched'
  BY <1>4, SameSearch DEF Searched
<1> QED BY <1>1, <1>3, <1>4 DEF ToEvaluate

\* A step of the search keeps the invariant.
LEMMA NextSearchInv == ASSUME SearchConstants, SearchInv, [SearchNext]_searchVars PROVE SearchInv'
<1>1. CASE Generate
  <2>1. case' = case /\ queue = Unset /\ queue' = queue /\ evaluated' = evaluated
    BY <1>1 DEF Generate
  <2>2. PICK p \in DOMAIN searches : searches' = [searches EXCEPT ![p] = SearchOf(p)]
    BY <1>1 DEF Generate
  <2>3. \A r \in DOMAIN case.families : SearchOf(r)' = SearchOf(r)
    BY <2>1, SameSearch
  <2>4. searches' = [r \in DOMAIN case.families |-> searches'[r]]
    BY <2>2 DEF SearchInv
  <2>5. \A r \in DOMAIN case.families : searches'[r] \in {Unset, SearchOf(r)}
    BY <2>2 DEF SearchInv
  <2>6. \A r \in DOMAIN case'.families : searches'[r] \in {Unset, SearchOf(r)'}
    BY <2>1, <2>3, <2>5
  <2> QED BY <2>1, <2>4, <2>6 DEF SearchInv
<1>2. CASE Arrange
  <2>1. case' = case /\ searches' = searches /\ queue = Unset /\ queue' = ToEvaluate /\ evaluated' = evaluated
    BY <1>2 DEF Arrange
  <2>2. evaluated = << >>
    BY <2>1 DEF SearchInv
  <2>3. case.explicit = Unset => Searched
    BY <1>2 DEF Arrange, SearchInv, Searched
  <2>4. ToEvaluate' = ToEvaluate /\ (Searched => Searched') /\ \A r \in DOMAIN case.families : SearchOf(r)' = SearchOf(r)
    BY <2>1, SameQueue, SameSearch
  <2>5. Progress'
    <3>1. PICK n : Row(ToEvaluate, n)
      BY <2>3, QueueIs DEF SearchInv, Queues
    <3>2. Len(ToEvaluate) \in Nat
      BY <3>1, RowList DEF Row
    <3>3. IsList(<< >>) /\ Len(<< >>) = 0
      BY DEF IsList
    <3> QED BY <2>1, <2>2, <2>4, <3>2, <3>3 DEF Progress
  <2>6. \A r \in DOMAIN case'.families : searches'[r] \in {Unset, SearchOf(r)'}
    BY <2>1, <2>4 DEF SearchInv
  <2> QED BY <2>1, <2>2, <2>3, <2>4, <2>5, <2>6 DEF SearchInv
<1>3. CASE EvaluateNext
  <2>1. /\ case' = case /\ searches' = searches /\ queue # Unset /\ queue' = queue /\ Len(evaluated) < Len(queue)
        /\ evaluated' = Append(evaluated, queue[Len(evaluated) + 1])
    BY <1>3 DEF EvaluateNext
  <2>2. queue = ToEvaluate /\ (case.explicit = Unset => Searched) /\ Progress
    BY <2>1 DEF SearchInv
  <2>3. ToEvaluate' = ToEvaluate /\ (Searched => Searched') /\ \A r \in DOMAIN case.families : SearchOf(r)' = SearchOf(r)
    BY <2>1, SameQueue, SameSearch
  <2>4. Progress'
    <3> DEFINE e == queue[Len(evaluated) + 1]
               S == Range(evaluated) \cup {e}
    <3>1. evaluated \in Seq(Range(evaluated)) /\ Len(evaluated) <= Len(ToEvaluate)
          /\ \A i \in 1..Len(evaluated) : evaluated[i] = ToEvaluate[i]
      BY <2>2 DEF Progress, IsList
    <3>2. evaluated \in Seq(S) /\ e \in S
      BY <3>1, SeqMonotonic
    <3> HIDE DEF S
    <3>3. /\ Append(evaluated, e) \in Seq(S) /\ Len(Append(evaluated, e)) = Len(evaluated) + 1 /\ Len(evaluated) \in Nat
          /\ \A i \in 1..Len(evaluated) : Append(evaluated, e)[i] = evaluated[i]
          /\ Append(evaluated, e)[Len(evaluated) + 1] = e
      BY <3>2
    <3>4. PICK n : Row(ToEvaluate, n)
      BY <2>2, QueueIs DEF SearchInv, Queues
    <3>5. Len(ToEvaluate) \in Nat
      BY <3>4, RowList DEF Row
    <3>6. IsList(evaluated')
      <4>1. PICK u : u = evaluated' /\ u \in Seq(S)
        BY <2>1, <3>3
      <4>2. u \in [1..Len(u) -> S] /\ Len(u) \in Nat
        BY <4>1, LenProperties
      <4>3. Row(u, Len(u))
        BY <4>2 DEF Row
      <4>4. IsList(u)
        BY <4>3, RowList
      <4> QED BY <4>1, <4>4
    <3>7. Len(evaluated') <= Len(ToEvaluate)
      BY <2>1, <2>2, <3>3, <3>5
    <3>8. ASSUME NEW i \in 1..Len(evaluated') PROVE evaluated'[i] = ToEvaluate[i]
      <4>1. i \in 1..Len(evaluated) \/ i = Len(evaluated) + 1
        BY <2>1, <3>3
      <4> QED BY <2>1, <2>2, <3>1, <3>3, <4>1
    <3> QED BY <2>3, <3>6, <3>7, <3>8 DEF Progress
  <2>5. \A r \in DOMAIN case'.families : searches'[r] \in {Unset, SearchOf(r)'}
    BY <2>1, <2>3 DEF SearchInv
  <2> QED BY <2>1, <2>2, <2>3, <2>4, <2>5 DEF SearchInv
<1>4. CASE UNCHANGED searchVars
  <2>1. case' = case /\ searches' = searches /\ queue' = queue /\ evaluated' = evaluated
    BY <1>4 DEF searchVars
  <2>2. ToEvaluate' = ToEvaluate /\ (Searched => Searched') /\ \A r \in DOMAIN case.families : SearchOf(r)' = SearchOf(r)
    BY <2>1, SameQueue, SameSearch
  <2>3. Progress => Progress'
    BY <2>1, <2>2 DEF Progress
  <2>4. \A r \in DOMAIN case'.families : searches'[r] \in {Unset, SearchOf(r)'}
    BY <2>1, <2>2 DEF SearchInv
  <2> QED BY <2>1, <2>2, <2>3, <2>4 DEF SearchInv
<1> QED BY <1>1, <1>2, <1>3, <1>4 DEF SearchNext

\* A search that can combine actions, and may keep more than one candidate, has a pair second.
LEMMA CombinedIsSecond == ASSUME SearchConstants, SearchInv PROVE CombinedSecond
<1> SUFFICES ASSUME NEW p \in DOMAIN searches, searches[p] # Unset, MaxBundle > 1, MaxCandidates > 1,
                    NEW i \in DOMAIN Bounded(p), NEW j \in DOMAIN Bounded(p), i < j,
                    Fits(<<Bounded(p)[i], Bounded(p)[j]>>)
             PROVE  \E n \in DOMAIN searches[p] : n <= 2 /\ Len(searches[p][n]) = 2
  BY DEF CombinedSecond
<1>1. case \in Cases /\ p \in DOMAIN case.families /\ searches[p] = SearchOf(p)
  BY DEF SearchInv
<1>2. 2 \in DOMAIN SearchOf(p) /\ Len(SearchOf(p)[2]) = 2
  BY <1>1, PairIsSecond
<1> QED BY <1>1, <1>2

\* In every state the invariant allows, the budget is shared and nothing is evaluated twice.
LEMMA SearchIsSound ==
    ASSUME SearchConstants, SearchInv PROVE SearchIsShared /\ EvaluatedOnce
<1>1. case \in Cases
  BY DEF SearchInv
<1>2. CASE queue = Unset
  <2>1. DOMAIN evaluated = {}
    BY <1>2 DEF SearchInv
  <2> QED BY <2>1, CombinedIsSecond DEF SearchIsShared, SharedOut, Tried, EvaluatedOnce
<1>3. CASE queue # Unset
  <2>1. (case.explicit = Unset => Searched) /\ Progress
    BY <1>3 DEF SearchInv
  <2>2. SearchIsShared
    BY <1>1, <2>1, SharedIs, CombinedIsSecond DEF SearchIsShared
  <2>3. EvaluatedOnce
    <3>1. /\ DOMAIN evaluated \subseteq DOMAIN ToEvaluate
          /\ \A i \in DOMAIN evaluated : evaluated[i] = ToEvaluate[i]
      BY <1>1, <2>1, EvaluatedIs DEF Progress
    <3> QED BY <1>1, <2>1, <3>1, QueueIsOnce DEF EvaluatedOnce
  <2> QED BY <2>2, <2>3
<1> QED BY <1>2, <1>3

\* The invariant always holds.
LEMMA SearchInvHolds == ASSUME SearchConstants PROVE SearchSpec => []SearchInv
<1>1. SearchInit => SearchInv
  BY DEF SearchInit, SearchInv
<1>2. SearchInv /\ [SearchNext]_searchVars => SearchInv'
  BY NextSearchInv
<1> QED BY <1>1, <1>2, PTL DEF SearchSpec

\* For every input and all limits: projects and their generators share the budget fairly, a plan of
\* two actions comes second wherever there is one, no two evaluated candidates do the same work,
\* and generated ones have ids of their own (_generate_candidates, _unique_evaluation_candidates).
THEOREM SearchIsAlwaysSound == ASSUME SearchConstants PROVE SearchSpec => [](SearchIsShared /\ EvaluatedOnce)
<1>1. SearchInv => SearchIsShared /\ EvaluatedOnce
  BY SearchIsSound
<1> QED BY <1>1, SearchInvHolds, PTL

\* The candidates of the engine: what is generated is allowed, and what is searched and evaluated
\* is shared and evaluated once, whatever was asked and whatever the limits are.
THEOREM CandidatesAreAlwaysSound ==
    ASSUME RecoveryConstants, SearchConstants PROVE RecoverySpec /\ SearchSpec => []CandidatesAreSound
<1>1. GeneratedIsAllowed /\ SearchIsShared /\ EvaluatedOnce => CandidatesAreSound
  BY DEF CandidatesAreSound
<1> QED BY <1>1, GeneratedIsAlwaysAllowed, SearchIsAlwaysSound, PTL

-----------------------------------------------------------------------------
\* The depth-first search of _validate_task_graph.  A path of tasks under visit, each of
\* which waits for the next; an order that suits them all goes down along it.
Frame == [task : Ids(request.tasks), left : SUBSET Nat]
Suits(rank) == \A t \in Ids(request.tasks) : \A p \in Preds(t) \cap Ids(request.tasks) : rank[p] < rank[t]
Descends(s) == \A rank \in [Ids(request.tasks) -> Nat] : Suits(rank) =>
    \A i, j \in DOMAIN s : i < j => rank[s[j].task] < rank[s[i].task]
Path(s) == /\ s \in Seq(Frame)
           /\ \A i, j \in DOMAIN s : s[i].task = s[j].task => i = j
           /\ \A i \in DOMAIN s : s[i].left \subseteq Preds(s[i].task)
           /\ Descends(s)

\* What a task of the path waits for was visited, or is looked at next, or is left.
Looked(s, t) == \A i \in DOMAIN s :
    Preds(s[i].task) \ s[i].left \subseteq
        visited \cup (IF i = Len(s) THEN {t} ELSE {s[i + 1].task})

\* What was visited can be put in an order.
Ranked == \E rank \in [visited -> 1..Cardinality(visited)] :
    \A t \in visited : Preds(t) \subseteq visited /\ \A p \in Preds(t) : rank[p] < rank[t]

Search == /\ Path(stack)
          /\ \A i \in DOMAIN stack : Preds(stack[i].task) \ stack[i].left \subseteq
                 visited \cup (IF i = Len(stack) THEN {} ELSE {stack[i + 1].task})
          /\ visiting = {stack[i].task : i \in DOMAIN stack}
          /\ visited \subseteq Ids(request.tasks) /\ visited \cap visiting = {}
          /\ Ranked

\* What the parts of a request were found to be, from each stage on.
After(s) == CASE s = "tasks" -> {"graph", "visit", "workers", "reservations", "assumptions", "implemented", "accepted"}
              [] s = "graph" -> {"visit", "workers", "reservations", "assumptions", "implemented", "accepted"}
              [] s = "visit" -> {"workers", "reservations", "assumptions", "implemented", "accepted"}
              [] s = "workers" -> {"reservations", "assumptions", "implemented", "accepted"}
EdgesOk == \A i \in DOMAIN request.tasks : /\ request.tasks[i].preds \subseteq Ids(request.tasks)
                                           /\ request.tasks[i].id \notin request.tasks[i].preds
WorkersOk == /\ \A i \in DOMAIN request.workers : WorkerOk(request.workers[i])
             /\ \A i \in DOMAIN request.tasks : Assigned(request.tasks[i]) \subseteq Ids(request.workers)
Passed == /\ stage \in After("tasks") => \A i \in DOMAIN request.tasks : TaskOk(request.tasks[i])
          /\ stage \in After("graph") => EdgesOk
          /\ stage \in After("visit") => Orderable
          /\ stage \in After("workers") => WorkersOk

InputInv ==
    /\ request \in Requests
    /\ Search /\ Passed
    /\ stage \in {"projects", "tasks", "graph"} \cup After("visit") => stack = <<>>
    /\ stage = "rejected" /\ visiting # {} => ~Orderable
    /\ accepted # Absent =>
          /\ stage = "accepted" /\ accepted = Parsed
          /\ \A i \in DOMAIN request.implemented : ActionOk(request.implemented[i])

\* The ids of the tasks, and the tasks that a task waits for, are finitely many numbers.
LEMMA TaskIds ==
    ASSUME InputConstants, request \in Requests
    PROVE  /\ Ids(request.tasks) \subseteq Nat /\ IsFiniteSet(Ids(request.tasks))
           /\ Cardinality(Ids(request.tasks)) \in Nat /\ Len(request.tasks) \in Nat
           /\ Cardinality(Ids(request.tasks)) <= Len(request.tasks)
           /\ \A t : Preds(t) \subseteq Nat
<1> DEFINE s == request.tasks
           T == Ids(s)
           D == 1..Len(s)
           f == [i \in D |-> s[i].id]
<1>1. s \in Seq(Range(s)) /\ \A t \in Range(s) : t.id \in Nat /\ t.preds \subseteq Nat
  BY DEF InputConstants
<1>2. Len(s) \in Nat /\ DOMAIN s = D /\ \A i \in D : s[i] \in Range(s)
  <2> HIDE DEF s
  <2> QED BY <1>1
<1>3. T = {s[i].id : i \in D}
  BY <1>2 DEF Ids
<1>4. IsFiniteSet(D) /\ Cardinality(D) = Len(s)
  <2>1. \A n \in Nat : IsFiniteSet(1..n) /\ Cardinality(1..n) = n
    BY FS_Interval
  <2> HIDE DEF s
  <2> QED BY <1>2, <2>1
<1>5. f \in Surjection(D, T)
  <2> HIDE DEF s
  <2> QED BY <1>3 DEF Surjection
<1>6. IsFiniteSet(T) /\ Cardinality(T) <= Cardinality(D)
  <2> HIDE DEF f, D, T, s
  <2> QED BY <1>4, <1>5, FS_Surjection
<1>7. T \subseteq Nat /\ Cardinality(T) \in Nat
  <2>1. T \subseteq Nat
    <3> HIDE DEF s
    <3> QED BY <1>1, <1>2, <1>3
  <2> HIDE DEF T
  <2> QED BY <1>6, <2>1, FS_CardinalityType
<1>8. \A t : Preds(t) \subseteq Nat
  BY <1>1, <1>2 DEF Preds
<1> QED BY <1>2, <1>4, <1>6, <1>7, <1>8

\* It holds of a request nobody has looked at.
LEMMA InitInputInv == ASSUME InputConstants, InputInit PROVE InputInv
<1>1. request \in Requests /\ stage = "projects" /\ visiting = {} /\ visited = {} /\ stack = <<>> /\ accepted = Absent
  BY DEF InputInit
<1>2. Path(stack)
  BY <1>1 DEF Path, Descends
<1>3. Ranked
  <2>1. [x \in {} |-> 0] \in [{} -> 1..Cardinality({})]
    OBVIOUS
  <2> QED BY <1>1, <2>1 DEF Ranked
<1> QED BY <1>1, <1>2, <1>3 DEF InputInv, Search, Passed, After

\* The request does not change, nor does what is read of it.
LEMMA SameRequest ==
    ASSUME request' = request
    PROVE  /\ Ids(request.tasks)' = Ids(request.tasks) /\ Orderable' = Orderable
           /\ (\A x : Preds(x)' = Preds(x)) /\ (\A s : Path(s)' = Path(s))
           /\ EdgesOk' = EdgesOk /\ WorkersOk' = WorkersOk /\ Parsed' = Parsed
           /\ (\A i : TaskOk(request.tasks[i])' = TaskOk(request.tasks[i]))
<1>1. Ids(request.tasks)' = Ids(request.tasks) /\ (\A x : Preds(x)' = Preds(x))
  BY DEF Ids, Preds
<1>2. Orderable' = Orderable
  BY <1>1 DEF Orderable
<1>3. \A s : Path(s)' = Path(s)
  BY <1>1 DEF Path, Frame, Descends, Suits
<1>4. EdgesOk' = EdgesOk /\ (\A i : TaskOk(request.tasks[i])' = TaskOk(request.tasks[i]))
  BY <1>1 DEF EdgesOk, TaskOk, EffortOk, Ids
<1>5. \A t : Assigned(t)' = Assigned(t)
  BY DEF Assigned, RowsOf
<1>6. WorkersOk' = WorkersOk
  <2>1. \A w : WorkerOk(w)' = WorkerOk(w)
    BY DEF WorkerOk, Ids, KnownOrNone, IsInterval
  <2>2. Ids(request.workers)' = Ids(request.workers)
    BY DEF Ids
  <2> QED BY <1>5, <2>1, <2>2 DEF WorkersOk
<1>7. Parsed' = Parsed
  <2>1. \A w : ZoneOf(w)' = ZoneOf(w)
    BY DEF ZoneOf, Ids
  <2>2. \A a : AssumptionsFor(a)' = AssumptionsFor(a)
    BY DEF AssumptionsFor
  <2>3. \A a : Friction(a)' = Friction(a)
    BY <2>2 DEF Friction
  <2>4. \A a : ParsedAction(a)' = ParsedAction(a)
    BY <2>3 DEF ParsedAction
  <2>5. LastInstant' = LastInstant
    BY DEF LastInstant
  <2> QED BY <1>5, <2>1, <2>4, <2>5 DEF Parsed
<1> QED BY <1>1, <1>2, <1>3, <1>4, <1>6, <1>7

\* A request is passed or rejected; the search does not move.
LEMMA CheckStep ==
    ASSUME InputInv, UNCHANGED <<request, visiting, visited, stack, accepted>>, accepted = Absent,
           Passed', stage' = "rejected" /\ visiting # {} => ~Orderable,
           stage' \in {"projects", "tasks", "graph"} \cup After("visit") => stack = <<>>
    PROVE  InputInv'
<1>1. /\ (\A x : Preds(x)' = Preds(x)) /\ (\A s : Path(s)' = Path(s)) /\ Orderable' = Orderable
      /\ Ids(request.tasks)' = Ids(request.tasks)
  BY SameRequest
<1>2. Ranked'
  BY <1>1 DEF InputInv, Search, Ranked
<1>3. Search'
  BY <1>1, <1>2 DEF InputInv, Search
<1> QED BY <1>1, <1>3 DEF InputInv, After

\* A path with one more task at its end, which its last task waits for.
LEMMA LongerPath ==
    ASSUME NEW s, Path(s), NEW t \in Ids(request.tasks), \A i \in DOMAIN s : s[i].task # t,
           s # <<>> => t \in Preds(s[Len(s)].task), Preds(t) \subseteq Nat
    PROVE  LET b == Append(s, [task |-> t, left |-> Preds(t)]) IN
           /\ Path(b) /\ DOMAIN b = DOMAIN s \cup {Len(s) + 1} /\ Len(b) = Len(s) + 1
           /\ DOMAIN s = 1..Len(s) /\ Len(s) \in Nat
           /\ b[Len(s) + 1] = [task |-> t, left |-> Preds(t)] /\ \A i \in DOMAIN s : b[i] = s[i]
<1> DEFINE f == [task |-> t, left |-> Preds(t)]
           b == Append(s, f)
<1>1. s \in Seq(Frame) /\ f \in Frame
  BY DEF Path, Frame
<1>2. /\ b \in Seq(Frame) /\ DOMAIN b = DOMAIN s \cup {Len(s) + 1} /\ Len(b) = Len(s) + 1
      /\ DOMAIN s = 1..Len(s) /\ Len(s) \in Nat
      /\ b[Len(s) + 1] = f /\ \A i \in DOMAIN s : b[i] = s[i]
  <2> HIDE DEF f
  <2> QED BY <1>1
<1>3. f.task = t /\ f.left = Preds(t)
  OBVIOUS
<1>4. \A i \in DOMAIN s : s[i].task \in Ids(request.tasks)
  <2>1. \A i \in DOMAIN s : s[i] \in Frame
    BY <1>1
  <2> QED BY <2>1 DEF Frame
<1> HIDE DEF f, b
<1>5. Descends(b)
  <2> SUFFICES ASSUME NEW rank \in [Ids(request.tasks) -> Nat], Suits(rank),
                      NEW i \in DOMAIN b, NEW j \in DOMAIN b, i < j
               PROVE  rank[b[j].task] < rank[b[i].task]
    BY DEF Descends
  <2>1. \A k, l \in DOMAIN s : k < l => rank[s[l].task] < rank[s[k].task]
    BY DEF Path, Descends
  <2>2. CASE j \in DOMAIN s
    BY <1>2, <2>1, <2>2
  <2>3. CASE j = Len(s) + 1
    <3>1. i \in DOMAIN s /\ b[i] = s[i] /\ b[j].task = t /\ Len(s) \in DOMAIN s /\ s # <<>>
      BY <1>2, <1>3, <2>3
    <3>2. rank[t] < rank[s[Len(s)].task]
      BY <1>4, <3>1 DEF Suits
    <3>3. i = Len(s) \/ rank[s[Len(s)].task] < rank[s[i].task]
      BY <1>2, <2>1, <3>1
    <3>4. rank[t] \in Nat /\ rank[s[Len(s)].task] \in Nat /\ rank[s[i].task] \in Nat
      BY <1>4, <3>1
    <3> QED BY <3>1, <3>2, <3>3, <3>4
  <2> QED BY <1>2, <2>2, <2>3
<1>6. Path(b)
  <2>1. \A i, j \in DOMAIN b : b[i].task = b[j].task => i = j
    BY <1>2, <1>3 DEF Path
  <2>2. \A i \in DOMAIN b : b[i].left \subseteq Preds(b[i].task)
    BY <1>2, <1>3 DEF Path
  <2> QED BY <1>2, <1>5, <2>1, <2>2 DEF Path
<1> QED BY <1>2, <1>6 DEF f, b

\* No order suits tasks that wait for each other.
LEMMA CycleFound ==
    ASSUME InputConstants, request \in Requests, NEW s, Path(s), NEW i \in DOMAIN s,
           s[i].task \in Preds(s[Len(s)].task)
    PROVE  ~Orderable
<1> SUFFICES ASSUME NEW rank \in [Ids(request.tasks) -> 1..Len(request.tasks)], Suits(rank)
             PROVE  FALSE
  BY DEF Orderable, Suits
<1>1. Len(request.tasks) \in Nat
  BY TaskIds
<1>2. rank \in [Ids(request.tasks) -> Nat]
  BY <1>1
<1>3. s \in Seq(Frame) /\ Len(s) \in DOMAIN s /\ i \in 1..Len(s) /\ Len(s) \in Nat
  BY DEF Path
<1>4. s[i].task \in Ids(request.tasks) /\ s[Len(s)].task \in Ids(request.tasks)
  <2>1. s[i] \in Frame /\ s[Len(s)] \in Frame
    BY <1>3
  <2> QED BY <2>1 DEF Frame
<1>5. i = Len(s) \/ rank[s[Len(s)].task] < rank[s[i].task]
  BY <1>2, <1>3 DEF Path, Descends
<1>6. rank[s[i].task] < rank[s[Len(s)].task]
  BY <1>4 DEF Suits
<1>7. rank[s[i].task] \in Nat /\ rank[s[Len(s)].task] \in Nat
  BY <1>2, <1>4
<1> QED BY <1>5, <1>6, <1>7

\* What visit does first: the task is on the path, or was visited, or joins the path.
LEMMA EnterStep ==
    ASSUME InputConstants, InputInv, stage = "visit",
           NEW t \in Ids(request.tasks), NEW below, Path(below), Looked(below, t),
           visiting = {below[i].task : i \in DOMAIN below},
           below # <<>> => t \in Preds(below[Len(below)].task),
           Enter(t, below)
    PROVE  InputInv'
<1>0. request \in Requests /\ accepted = Absent /\ Ranked /\ visited \subseteq Ids(request.tasks)
      /\ visited \cap visiting = {} /\ below \in Seq(Frame)
  BY DEF InputInv, Search, Path
<1>1. CASE t \in visiting /\ Refuse
  <2>1. PICK i \in DOMAIN below : below[i].task = t
    BY <1>1
  <2>2. below # <<>>
    BY <2>1
  <2>3. ~Orderable
    BY <1>0, <2>1, <2>2, CycleFound
  <2>4. Passed'
    BY <1>1 DEF Refuse, Passed, After
  <2>5. InputInv /\ UNCHANGED <<request, visiting, visited, stack, accepted>> /\ accepted = Absent
        /\ Passed' /\ (stage' = "rejected" /\ visiting # {} => ~Orderable)
        /\ (stage' \in {"projects", "tasks", "graph"} \cup After("visit") => stack = <<>>)
    BY <1>0, <1>1, <2>3, <2>4 DEF Refuse, After
  <2> QED BY <2>5, CheckStep
<1>2. CASE ~(t \in visiting /\ Refuse)
  <2>1. t \notin visiting /\ UNCHANGED <<request, stage, visited, accepted>>
    BY <1>2 DEF Enter
  <2>2. /\ Ids(request.tasks)' = Ids(request.tasks) /\ Orderable' = Orderable
        /\ (\A x : Preds(x)' = Preds(x)) /\ (\A s : Path(s)' = Path(s)) /\ EdgesOk' = EdgesOk
        /\ (\A i : TaskOk(request.tasks[i])' = TaskOk(request.tasks[i]))
    BY <2>1, SameRequest
  <2>3. Ranked'
    BY <1>0, <2>1, <2>2 DEF Ranked
  <2>4. Passed'
    BY <2>1, <2>2 DEF InputInv, Passed, After
  <2>5. Search'
    <3>1. CASE t \in visited
      <4>1. stack' = below /\ visiting' = visiting
        BY <1>2, <2>1, <3>1 DEF Enter
      <4>2. \A i \in DOMAIN below : Preds(below[i].task) \ below[i].left \subseteq
                 visited \cup (IF i = Len(below) THEN {} ELSE {below[i + 1].task})
        BY <3>1 DEF Looked
      <4> QED BY <1>0, <2>1, <2>2, <2>3, <4>1, <4>2 DEF Search
    <3>2. CASE t \notin visited
      <4> DEFINE b == Append(below, [task |-> t, left |-> Preds(t)])
      <4>1. stack' = b /\ visiting' = visiting \cup {t}
        BY <1>2, <2>1, <3>2 DEF Enter
      <4>2. Preds(t) \subseteq Nat /\ \A i \in DOMAIN below : below[i].task # t
        BY <1>0, <2>1, TaskIds
      <4>3. /\ Path(b) /\ DOMAIN b = DOMAIN below \cup {Len(below) + 1} /\ Len(b) = Len(below) + 1
            /\ DOMAIN below = 1..Len(below) /\ Len(below) \in Nat
            /\ b[Len(below) + 1] = [task |-> t, left |-> Preds(t)]
            /\ \A i \in DOMAIN below : b[i] = below[i]
        BY <4>2, LongerPath
      <4>4. b[Len(below) + 1].task = t /\ b[Len(below) + 1].left = Preds(t)
        BY <4>3
      <4> HIDE DEF b
      <4>5. \A i \in DOMAIN b : Preds(b[i].task) \ b[i].left \subseteq
                 visited \cup (IF i = Len(b) THEN {} ELSE {b[i + 1].task})
        <5> SUFFICES ASSUME NEW i \in DOMAIN b
                     PROVE  Preds(b[i].task) \ b[i].left \subseteq
                                visited \cup (IF i = Len(b) THEN {} ELSE {b[i + 1].task})
          OBVIOUS
        <5>1. CASE i = Len(below) + 1
          BY <4>3, <4>4, <5>1
        <5>2. CASE i \in DOMAIN below
          <6>1. b[i] = below[i] /\ i # Len(b) /\ i \in Nat
            BY <4>3, <5>2
          <6>2. b[i + 1].task = IF i = Len(below) THEN t ELSE below[i + 1].task
            BY <4>3, <4>4, <5>2
          <6> QED BY <5>2, <6>1, <6>2 DEF Looked
        <5> QED BY <4>3, <5>1, <5>2
      <4>6. visiting' = {b[i].task : i \in DOMAIN b}
        BY <4>1, <4>3, <4>4
      <4> QED BY <1>0, <2>1, <2>2, <2>3, <3>2, <4>1, <4>3, <4>5, <4>6 DEF Search
    <3> QED BY <3>1, <3>2
  <2> QED BY <1>0, <2>1, <2>4, <2>5 DEF InputInv, After
<1> QED BY <1>1, <1>2

\* What is known at every stage of the search.
LEMMA SearchIs ==
    ASSUME InputConstants, InputInv
    PROVE  /\ request \in Requests /\ Path(stack) /\ Len(stack) \in Nat /\ DOMAIN stack = 1..Len(stack)
           /\ stack \in Seq(Frame) /\ \A i \in DOMAIN stack : stack[i].task \in Ids(request.tasks)
           /\ visiting = {stack[i].task : i \in DOMAIN stack}
           /\ visited \subseteq Ids(request.tasks) /\ Ids(request.tasks) \subseteq Nat
           /\ stage \in {"graph", "visit", "workers", "reservations", "assumptions", "implemented", "rejected"}
              => accepted = Absent
<1>1. request \in Requests /\ Path(stack) /\ visited \subseteq Ids(request.tasks)
      /\ visiting = {stack[i].task : i \in DOMAIN stack} /\ stack \in Seq(Frame)
  BY DEF InputInv, Search, Path
<1>2. \A i \in DOMAIN stack : stack[i].task \in Ids(request.tasks)
  <2>1. \A i \in DOMAIN stack : stack[i] \in Frame
    BY <1>1
  <2> QED BY <2>1 DEF Frame
<1>3. Ids(request.tasks) \subseteq Nat
  BY <1>1, TaskIds
<1>4. Len(stack) \in Nat /\ DOMAIN stack = 1..Len(stack)
  BY <1>1
<1> QED BY <1>1, <1>2, <1>3, <1>4 DEF InputInv

\* A task that no visited task leads to is the next root.
LEMMA RootStep == ASSUME InputConstants, InputInv, VisitRoot PROVE InputInv'
<1>1. stage = "visit" /\ stack = <<>> /\ Roots # {} /\ Enter(Min(Roots), << >>)
  BY DEF VisitRoot
<1>2. Min(Roots) \in Ids(request.tasks)
  <2>1. Roots \in SUBSET Nat
    BY SearchIs DEF Roots
  <2>2. Min(Roots) \in Roots
    BY <1>1, <2>1, LeastId
  <2> QED BY <2>2 DEF Roots
<1>3. PICK t \in Ids(request.tasks) : t = Min(Roots)
  BY <1>2
<1>4. Path(<<>>) /\ visiting = {<<>>[i].task : i \in DOMAIN <<>>}
  BY <1>1, SearchIs
<1>5. Looked(<<>>, t)
  BY DEF Looked
<1>6. <<>> # <<>> => t \in Preds(<<>>[Len(<<>>)].task)
  OBVIOUS
<1>7. Enter(t, <<>>)
  BY <1>1, <1>3
<1> QED BY <1>1, <1>4, <1>5, <1>6, <1>7, EnterStep

\* The next task that the last of the path waits for.
LEMMA PredecessorStep == ASSUME InputConstants, InputInv, VisitPredecessor PROVE InputInv'
<1> DEFINE n == Len(stack)
           least == Min(Top.left)
           below == [stack EXCEPT ![n].left = @ \ {least}]
<1>1. stage = "visit" /\ stack # << >> /\ Top.left # {} /\ Enter(least, below)
  BY DEF VisitPredecessor
<1>2. /\ request \in Requests /\ Path(stack) /\ n \in Nat /\ DOMAIN stack = 1..n
      /\ stack \in Seq(Frame) /\ visiting = {stack[i].task : i \in DOMAIN stack}
  BY SearchIs
<1>3. n \in DOMAIN stack /\ Top = stack[n] /\ stack[n] \in Frame
  BY <1>1, <1>2 DEF Top
<1>4. stack[n].left \in SUBSET Nat /\ stack[n].left \subseteq Preds(stack[n].task)
      /\ stack[n].task \in Ids(request.tasks)
  <2>1. stack[n].left \in SUBSET Nat /\ stack[n].task \in Ids(request.tasks)
    BY <1>3 DEF Frame
  <2> QED BY <1>2, <1>3, <2>1 DEF Path
<1>5. least \in stack[n].left
  BY <1>1, <1>3, <1>4, LeastId
<1>6. EdgesOk
  BY <1>1 DEF InputInv, Passed, After
<1>7. least \in Ids(request.tasks) /\ least \in Preds(stack[n].task)
  BY <1>4, <1>5, <1>6 DEF Preds, EdgesOk
<1>8. PICK t \in Ids(request.tasks) : t = least
  BY <1>7
<1>9. /\ below \in Seq(Frame) /\ Len(below) = n /\ DOMAIN below = DOMAIN stack
      /\ \A i \in DOMAIN stack : below[i].task = stack[i].task
      /\ below[n].left = stack[n].left \ {t}
      /\ \A i \in DOMAIN stack : i # n => below[i].left = stack[i].left
  <2>1. PICK f : f = [stack[n] EXCEPT !.left = @ \ {t}]
    OBVIOUS
  <2>2. f \in Frame /\ f.task = stack[n].task /\ f.left = stack[n].left \ {t}
    BY <1>3, <2>1 DEF Frame
  <2>3. below = [stack EXCEPT ![n] = f]
    BY <1>8, <2>1
  <2> HIDE DEF below, n
  <2>4. below \in Seq(Frame) /\ DOMAIN below = DOMAIN stack /\ below[n] = f
        /\ \A i \in DOMAIN stack : i # n => below[i] = stack[i]
    BY <1>2, <1>3, <2>2, <2>3
  <2>5. Len(below) = n
    BY <1>2, <2>4
  <2> QED BY <2>2, <2>4, <2>5
<1> HIDE DEF below
<1>10. Path(below)
  <2>1. Descends(below)
    BY <1>2, <1>9 DEF Path, Descends
  <2>2. \A i \in DOMAIN below : below[i].left \subseteq Preds(below[i].task)
    <3>1. \A i \in DOMAIN stack : stack[i].left \subseteq Preds(stack[i].task)
      BY <1>2 DEF Path
    <3>2. \A i \in DOMAIN stack : below[i].left \subseteq stack[i].left
      BY <1>9
    <3> QED BY <1>9, <3>1, <3>2
  <2>3. \A i, j \in DOMAIN below : below[i].task = below[j].task => i = j
    BY <1>2, <1>9 DEF Path
  <2> QED BY <1>9, <2>1, <2>2, <2>3 DEF Path
<1>11. Looked(below, t)
  <2> SUFFICES ASSUME NEW i \in DOMAIN stack
               PROVE  Preds(stack[i].task) \ below[i].left \subseteq
                          visited \cup (IF i = n THEN {t} ELSE {stack[i + 1].task})
    <3>1. \A i \in DOMAIN stack : i # n => i + 1 \in DOMAIN stack
      BY <1>2
    <3> QED BY <1>9, <3>1 DEF Looked
  <2>1. Preds(stack[i].task) \ stack[i].left \subseteq
            visited \cup (IF i = n THEN {} ELSE {stack[i + 1].task})
    BY DEF InputInv, Search
  <2> QED BY <1>9, <2>1
<1>12. visiting = {below[i].task : i \in DOMAIN below}
  BY <1>2, <1>9
<1>13. below # <<>> => t \in Preds(below[Len(below)].task)
  BY <1>3, <1>7, <1>8, <1>9
<1>14. Enter(t, below)
  BY <1>1, <1>8
<1> QED BY <1>1, <1>10, <1>11, <1>12, <1>13, <1>14, EnterStep

\* A path without its last task.
LEMMA ShorterPath ==
    ASSUME NEW s, Path(s), s # <<>>
    PROVE  LET b == Front(s)  n == Len(s) IN
           /\ Path(b) /\ n \in Nat \ {0} /\ DOMAIN s = 1..n /\ DOMAIN b = 1..(n - 1) /\ Len(b) = n - 1
           /\ \A i \in 1..(n - 1) : b[i] = s[i]
<1> DEFINE b == Front(s)
           n == Len(s)
<1>1. s \in Seq(Frame)
  BY DEF Path
<1>2. /\ n \in Nat \ {0} /\ DOMAIN s = 1..n /\ DOMAIN b = 1..(n - 1) /\ Len(b) = n - 1
      /\ b \in Seq(Frame) /\ \A i \in 1..(n - 1) : b[i] = s[i]
  <2>1. n \in Nat \ {0} /\ DOMAIN s = 1..n
    BY <1>1
  <2>2. b = SubSeq(s, 1, n - 1)
    BY DEF Front
  <2> HIDE DEF b, n
  <2>3. n - 1 \in Nat /\ n - 1 <= n
    BY <2>1
  <2>4. \A i \in 1..(n - 1) : i \in DOMAIN s /\ s[i] \in Frame
    BY <1>1, <2>1
  <2>5. Len(b) = n - 1 /\ DOMAIN b = 1..(n - 1) /\ \A i \in 1..(n - 1) : b[i] = s[i]
    BY <1>1, <2>1, <2>2, <2>3
  <2>6. b \in Seq(Frame)
    BY <1>1, <2>1, <2>2, <2>3, <2>4
  <2> QED BY <2>1, <2>5, <2>6
<1> HIDE DEF b, n
<1>3. DOMAIN b \subseteq DOMAIN s /\ \A i \in DOMAIN b : b[i] = s[i]
  BY <1>2
<1>4. Descends(b)
  BY <1>3 DEF Path, Descends
<1>5. Path(b)
  BY <1>2, <1>3, <1>4 DEF Path
<1> QED BY <1>2, <1>5 DEF b, n

\* A task is left when all it waits for was visited: it comes next in the order.
LEMMA LeaveStep == ASSUME InputConstants, InputInv, Leave PROVE InputInv'
<1> DEFINE n == Len(stack)
           u == stack[n].task
<1>1. /\ stage = "visit" /\ stack # << >> /\ stack[n].left = {}
      /\ visiting' = visiting \ {u} /\ visited' = visited \cup {u} /\ stack' = Front(stack)
      /\ request' = request /\ stage' = stage /\ accepted' = accepted
  BY DEF Leave, Top
<1>2. /\ request \in Requests /\ Path(stack) /\ \A i \in DOMAIN stack : stack[i].task \in Ids(request.tasks)
      /\ visiting = {stack[i].task : i \in DOMAIN stack} /\ visited \subseteq Ids(request.tasks)
  BY SearchIs
<1>3. /\ Path(Front(stack)) /\ n \in Nat \ {0} /\ DOMAIN stack = 1..n
      /\ DOMAIN Front(stack) = 1..(n - 1) /\ Len(Front(stack)) = n - 1
      /\ \A i \in 1..(n - 1) : Front(stack)[i] = stack[i]
  BY <1>1, <1>2, ShorterPath
<1>4. n \in DOMAIN stack /\ u \in Ids(request.tasks) /\ u \in visiting /\ u \notin visited
  <2>1. n \in DOMAIN stack
    BY <1>3
  <2> QED BY <1>2, <2>1 DEF InputInv, Search
<1>5. \A i \in DOMAIN stack : Preds(stack[i].task) \ stack[i].left \subseteq
          visited \cup (IF i = n THEN {} ELSE {stack[i + 1].task})
  BY DEF InputInv, Search
<1>6. Preds(u) \subseteq visited
  BY <1>1, <1>4, <1>5
<1>16. stack[n].task = u
  OBVIOUS
<1> HIDE DEF n, u
<1>7. /\ Ids(request.tasks)' = Ids(request.tasks) /\ Orderable' = Orderable
      /\ (\A x : Preds(x)' = Preds(x)) /\ (\A s : Path(s)' = Path(s)) /\ EdgesOk' = EdgesOk
      /\ (\A i : TaskOk(request.tasks[i])' = TaskOk(request.tasks[i]))
  BY <1>1, SameRequest
<1>8. Passed'
  BY <1>1, <1>7 DEF InputInv, Passed, After
<1>9. Cardinality(visited) \in Nat /\ Cardinality(visited') = Cardinality(visited) + 1
  <2>1. IsFiniteSet(visited)
    BY <1>2, TaskIds, FS_Subset
  <2> QED BY <1>1, <1>4, <2>1, FS_CardinalityType, FS_AddElement
<1>10. Ranked'
  <2>1. PICK rank \in [visited -> 1..Cardinality(visited)] :
            \A t \in visited : Preds(t) \subseteq visited /\ \A p \in Preds(t) : rank[p] < rank[t]
    BY DEF InputInv, Search, Ranked
  <2> DEFINE more == [x \in visited \cup {u} |-> IF x = u THEN Cardinality(visited) + 1 ELSE rank[x]]
  <2>2. more \in [visited' -> 1..Cardinality(visited')]
    <3>1. \A x \in visited : rank[x] \in 1..Cardinality(visited)
      BY <2>1
    <3> QED BY <1>1, <1>9, <3>1
  <2>3. \A t \in visited' : Preds(t) \subseteq visited' /\ \A p \in Preds(t) : more[p] < more[t]
    <3> SUFFICES ASSUME NEW t \in visited \cup {u}
                 PROVE  Preds(t) \subseteq visited /\ \A p \in Preds(t) : more[p] < more[t]
      BY <1>1
    <3>1. CASE t = u
      <4>1. \A p \in visited : more[p] = rank[p] /\ rank[p] \in 1..Cardinality(visited)
        BY <1>4, <2>1
      <4>2. more[t] = Cardinality(visited) + 1
        BY <3>1
      <4> QED BY <1>6, <1>9, <3>1, <4>1, <4>2
    <3>2. CASE t # u
      BY <1>4, <2>1, <3>2
    <3> QED BY <3>1, <3>2
  <2> HIDE DEF more
  <2> QED BY <1>7, <2>2, <2>3 DEF Ranked
<1>15. PICK b : b = Front(stack)
  OBVIOUS
<1>11. visiting' = {b[i].task : i \in DOMAIN b} /\ visited' \cap visiting' = {}
  <2>1. \A i \in DOMAIN stack : stack[i].task = u => i = n
    BY <1>4, <1>16 DEF InputInv, Search, Path
  <2>2. visited \cap visiting = {}
    BY DEF InputInv, Search
  <2>3. DOMAIN b = 1..(n - 1) /\ \A i \in 1..(n - 1) : b[i] = stack[i]
    BY <1>3, <1>15
  <2>4. \A i \in DOMAIN stack : i # n => i \in 1..(n - 1)
    BY <1>3
  <2>5. \A i \in 1..(n - 1) : i \in DOMAIN stack /\ i # n
    BY <1>3
  <2>6. stack[n].task = u /\ n \in DOMAIN stack
    BY <1>4, <1>16
  <2>7. {b[i].task : i \in DOMAIN b} \subseteq visiting \ {u}
    <3> SUFFICES ASSUME NEW i \in 1..(n - 1) PROVE stack[i].task \in visiting \ {u}
      BY <2>3
    <3> QED BY <1>2, <2>1, <2>5
  <2>8. visiting \ {u} \subseteq {b[i].task : i \in DOMAIN b}
    <3> SUFFICES ASSUME NEW i \in DOMAIN stack, stack[i].task # u PROVE \E k \in DOMAIN b : b[k].task = stack[i].task
      BY <1>2
    <3> QED BY <2>3, <2>4, <2>6
  <2>9. visiting' = {b[i].task : i \in DOMAIN b}
    BY <1>1, <2>7, <2>8
  <2>10. visited' \cap visiting' = {}
    BY <1>1, <2>2
  <2> QED BY <2>9, <2>10
<1>12. \A i \in DOMAIN b : Preds(b[i].task) \ b[i].left \subseteq
           visited' \cup (IF i = Len(b) THEN {} ELSE {b[i + 1].task})
  <2> SUFFICES ASSUME NEW i \in 1..(n - 1)
               PROVE  Preds(stack[i].task) \ stack[i].left \subseteq
                          visited' \cup (IF i = n - 1 THEN {} ELSE {stack[i + 1].task})
    <3>2. DOMAIN b = 1..(n - 1) /\ Len(b) = n - 1
      BY <1>3, <1>15
    <3>3. \A k \in 1..(n - 1) : b[k] = stack[k] /\ (k # n - 1 => b[k + 1] = stack[k + 1])
      BY <1>3, <1>15
    <3> QED BY <3>2, <3>3
  <2>1. i \in DOMAIN stack /\ i # n /\ (i = n - 1 => stack[i + 1].task = u)
    BY <1>3, <1>16
  <2>2. Preds(stack[i].task) \ stack[i].left \subseteq visited \cup {stack[i + 1].task}
    BY <1>5, <2>1
  <2> QED BY <1>1, <2>1, <2>2
<1>13. Path(b) /\ visited' \subseteq Ids(request.tasks)
  BY <1>1, <1>2, <1>3, <1>4, <1>15
<1>14. Search'
  BY <1>1, <1>7, <1>10, <1>11, <1>12, <1>13, <1>15 DEF Search
<1> QED BY <1>1, <1>7, <1>8, <1>14 DEF InputInv, After

\* All was visited: the order is there.
LEMMA GraphDoneStep == ASSUME InputConstants, InputInv, GraphDone PROVE InputInv'
<1>1. /\ stage = "visit" /\ stack = <<>> /\ Roots = {} /\ stage' = "workers"
      /\ UNCHANGED <<request, visiting, visited, stack, accepted>>
  BY DEF GraphDone
<1>2. visited = Ids(request.tasks) /\ request \in Requests /\ accepted = Absent
  BY <1>1, SearchIs DEF Roots
<1>3. /\ Cardinality(visited) \in Nat /\ Len(request.tasks) \in Nat
      /\ Cardinality(visited) <= Len(request.tasks)
  BY <1>2, TaskIds
<1>4. Orderable
  <2>1. PICK rank \in [visited -> 1..Cardinality(visited)] :
            \A t \in visited : Preds(t) \subseteq visited /\ \A p \in Preds(t) : rank[p] < rank[t]
    BY DEF InputInv, Search, Ranked
  <2>2. rank \in [Ids(request.tasks) -> 1..Len(request.tasks)]
    BY <1>2, <1>3, <2>1
  <2> QED BY <1>2, <2>1, <2>2 DEF Orderable
<1>5. Passed'
  <2>1. /\ Orderable' = Orderable /\ EdgesOk' = EdgesOk
        /\ (\A i : TaskOk(request.tasks[i])' = TaskOk(request.tasks[i]))
    BY <1>1, SameRequest
  <2> QED BY <1>1, <1>4, <2>1 DEF InputInv, Passed, After
<1> QED BY <1>1, <1>2, <1>5, CheckStep

\* A part of the request is looked at: it passes, or the request is rejected.
LEMMA PartsStep ==
    ASSUME InputConstants, InputInv,
           ParseProjects \/ ParseTasks \/ CheckEdges \/ ParseWorkers \/ ParseReservations \/ ParseAssumptions
    PROVE  InputInv'
<1>1. UNCHANGED <<request, visiting, visited, stack, accepted>>
  BY DEF ParseProjects, ParseTasks, CheckEdges, ParseWorkers, ParseReservations, ParseAssumptions,
         Check, Refuse
<1>2. /\ stage \in {"projects", "tasks", "graph", "workers", "reservations", "assumptions"}
      /\ \/ stage' = "rejected"
         \/ stage = "projects" /\ stage' = "tasks"
         \/ stage = "tasks" /\ stage' = "graph" /\ \A i \in DOMAIN request.tasks : TaskOk(request.tasks[i])
         \/ stage = "graph" /\ stage' = "visit" /\ EdgesOk
         \/ stage = "workers" /\ stage' = "reservations" /\ WorkersOk
         \/ stage = "reservations" /\ stage' = "assumptions"
         \/ stage = "assumptions" /\ stage' = "implemented"
  BY DEF ParseProjects, ParseTasks, CheckEdges, ParseWorkers, ParseReservations, ParseAssumptions,
         Check, Refuse, All, EdgesOk, WorkersOk
<1>3. stack = <<>> /\ visiting = {} /\ accepted = Absent
  <2>1. stack = <<>>
    BY <1>2 DEF InputInv, After
  <2> QED BY <1>2, <2>1, SearchIs DEF InputInv
<1>4. Passed'
  <2>1. /\ Orderable' = Orderable /\ EdgesOk' = EdgesOk /\ WorkersOk' = WorkersOk
        /\ (\A i : TaskOk(request.tasks[i])' = TaskOk(request.tasks[i]))
    BY <1>1, SameRequest
  <2> QED BY <1>1, <1>2, <2>1 DEF InputInv, Passed, After
<1> QED BY <1>1, <1>3, <1>4, CheckStep

\* The last part: what was implemented.
LEMMA ImplementedStep == ASSUME InputConstants, InputInv, ParseImplemented PROVE InputInv'
<1>1. stage = "implemented" /\ UNCHANGED <<request, visiting, visited, stack>>
  BY DEF ParseImplemented, Refuse
<1>2. stack = <<>> /\ visiting = {} /\ accepted = Absent
  <2>1. stack = <<>>
    BY <1>1 DEF InputInv, After
  <2> QED BY <1>1, <2>1, SearchIs DEF InputInv
<1>3. /\ Ids(request.tasks)' = Ids(request.tasks) /\ Orderable' = Orderable /\ Parsed' = Parsed
      /\ (\A x : Preds(x)' = Preds(x)) /\ (\A s : Path(s)' = Path(s))
      /\ EdgesOk' = EdgesOk /\ WorkersOk' = WorkersOk
      /\ (\A i : TaskOk(request.tasks[i])' = TaskOk(request.tasks[i]))
  BY <1>1, SameRequest
<1>4. CASE stage' = "rejected"
  <2>1. accepted' = accepted
    BY <1>4 DEF ParseImplemented, Refuse
  <2>2. Passed'
    BY <1>4 DEF Passed, After
  <2> QED BY <1>1, <1>2, <1>4, <2>1, <2>2, CheckStep DEF After
<1>5. CASE stage' # "rejected"
  <2>1. stage' = "accepted" /\ accepted' = Parsed
        /\ \A i \in DOMAIN request.implemented : ActionOk(request.implemented[i])
    BY <1>5 DEF ParseImplemented, Refuse, All
  <2>2. Passed'
    BY <1>1, <1>3, <2>1 DEF InputInv, Passed, After
  <2>3. Ranked'
    BY <1>1, <1>3 DEF InputInv, Search, Ranked
  <2>4. Search'
    BY <1>1, <1>3, <2>3 DEF InputInv, Search
  <2>5. (request \in Requests)' /\ stack' = <<>> /\ visiting' = {}
    BY <1>1, <1>2 DEF InputInv
  <2> QED BY <1>1, <1>3, <2>1, <2>2, <2>4, <2>5 DEF InputInv
<1> QED BY <1>4, <1>5

\* Every step keeps the invariant.
LEMMA NextInputInv == ASSUME InputConstants, InputInv, [InputNext]_inputVars PROVE InputInv'
<1>1. CASE UNCHANGED inputVars
  <2>1. UNCHANGED <<request, stage, visiting, visited, stack, accepted>>
    BY <1>1 DEF inputVars
  <2>2. /\ Ids(request.tasks)' = Ids(request.tasks) /\ Orderable' = Orderable /\ Parsed' = Parsed
        /\ (\A x : Preds(x)' = Preds(x)) /\ (\A s : Path(s)' = Path(s))
        /\ EdgesOk' = EdgesOk /\ WorkersOk' = WorkersOk
        /\ (\A i : TaskOk(request.tasks[i])' = TaskOk(request.tasks[i]))
    BY <2>1, SameRequest
  <2>3. Ranked'
    BY <2>1, <2>2 DEF InputInv, Search, Ranked
  <2>4. Search'
    BY <2>1, <2>2, <2>3 DEF InputInv, Search
  <2>5. Passed'
    BY <2>1, <2>2 DEF InputInv, Passed, After
  <2> QED BY <2>1, <2>2, <2>4, <2>5 DEF InputInv, After
<1>2. CASE ParseProjects \/ ParseTasks \/ CheckEdges \/ ParseWorkers \/ ParseReservations \/ ParseAssumptions
  BY <1>2, PartsStep
<1>3. CASE VisitRoot
  BY <1>3, RootStep
<1>4. CASE VisitPredecessor
  BY <1>4, PredecessorStep
<1>5. CASE Leave
  BY <1>5, LeaveStep
<1>6. CASE GraphDone
  BY <1>6, GraphDoneStep
<1>7. CASE ParseImplemented
  BY <1>7, ImplementedStep
<1> QED BY <1>1, <1>2, <1>3, <1>4, <1>5, <1>6, <1>7 DEF InputNext

\* What is accepted names only what is there.
LEMMA AcceptedIsSound ==
    ASSUME InputConstants, request \in Requests, EdgesOk, WorkersOk,
           \A i \in DOMAIN request.tasks : TaskOk(request.tasks[i])
    PROVE  /\ \A i \in DOMAIN Parsed.tasks : LET t == Parsed.tasks[i] IN
              /\ t.preds \subseteq Ids(Parsed.tasks)
              /\ t.assigned \subseteq Ids(Parsed.workers)
              /\ t.project \in Ids(request.projects)
           /\ \A i \in DOMAIN Parsed.workers : \A x \in Parsed.workers[i].permitted :
              x.starts < x.ends /\ x.ends > 0 /\ x.starts < LastInstant
<1> DEFINE ts == request.tasks  ws == request.workers
<1>1. \A i \in DOMAIN ts : {"id", "project", "preds", "assigned", "effort"} \subseteq DOMAIN ts[i]
  BY DEF InputConstants, Range
<1>2. \A i \in DOMAIN ws : {"id", "zone", "permitted"} \subseteq DOMAIN ws[i]
  BY DEF InputConstants, Range
<1>3. /\ DOMAIN Parsed.tasks = DOMAIN ts /\ DOMAIN Parsed.workers = DOMAIN ws
      /\ \A i \in DOMAIN ts : \E e : Parsed.tasks[i] = [ts[i] EXCEPT !.assigned = Assigned(ts[i]), !.effort = e]
      /\ \A i \in DOMAIN ws : \E z : Parsed.workers[i] =
            [ws[i] EXCEPT !.zone = z, !.permitted = {x \in @ : x.ends > 0 /\ x.starts < LastInstant}]
  BY DEF Parsed
<1>4. \A i \in DOMAIN ts : /\ Parsed.tasks[i].id = ts[i].id /\ Parsed.tasks[i].preds = ts[i].preds
                           /\ Parsed.tasks[i].project = ts[i].project
                           /\ Parsed.tasks[i].assigned = Assigned(ts[i])
  <2> SUFFICES ASSUME NEW i \in DOMAIN ts
               PROVE  /\ Parsed.tasks[i].id = ts[i].id /\ Parsed.tasks[i].preds = ts[i].preds
                      /\ Parsed.tasks[i].project = ts[i].project
                      /\ Parsed.tasks[i].assigned = Assigned(ts[i])
    OBVIOUS
  <2>1. PICK e : Parsed.tasks[i] = [ts[i] EXCEPT !.assigned = Assigned(ts[i]), !.effort = e]
    BY <1>3
  <2>2. PICK t : t = ts[i]
    OBVIOUS
  <2>3. {"id", "project", "preds", "assigned", "effort"} \subseteq DOMAIN t
    BY <1>1, <2>2
  <2>4. PICK r : r = [t EXCEPT !.assigned = Assigned(t), !.effort = e]
    OBVIOUS
  <2>5. r.id = t.id /\ r.preds = t.preds /\ r.project = t.project /\ r.assigned = Assigned(t)
    BY <2>3, <2>4
  <2> QED BY <2>1, <2>2, <2>4, <2>5
<1>5. \A i \in DOMAIN ws : /\ Parsed.workers[i].id = ws[i].id
                           /\ Parsed.workers[i].permitted =
                                 {x \in ws[i].permitted : x.ends > 0 /\ x.starts < LastInstant}
  <2> SUFFICES ASSUME NEW i \in DOMAIN ws
               PROVE  /\ Parsed.workers[i].id = ws[i].id
                      /\ Parsed.workers[i].permitted =
                            {x \in ws[i].permitted : x.ends > 0 /\ x.starts < LastInstant}
    OBVIOUS
  <2>1. PICK z : Parsed.workers[i] =
            [ws[i] EXCEPT !.zone = z, !.permitted = {x \in @ : x.ends > 0 /\ x.starts < LastInstant}]
    BY <1>3
  <2>2. PICK w : w = ws[i]
    OBVIOUS
  <2>3. {"id", "zone", "permitted"} \subseteq DOMAIN w
    BY <1>2, <2>2
  <2>4. PICK q : q = {x \in w.permitted : x.ends > 0 /\ x.starts < LastInstant}
    OBVIOUS
  <2>5. PICK r : r = [w EXCEPT !.zone = z, !.permitted = q]
    OBVIOUS
  <2>6. r.id = w.id /\ r.permitted = q
    BY <2>3, <2>5
  <2> QED BY <2>1, <2>2, <2>4, <2>5, <2>6
<1>6. Ids(Parsed.tasks) = Ids(ts) /\ Ids(Parsed.workers) = Ids(ws)
  <2>1. \A s, r : /\ DOMAIN s = DOMAIN r
                  /\ \A i \in DOMAIN s : s[i].id = r[i].id
                  => Ids(s) = Ids(r)
    BY DEF Ids
  <2> HIDE DEF ts, ws
  <2>2. Ids(Parsed.tasks) = Ids(ts)
    BY <1>3, <1>4, <2>1
  <2>3. Ids(Parsed.workers) = Ids(ws)
    BY <1>3, <1>5, <2>1
  <2> QED BY <2>2, <2>3
<1>7. \A i \in DOMAIN ws : \A x \in ws[i].permitted : x.starts < x.ends
  BY DEF WorkersOk, WorkerOk, IsInterval
<1>8. \A i \in DOMAIN ts : /\ ts[i].preds \subseteq Ids(ts) /\ Assigned(ts[i]) \subseteq Ids(ws)
                           /\ ts[i].project \in Ids(request.projects)
  BY DEF EdgesOk, WorkersOk, TaskOk
<1> HIDE DEF ts, ws
<1>9. ASSUME NEW i \in DOMAIN Parsed.tasks
      PROVE  /\ Parsed.tasks[i].preds \subseteq Ids(Parsed.tasks)
             /\ Parsed.tasks[i].assigned \subseteq Ids(Parsed.workers)
             /\ Parsed.tasks[i].project \in Ids(request.projects)
  <2>1. i \in DOMAIN ts
    BY <1>3
  <2> QED BY <1>4, <1>6, <1>8, <2>1
<1>10. ASSUME NEW i \in DOMAIN Parsed.workers, NEW x \in Parsed.workers[i].permitted
       PROVE  x.starts < x.ends /\ x.ends > 0 /\ x.starts < LastInstant
  <2>1. i \in DOMAIN ws /\ x \in {y \in ws[i].permitted : y.ends > 0 /\ y.starts < LastInstant}
    BY <1>3, <1>5
  <2> QED BY <1>7, <2>1
<1> QED BY <1>9, <1>10

\* What is accepted of the implemented actions says when they end, and how long the way is
\* when the action or the first assumption that fits does.
LEMMA ActionsAreSound ==
    ASSUME InputConstants, request \in Requests,
           \A i \in DOMAIN request.implemented : ActionOk(request.implemented[i])
    PROVE  \A i \in DOMAIN Parsed.implemented : LET a == Parsed.implemented[i] IN
              /\ a.kind \in {"transfer", "overtime", "date_shift", "weather"} => a.ends # Absent
              /\ a.kind = "transfer" /\ a.out = Absent /\ AssumptionsFor(a) # {} =>
                    request.assumptions[Min(AssumptionsFor(a))].out = Absent
<1>1. DOMAIN Parsed.implemented = DOMAIN request.implemented
      /\ \A i \in DOMAIN request.implemented : Parsed.implemented[i] = ParsedAction(request.implemented[i])
  BY DEF Parsed
<1> SUFFICES ASSUME NEW o, o \in Range(request.implemented), ActionOk(o)
             PROVE  LET a == ParsedAction(o) IN
                    /\ a.kind \in {"transfer", "overtime", "date_shift", "weather"} => a.ends # Absent
                    /\ a.kind = "transfer" /\ a.out = Absent /\ AssumptionsFor(a) # {} =>
                          request.assumptions[Min(AssumptionsFor(a))].out = Absent
  BY <1>1 DEF Range
<1>2. /\ {"kind", "worker", "from", "to", "ends", "out", "back", "setup"} \subseteq DOMAIN o
      /\ {o.starts, o.hours} \subseteq Int \cup {Absent} /\ Absent \notin Int
  BY DEF InputConstants
<1>3. CASE o.kind = "transfer"
  <2>1. ParsedAction(o) = Friction(o)
    BY <1>3 DEF ParsedAction
  <2>2. PICK b, s : Friction(o) = [o EXCEPT
            !.out = IF o.out # Absent THEN o.out
                    ELSE IF AssumptionsFor(o) = {} THEN Absent ELSE request.assumptions[Min(AssumptionsFor(o))].out,
            !.back = b, !.setup = s]
    BY DEF Friction
  <2>3. PICK x : x = IF o.out # Absent THEN o.out
                     ELSE IF AssumptionsFor(o) = {} THEN Absent
                          ELSE request.assumptions[Min(AssumptionsFor(o))].out
    OBVIOUS
  <2>4. PICK a : a = [o EXCEPT !.out = x, !.back = b, !.setup = s]
    OBVIOUS
  <2>5. /\ a.kind = o.kind /\ a.ends = o.ends /\ a.out = x
        /\ a.worker = o.worker /\ a.from = o.from /\ a.to = o.to
    BY <1>2, <2>4
  <2>6. ParsedAction(o) = a
    BY <2>1, <2>2, <2>3, <2>4
  <2>7. AssumptionsFor(a) = AssumptionsFor(o)
    BY <2>5 DEF AssumptionsFor
  <2>8. o.ends # Absent
    BY <1>3 DEF ActionOk, TransferOk
  <2> QED BY <2>3, <2>5, <2>6, <2>7, <2>8
<1>4. CASE o.kind = "overtime"
  <2>1. PICK e : e = IF o.ends = Absent THEN o.starts + o.hours ELSE o.ends
    OBVIOUS
  <2>2. ParsedAction(o) = [o EXCEPT !.ends = e]
    BY <1>4, <2>1 DEF ParsedAction
  <2>3. OvertimeOk(o)
    BY <1>4 DEF ActionOk
  <2>4. o.ends = Absent => o.starts \in Int /\ o.hours \in Int
    BY <1>2, <2>3 DEF OvertimeOk
  <2>5. e # Absent
    BY <1>2, <2>1, <2>4
  <2>6. ParsedAction(o).kind = "overtime" /\ ParsedAction(o).ends = e
    BY <1>2, <1>4, <2>2
  <2> QED BY <2>5, <2>6
<1>5. CASE o.kind \notin {"transfer", "overtime"}
  <2>1. ParsedAction(o) = o
    BY <1>5 DEF ParsedAction
  <2>2. o.kind \in {"date_shift", "weather"} => o.ends # Absent
    BY DEF ActionOk, DateShiftOk, WeatherOk, IsInterval
  <2> QED BY <1>5, <2>1, <2>2
<1> QED BY <1>3, <1>4, <1>5

\* The invariant says what the decision promises.
LEMMA InvDecides == ASSUME InputConstants, InputInv PROVE DecisionIsRight
<1>1. CASE accepted = Absent
  BY <1>1 DEF InputInv, Search, Passed, After, DecisionIsRight
<1>2. CASE accepted # Absent
  <2>1. /\ stage = "accepted" /\ accepted = Parsed /\ request \in Requests /\ Orderable
        /\ EdgesOk /\ WorkersOk /\ \A i \in DOMAIN request.tasks : TaskOk(request.tasks[i])
        /\ \A i \in DOMAIN request.implemented : ActionOk(request.implemented[i])
        /\ visiting = {stack[i].task : i \in DOMAIN stack}
    BY <1>2 DEF InputInv, Search, Passed, After
  <2> QED BY <2>1, AcceptedIsSound, ActionsAreSound DEF DecisionIsRight
<1> QED BY <1>1, <1>2

\* For any request, however many tasks it has and whatever they wait for: it is accepted
\* only with an order of its tasks and with all that it names, and it is rejected in the
\* middle of the search only when there is no such order (_parse_input, _validate_task_graph).
THEOREM DecisionIsAlwaysRight == ASSUME InputConstants PROVE InputSpec => []DecisionIsRight
<1>1. InputInit => InputInv
  BY InitInputInv
<1>2. InputInv /\ [InputNext]_inputVars => InputInv'
  BY NextInputInv
<1>3. InputInv => DecisionIsRight
  BY InvDecides
<1> QED BY <1>1, <1>2, <1>3, PTL DEF InputSpec

-----------------------------------------------------------------------------
\* The least of some percentages.
LEMMA LeastPercent ==
    ASSUME NEW S \in SUBSET Percent, S # {}
    PROVE  Min(S) \in S /\ \A x \in S : Min(S) <= x
<1>1. \E x \in S : \A y \in S : x <= y
  BY LeastNumber DEF Percent
<1> QED BY <1>1 DEF Min

\* A share of a percentage is not more than either.
LEMMA ShareOf ==
    ASSUME NEW n \in Percent, NEW p \in Percent
    PROVE  /\ (n * p) \div 100 \in Percent
           /\ (n * p) \div 100 <= p /\ (n * p) \div 100 <= n
           /\ (p = 0 => (n * p) \div 100 = 0)
<1>1. n \in Nat /\ p \in Nat /\ n <= 100 /\ p <= 100
  BY DEF Percent
<1>2. n * p \in Nat /\ n * p <= 100 * p /\ n * p <= n * 100
  BY <1>1
<1>3. p = 0 => n * p = 0
  BY <1>1
<1> DEFINE m == n * p
<1>4. \A k \in Nat : k \div 100 \in Nat /\ (k <= 100 * p => k \div 100 <= p) /\ (k <= n * 100 => k \div 100 <= n)
                     /\ (k = 0 => k \div 100 = 0)
  BY <1>1
<1> HIDE DEF m
<1>5. m \div 100 \in Nat /\ m \div 100 <= p /\ m \div 100 <= n /\ (p = 0 => m \div 100 = 0)
  BY <1>1, <1>2, <1>3, <1>4 DEF m
<1> QED BY <1>1, <1>5 DEF Percent, m

\* What the rules of a task leave of an hour.
LEMMA HourCapacity ==
    ASSUME ContextConstants, NEW hour, NEW rules, Rules(rules)
    PROVE  /\ CapacityIn(hour, rules) \in Percent
           /\ \A c \in Conditions(rules) :
                 c.stop /\ c.capacity = Nothing /\ Violated(hour, c) => CapacityIn(hour, rules) = 0
<1> DEFINE base == IF BaseCapacity(rules) = Nothing THEN 100 ELSE BaseCapacity(rules)
           S == {base} \cup Effects(hour, rules)
<1>1. base \in Percent
  BY DEF ContextConstants, Rules, BaseCapacity, Percent
<1>2. Effects(hour, rules) \in SUBSET Percent
  BY DEF Rules, Effects, Conditions, Percent
<1>3. PICK m : m = Min(S)
  OBVIOUS
<1>4. CapacityIn(hour, rules) = m
  BY <1>3 DEF CapacityIn
<1>5. ASSUME NEW c \in Conditions(rules), c.stop, c.capacity = Nothing, Violated(hour, c)
      PROVE  0 \in S
  BY <1>5 DEF Effects
<1>6. S \in SUBSET Percent
  BY <1>1, <1>2
<1>7. m \in S /\ \A x \in S : m <= x
  <2> HIDE DEF S
  <2> QED BY <1>3, <1>6, LeastPercent DEF S
<1> HIDE DEF S
<1>8. m \in Percent /\ (0 \in S => m = 0)
  BY <1>6, <1>7 DEF Percent
<1> QED BY <1>4, <1>5, <1>8

\* A profile has percentages, for hours whose forecast says what the rules need.
LEMMA ProfileIs ==
    ASSUME ContextConstants, NEW forecast \in Forecasts \cup {Nothing}, NEW rules, Rules(rules),
           NEW f, f = Profile(forecast, rules)
    PROVE  /\ f \in [DOMAIN f -> Percent] /\ Nothing \notin [DOMAIN f -> Percent]
           /\ \A s \in DOMAIN f : /\ forecast # Nothing /\ s \in DOMAIN forecast.hours
                                  /\ CanTell(forecast.hours[s], rules)
                                  /\ f[s] = CapacityIn(forecast.hours[s], rules)
<1>1. CASE f = Nowhere
  BY <1>1 DEF Nowhere, ContextConstants
<1>2. CASE f # Nowhere
  <2>1. forecast \in Forecasts
    BY <1>2 DEF Profile
  <2>2. DOMAIN f \in SUBSET DOMAIN forecast.hours
    BY <1>2 DEF Profile
  <2>3. f = [s \in DOMAIN f |-> CapacityIn(forecast.hours[s], rules)]
    BY <1>2 DEF Profile
  <2>4. \A s \in DOMAIN f : CanTell(forecast.hours[s], rules)
    BY <1>2 DEF Profile
  <2>5. \A hour : CapacityIn(hour, rules) \in Percent
    BY HourCapacity
  <2>6. Nothing \notin [DOMAIN f -> Percent] /\ forecast # Nothing
    BY <2>1, <2>2 DEF ContextConstants
  <2>7. f \in [DOMAIN f -> Percent]
    BY <2>3, <2>5
  <2> QED BY <2>2, <2>3, <2>4, <2>6, <2>7
<1> QED BY <1>1, <1>2

\* What is merged into the workability of a task is no more than either.
LEMMA MergedIs ==
    ASSUME ContextConstants, NEW own, OwnOk(own), NEW f, f \in [DOMAIN f -> Percent],
           Nothing \notin [DOMAIN f -> Percent], NEW m, m = Merged(own, f)
    PROVE  /\ OwnOk(m) /\ m.kind = "mapping" /\ m.number = Nothing /\ m.slots # Nothing
           /\ DOMAIN m = {"kind", "number", "slots"} /\ DOMAIN m.slots = DOMAIN f
           /\ \A s \in DOMAIN f :
                /\ m.slots[s] \in Percent /\ m.slots[s] <= f[s]
                /\ own.kind = "number" => m.slots[s] <= own.number
                /\ own.kind # "number" /\ own.slots # Nothing /\ s \in DOMAIN own.slots =>
                      m.slots[s] <= own.slots[s]
<1>1. /\ m.kind = "mapping" /\ m.number = Nothing /\ DOMAIN m = {"kind", "number", "slots"}
      /\ m.slots = [s \in DOMAIN f |->
            IF own.kind = "number" THEN (own.number * f[s]) \div 100
            ELSE IF own.slots # Nothing /\ s \in DOMAIN own.slots THEN Least(f[s], own.slots[s])
            ELSE f[s]]
  BY DEF Merged
<1>2. ASSUME NEW s \in DOMAIN f
      PROVE  /\ m.slots[s] \in Percent /\ m.slots[s] <= f[s]
             /\ own.kind = "number" => m.slots[s] <= own.number
             /\ own.kind # "number" /\ own.slots # Nothing /\ s \in DOMAIN own.slots =>
                   m.slots[s] <= own.slots[s]
  <2>1. f[s] \in Percent
    BY <1>2
  <2>2. CASE own.kind = "number"
    <3>1. m.slots[s] = (own.number * f[s]) \div 100 /\ own.number \in Percent
      BY <1>1, <1>2, <2>2 DEF OwnOk
    <3> QED BY <2>1, <2>2, <3>1, ShareOf
  <2>3. CASE own.kind # "number" /\ own.slots # Nothing /\ s \in DOMAIN own.slots
    <3>1. m.slots[s] = Least(f[s], own.slots[s]) /\ own.slots[s] \in Percent
      BY <1>1, <1>2, <2>3 DEF OwnOk
    <3> QED BY <2>1, <2>3, <3>1 DEF Least, Percent
  <2>4. CASE own.kind # "number" /\ ~(own.slots # Nothing /\ s \in DOMAIN own.slots)
    BY <1>1, <1>2, <2>1, <2>4 DEF Percent
  <2> QED BY <2>2, <2>3, <2>4
<1>3. DOMAIN m.slots = DOMAIN f
  BY <1>1
<1>4. m.slots \in [DOMAIN f -> Percent]
  BY <1>1, <1>2
<1>5. m.slots # Nothing
  BY <1>4
<1> QED BY <1>1, <1>2, <1>3, <1>5 DEF OwnOk

\* Merging the same profile again changes nothing.
LEMMA MergedTwice ==
    ASSUME ContextConstants, NEW own, OwnOk(own), NEW f, f \in [DOMAIN f -> Percent],
           Nothing \notin [DOMAIN f -> Percent]
    PROVE  Merged(Merged(own, f), f) = Merged(own, f)
<1>1. PICK m : m = Merged(own, f)
  OBVIOUS
<1>2. /\ m.kind = "mapping" /\ m.slots # Nothing /\ DOMAIN m.slots = DOMAIN f
      /\ \A s \in DOMAIN f : m.slots[s] \in Percent /\ m.slots[s] <= f[s]
  BY <1>1, MergedIs
<1>3. \A s \in DOMAIN f : Least(f[s], m.slots[s]) = m.slots[s]
  BY <1>2 DEF Least, Percent
<1>4. m.slots = [s \in DOMAIN f |-> m.slots[s]]
  BY <1>1, <1>2 DEF Merged
<1>5. m = [kind |-> "mapping", number |-> Nothing, slots |-> m.slots]
  BY <1>1 DEF Merged
<1>6. Merged(m, f) = [kind |-> "mapping", number |-> Nothing, slots |-> [s \in DOMAIN f |-> m.slots[s]]]
  BY <1>2, <1>3 DEF Merged
<1> QED BY <1>1, <1>4, <1>5, <1>6

\* What was answered.
Answered(got) == [k \in {k \in DOMAIN got : got[k].value # Nothing} |-> got[k].value]

\* Of what a thread got, the payload uses no more than what was answered.
LEMMA GivenIsAnswered ==
    ASSUME NEW g, NEW h, Answered(g) = Answered(h), NEW k
    PROVE  Given(g, k) = Given(h, k)
<1>1. \A x : Given(x, k) = IF k \in DOMAIN Answered(x) THEN Answered(x)[k] ELSE Nothing
  BY DEF Given, Answered
<1> QED BY <1>1

\* A plan with the tasks and transfers that answers make of it.
Laid(q, got) == [q EXCEPT !.tasks = EnrichedTasks(q, got), !.transfers = EnrichedTransfers(q, got)]
ValuesOf(k) == IF k[1] = "weather" THEN Forecasts ELSE Matrices
Gotten(got) == \A k \in DOMAIN got : got[k].value \in ValuesOf(k) \cup {Nothing} /\ got[k].stale \in BOOLEAN

\* The forecast of a project is a forecast, if there is one.
LEMMA ForecastIs == ASSUME NEW got, Gotten(got), NEW p PROVE ForecastOf(got, p) \in Forecasts \cup {Nothing}
BY DEF Gotten, ForecastOf, Given, ValuesOf

\* Enriched tasks are the tasks, with another workability if they have rules.
LEMMA TasksAre ==
    ASSUME ContextConstants, NEW q, PlanOk(q), NEW got, Gotten(got), NEW i \in DOMAIN q.tasks,
           NEW e, e = EnrichedTasks(q, got)[i]
    PROVE  /\ DOMAIN e = DOMAIN q.tasks[i] /\ e.project = q.tasks[i].project /\ e.rules = q.tasks[i].rules
           /\ ~IsRuled(q.tasks[i]) => e = q.tasks[i]
           /\ IsRuled(q.tasks[i]) =>
                 /\ OwnOk(e.own) /\ Rules(e.rules) /\ OwnOk(q.tasks[i].own)
                 /\ e.own = Merged(q.tasks[i].own,
                                   Profile(ForecastOf(got, q.tasks[i].project), q.tasks[i].rules))
<1>1. CASE ~IsRuled(q.tasks[i])
  BY <1>1 DEF EnrichedTasks
<1>2. CASE IsRuled(q.tasks[i])
  <2> DEFINE f == Profile(ForecastOf(got, q.tasks[i].project), q.tasks[i].rules)
             m == Merged(q.tasks[i].own, f)
  <2>1. e = [q.tasks[i] EXCEPT !.own = m]
    BY <1>2 DEF EnrichedTasks
  <2>2. {"project", "rules", "own"} \subseteq DOMAIN q.tasks[i]
    BY DEF PlanOk
  <2>3. Rules(q.tasks[i].rules) /\ OwnOk(q.tasks[i].own)
    BY <1>2 DEF PlanOk, IsRuled
  <2>4. f \in [DOMAIN f -> Percent] /\ Nothing \notin [DOMAIN f -> Percent]
    BY <2>3, ForecastIs, ProfileIs
  <2>5. OwnOk(m)
    BY <2>3, <2>4, MergedIs
  <2> HIDE DEF m
  <2>6. DOMAIN e = DOMAIN q.tasks[i] /\ e.project = q.tasks[i].project /\ e.rules = q.tasks[i].rules
        /\ e.own = m
    BY <2>1, <2>2
  <2> QED BY <1>2, <2>3, <2>5, <2>6 DEF m
<1> QED BY <1>1, <1>2

\* The leg of a transfer from a to b, if both are known, and a transfer with other times.
LegOf(q, got, a, b) == IF {a, b} \subseteq q.located THEN Leg(Given(got, RoutingKey(q)), a, b) ELSE Nothing
Travels(move, out, back) == [move EXCEPT !.out = out, !.back = back]
OutOf(q, got, move) == TravelHours(move.out, LegOf(q, got, move.from, move.to))
BackOf(q, got, move) == TravelHours(move.back, LegOf(q, got, move.to, move.from))

\* Enriched transfers are the transfers, with other travel times.
LEMMA TransfersAre ==
    ASSUME NEW q, PlanOk(q), NEW got, NEW i \in DOMAIN q.transfers,
           NEW e, e = EnrichedTransfers(q, got)[i], NEW move, move = q.transfers[i]
    PROVE  /\ DOMAIN e = DOMAIN move /\ e.from = move.from /\ e.to = move.to
           /\ e.confirmed = move.confirmed /\ {"out", "back"} \subseteq DOMAIN move
           /\ i \notin Moves(q) => e = move
           /\ i \in Moves(q) => /\ e = Travels(move, OutOf(q, got, move), BackOf(q, got, move))
                               /\ e.out = OutOf(q, got, move) /\ e.back = BackOf(q, got, move)
<1>1. {"from", "to", "confirmed", "out", "back"} \subseteq DOMAIN move
  BY DEF PlanOk
<1>2. CASE i \notin Moves(q)
  BY <1>1, <1>2 DEF EnrichedTransfers
<1>3. CASE i \in Moves(q)
  <2>1. e = Travels(move, OutOf(q, got, move), BackOf(q, got, move))
    BY <1>3 DEF EnrichedTransfers, Travels, OutOf, BackOf, LegOf
  <2>2. \A x, y : LET m == Travels(move, x, y) IN
          /\ DOMAIN m = DOMAIN move /\ m.from = move.from /\ m.to = move.to
          /\ m.confirmed = move.confirmed /\ m.out = x /\ m.back = y
    BY <1>1 DEF Travels
  <2> QED BY <1>1, <1>3, <2>1, <2>2
<1> QED BY <1>2, <1>3

\* Answers leave the places, the projects and what is asked for as they are.
LEMMA LaidIs ==
    ASSUME ContextConstants, NEW q, PlanOk(q), NEW got, Gotten(got), NEW l, l = Laid(q, got)
    PROVE  /\ PlanOk(l) /\ l.located = q.located /\ l.configured = q.configured
           /\ l.tasks = EnrichedTasks(q, got) /\ l.transfers = EnrichedTransfers(q, got)
           /\ WeatherProjects(l) = WeatherProjects(q) /\ Moves(l) = Moves(q)
           /\ RoutingProjects(l) = RoutingProjects(q) /\ RoutingKey(l) = RoutingKey(q)
           /\ Pairs(l) = Pairs(q) /\ Keys(l) = Keys(q)
           /\ \A g : Status(l, g) = Status(q, g)
<1>1. /\ DOMAIN l = {"located", "configured", "tasks", "transfers"}
      /\ l.located = q.located /\ l.configured = q.configured
      /\ l.tasks = EnrichedTasks(q, got) /\ l.transfers = EnrichedTransfers(q, got)
  <2>1. DOMAIN q = {"located", "configured", "tasks", "transfers"}
    BY DEF PlanOk
  <2> QED BY <2>1 DEF Laid
<1>2. DOMAIN l.tasks = DOMAIN q.tasks /\ DOMAIN l.transfers = DOMAIN q.transfers
  BY <1>1 DEF EnrichedTasks, EnrichedTransfers
<1>3. \A i \in DOMAIN q.tasks :
        /\ DOMAIN l.tasks[i] = DOMAIN q.tasks[i] /\ l.tasks[i].project = q.tasks[i].project
        /\ l.tasks[i].rules = q.tasks[i].rules
        /\ IsRuled(q.tasks[i]) => OwnOk(l.tasks[i].own) /\ Rules(l.tasks[i].rules)
  BY <1>1, TasksAre
<1>4. \A i \in DOMAIN q.transfers :
        /\ DOMAIN l.transfers[i] = DOMAIN q.transfers[i] /\ l.transfers[i].from = q.transfers[i].from
        /\ l.transfers[i].to = q.transfers[i].to /\ l.transfers[i].confirmed = q.transfers[i].confirmed
  BY <1>1, TransfersAre
<1>5. PlanOk(l)
  <2>1. \A i \in DOMAIN q.tasks : {"project", "rules", "own"} \subseteq DOMAIN q.tasks[i]
    BY DEF PlanOk
  <2>2. \A i \in DOMAIN l.tasks : LET task == l.tasks[i] IN
          /\ {"project", "rules", "own"} \subseteq DOMAIN task
          /\ task.rules # Nothing /\ task.rules.confirmed => Rules(task.rules) /\ OwnOk(task.own)
    BY <1>2, <1>3, <2>1 DEF IsRuled
  <2>3. \A i \in DOMAIN l.transfers : {"from", "to", "confirmed", "out", "back"} \subseteq DOMAIN l.transfers[i]
    BY <1>2, <1>4 DEF PlanOk
  <2> QED BY <1>1, <2>2, <2>3 DEF PlanOk
<1>6. \A i \in DOMAIN q.tasks : IsRuled(l.tasks[i]) <=> IsRuled(q.tasks[i])
  BY <1>3 DEF IsRuled
<1>7. WeatherProjects(l) = WeatherProjects(q)
  <2>1. {i \in DOMAIN l.tasks : IsRuled(l.tasks[i])} = {i \in DOMAIN q.tasks : IsRuled(q.tasks[i])}
    BY <1>2, <1>6
  <2>2. \A i \in {i \in DOMAIN q.tasks : IsRuled(q.tasks[i])} : l.tasks[i].project = q.tasks[i].project
    BY <1>3
  <2>3. {l.tasks[i].project : i \in {i \in DOMAIN l.tasks : IsRuled(l.tasks[i])}}
        = {q.tasks[i].project : i \in {i \in DOMAIN q.tasks : IsRuled(q.tasks[i])}}
    BY <2>1, <2>2
  <2> QED BY <1>1, <2>3 DEF WeatherProjects
<1>8. Moves(l) = Moves(q)
  BY <1>2, <1>4 DEF Moves
<1>9. RoutingProjects(l) = RoutingProjects(q)
  <2>1. \A i \in Moves(q) : l.transfers[i].from = q.transfers[i].from /\ l.transfers[i].to = q.transfers[i].to
    BY <1>4 DEF Moves
  <2>2. {{l.transfers[i].from, l.transfers[i].to} : i \in Moves(l)}
        = {{q.transfers[i].from, q.transfers[i].to} : i \in Moves(q)}
    BY <1>8, <2>1
  <2> QED BY <1>1, <2>2 DEF RoutingProjects
<1>10. RoutingKey(l) = RoutingKey(q) /\ Pairs(l) = Pairs(q) /\ Keys(l) = Keys(q)
  BY <1>1, <1>9 DEF RoutingKey, Pairs, Keys
<1>11. ASSUME NEW g PROVE Status(l, g) = Status(q, g)
  <2>1. \A p : ProjectStatus(l, g, p) = ProjectStatus(q, g, p)
    BY <1>1 DEF ProjectStatus
  <2>2. \A m : RoutingComplete(l, m) = RoutingComplete(q, m)
    BY <1>10 DEF RoutingComplete
  <2>3. RoutingStatus(l, g) = RoutingStatus(q, g)
    BY <1>8, <1>10, <2>2 DEF RoutingStatus
  <2> QED BY <1>1, <1>7, <1>10, <2>1, <2>3 DEF Status
<1> QED BY <1>1, <1>5, <1>7, <1>8, <1>9, <1>10, <1>11

\* The same answers make the same of a plan, and of what they made of it once.
LEMMA EnrichedAgain ==
    ASSUME ContextConstants, NEW q, PlanOk(q), NEW g, Gotten(g), NEW h, Gotten(h),
           Answered(g) = Answered(h)
    PROVE  /\ EnrichedTasks(q, h) = EnrichedTasks(q, g)
           /\ EnrichedTransfers(q, h) = EnrichedTransfers(q, g)
           /\ EnrichedTasks(Laid(q, g), h) = EnrichedTasks(q, g)
           /\ EnrichedTransfers(Laid(q, g), h) = EnrichedTransfers(q, g)
<1>1. \A k : Given(h, k) = Given(g, k)
  BY GivenIsAnswered
<1>2. \A p : ForecastOf(h, p) = ForecastOf(g, p)
  BY <1>1 DEF ForecastOf
<1>3. EnrichedTasks(q, h) = EnrichedTasks(q, g) /\ EnrichedTransfers(q, h) = EnrichedTransfers(q, g)
  BY <1>1, <1>2 DEF EnrichedTasks, EnrichedTransfers
<1>4. PICK l : l = Laid(q, g)
  OBVIOUS
<1>5. /\ PlanOk(l) /\ l.located = q.located /\ Moves(l) = Moves(q) /\ RoutingKey(l) = RoutingKey(q)
      /\ l.tasks = EnrichedTasks(q, g) /\ l.transfers = EnrichedTransfers(q, g)
  BY <1>4, LaidIs
<1>6. ASSUME NEW i \in DOMAIN q.tasks PROVE EnrichedTasks(l, h)[i] = EnrichedTasks(q, g)[i]
  <2>1. PICK e : e = EnrichedTasks(q, g)[i]
    OBVIOUS
  <2>2. i \in DOMAIN l.tasks /\ l.tasks[i] = e
    BY <1>5, <2>1 DEF EnrichedTasks
  <2>3. /\ DOMAIN e = DOMAIN q.tasks[i] /\ e.project = q.tasks[i].project /\ e.rules = q.tasks[i].rules
        /\ ~IsRuled(q.tasks[i]) => e = q.tasks[i]
        /\ IsRuled(q.tasks[i]) =>
              /\ OwnOk(e.own) /\ Rules(e.rules) /\ OwnOk(q.tasks[i].own)
              /\ e.own = Merged(q.tasks[i].own,
                                Profile(ForecastOf(g, q.tasks[i].project), q.tasks[i].rules))
    BY <2>1, TasksAre
  <2>4. IsRuled(e) <=> IsRuled(q.tasks[i])
    BY <2>3 DEF IsRuled
  <2>5. CASE ~IsRuled(q.tasks[i])
    BY <2>1, <2>2, <2>4, <2>5 DEF EnrichedTasks
  <2>6. CASE IsRuled(q.tasks[i])
    <3>1. PICK f : f = Profile(ForecastOf(g, q.tasks[i].project), q.tasks[i].rules)
      OBVIOUS
    <3>2. f \in [DOMAIN f -> Percent] /\ Nothing \notin [DOMAIN f -> Percent]
      BY <2>3, <2>6, <3>1, ForecastIs, ProfileIs
    <3>3. Merged(e.own, f) = e.own
      BY <2>3, <2>6, <3>1, <3>2, MergedTwice
    <3>4. EnrichedTasks(l, h)[i] = [e EXCEPT !.own = Merged(e.own, f)]
      BY <1>2, <2>2, <2>3, <2>4, <2>6, <3>1 DEF EnrichedTasks
    <3>5. [e EXCEPT !.own = e.own] = e
      BY <2>1, <2>6 DEF EnrichedTasks
    <3> QED BY <2>1, <3>3, <3>4, <3>5
  <2> QED BY <2>5, <2>6
<1>7. ASSUME NEW i \in DOMAIN q.transfers PROVE EnrichedTransfers(l, h)[i] = EnrichedTransfers(q, g)[i]
  <2>1. PICK e, move : e = EnrichedTransfers(q, g)[i] /\ move = q.transfers[i]
    OBVIOUS
  <2>2. i \in DOMAIN l.transfers /\ l.transfers[i] = e
    BY <1>5, <2>1 DEF EnrichedTransfers
  <2>3. CASE i \notin Moves(q)
    BY <1>5, <2>1, <2>2, <2>3 DEF EnrichedTransfers
  <2>4. CASE i \in Moves(q)
    <3>1. /\ e = Travels(move, OutOf(q, g, move), BackOf(q, g, move))
          /\ e.out = OutOf(q, g, move) /\ e.back = BackOf(q, g, move)
          /\ DOMAIN e = DOMAIN move /\ e.from = move.from /\ e.to = move.to
      BY <2>1, <2>4, TransfersAre
    <3>2. EnrichedTransfers(l, h)[i] = Travels(e, OutOf(l, h, e), BackOf(l, h, e))
      BY <1>5, <2>2, <2>4, TransfersAre
    <3>3. \A x, y : TravelHours(TravelHours(x, y), y) = TravelHours(x, y)
      BY DEF TravelHours
    <3>4. OutOf(l, h, e) = e.out /\ BackOf(l, h, e) = e.back
      <4>1. \A a, b : LegOf(l, h, a, b) = LegOf(q, g, a, b)
        BY <1>1, <1>5 DEF LegOf
      <4> QED BY <3>1, <3>3, <4>1 DEF OutOf, BackOf
    <3>5. Travels(e, e.out, e.back) = e
      BY <3>1 DEF Travels
    <3> QED BY <2>1, <3>2, <3>4, <3>5
  <2> QED BY <2>3, <2>4
<1>8. EnrichedTasks(l, h) = EnrichedTasks(q, g) /\ EnrichedTransfers(l, h) = EnrichedTransfers(q, g)
  BY <1>5, <1>6, <1>7 DEF EnrichedTasks, EnrichedTransfers
<1> QED BY <1>3, <1>4, <1>8

\* What one state of all projects, or of both sources, says of each.
LEMMA AggregateIs ==
    ASSUME NEW states
    PROVE  /\ Aggregate(states) \in {"partial", "stale", "not_requested", "available",
                                     "not_configured", "unavailable"}
           /\ Aggregate(states) = "not_requested" => states = {}
           /\ \A a \in {"available", "not_configured", "unavailable"} :
                 Aggregate(states) = a => states = {a}
<1>1. \A a : (CHOOSE s \in {a} : TRUE) = a
  OBVIOUS
<1>2. \A a \in {"available", "not_configured", "unavailable"} :
        states = {a} => (CHOOSE s \in states : TRUE) = a
  BY <1>1
<1>3. CASE states \in {{"available"}, {"not_configured"}, {"unavailable"}}
  <2>1. PICK a \in {"available", "not_configured", "unavailable"} : states = {a}
    BY <1>3
  <2>2. Aggregate(states) = a
    BY <1>2, <1>3, <2>1 DEF Aggregate
  <2> QED BY <2>1, <2>2
<1>4. CASE states \notin {{"available"}, {"not_configured"}, {"unavailable"}}
  BY <1>4 DEF Aggregate
<1> QED BY <1>3, <1>4

\* What is available in all is available, or not requested, of each.
LEMMA OverallIs ==
    ASSUME NEW w, NEW r, Overall(w, r) = "available"
    PROVE  w \in {"available", "not_requested"} /\ r \in {"available", "not_requested"}
<1>1. \A a : (CHOOSE s \in {a} : TRUE) = a
  OBVIOUS
<1>2. PICK active : active = {w, r} \ {"not_requested"}
  OBVIOUS
<1>3. active = {"available"}
  <2>1. active \in {{"available"}, {"not_configured"}, {"unavailable"}}
    BY <1>2 DEF Overall
  <2>2. (CHOOSE s \in active : TRUE) = "available"
    BY <1>2, <2>1 DEF Overall
  <2> QED BY <1>1, <2>1, <2>2
<1> QED BY <1>2, <1>3

\* The states of the projects.
StatesOf(q, got) == {ProjectStatus(q, got, p) : p \in WeatherProjects(q)}

\* The status lists them, and the weather's is what they are together.
LEMMA StatusIs ==
    ASSUME NEW q, NEW got
    PROVE  /\ Status(q, got).projects = [p \in WeatherProjects(q) |-> ProjectStatus(q, got, p)]
           /\ Status(q, got).weather = Aggregate(StatesOf(q, got))
<1> DEFINE projects == [p \in WeatherProjects(q) |-> ProjectStatus(q, got, p)]
<1>1. {projects[p] : p \in WeatherProjects(q)} = StatesOf(q, got)
  BY DEF StatesOf
<1> QED BY <1>1 DEF Status

\* What an answer that is available is.
LEMMA ConditionIs ==
    ASSUME NEW a, a.stale \in BOOLEAN, NEW complete \in BOOLEAN, Condition(a, complete) = "available"
    PROVE  a.value # Nothing /\ ~a.stale /\ complete
BY DEF Condition

\* The state of all says of each what DegradedIsShown promises.
LEMMA AvailableIsWhole ==
    ASSUME ContextConstants, NEW q, NEW got, Gotten(got), DOMAIN got = Keys(q),
           Status(q, got).overall = "available"
    PROVE  /\ \A p \in WeatherProjects(q) :
                p \in q.located /\ ~got[<<"weather", {p}>>].stale /\ WeatherComplete(ForecastOf(got, p))
           /\ \A i \in Moves(q) :
                LET from == q.transfers[i].from  to == q.transfers[i].to
                    leg(a, b) == Leg(Given(got, RoutingKey(q)), a, b) IN
                from # to /\ {from, to} \subseteq q.located =>
                    leg(from, to) # Nothing /\ leg(to, from) # Nothing /\ ~got[RoutingKey(q)].stale
<1> DEFINE w == Status(q, got).weather
           r == Status(q, got).routing
<1>1. w \in {"available", "not_requested"} /\ r \in {"available", "not_requested"}
  <2>1. Status(q, got).overall = Overall(w, r)
    BY DEF Status
  <2> HIDE DEF w, r
  <2> QED BY <2>1, OverallIs
<1>2. w = Aggregate({ProjectStatus(q, got, p) : p \in WeatherProjects(q)}) /\ r = RoutingStatus(q, got)
  BY DEF Status
<1> HIDE DEF w, r
<1>3. ASSUME NEW p \in WeatherProjects(q)
      PROVE  p \in q.located /\ ~got[<<"weather", {p}>>].stale /\ WeatherComplete(ForecastOf(got, p))
  <2>1. ProjectStatus(q, got, p) = "available"
    BY <1>1, <1>2, AggregateIs
  <2>2. PICK k : k = <<"weather", {p}>>
    OBVIOUS
  <2>3. p \in q.located
    BY <2>1 DEF ProjectStatus
  <2>4. k \in DOMAIN got
    BY <2>2, <2>3 DEF Keys
  <2>5. Condition(got[k], got[k].value # Nothing /\ WeatherComplete(got[k].value)) = "available"
    BY <2>1, <2>2, <2>3 DEF ProjectStatus
  <2>6. got[k].stale \in BOOLEAN /\ (got[k].value # Nothing /\ WeatherComplete(got[k].value)) \in BOOLEAN
    BY <2>4 DEF Gotten
  <2>7. ~got[k].stale /\ WeatherComplete(got[k].value)
    BY <2>5, <2>6 DEF Condition
  <2> QED BY <2>2, <2>3, <2>4, <2>7 DEF ForecastOf, Given
<1>4. ASSUME NEW i \in Moves(q), NEW from, from = q.transfers[i].from, NEW to, to = q.transfers[i].to,
             from # to, {from, to} \subseteq q.located
      PROVE  /\ Leg(Given(got, RoutingKey(q)), from, to) # Nothing
             /\ Leg(Given(got, RoutingKey(q)), to, from) # Nothing
             /\ ~got[RoutingKey(q)].stale
  <2>1. from \in RoutingProjects(q) /\ to \in RoutingProjects(q)
    <3>1. PICK U : U = UNION {{q.transfers[x].from, q.transfers[x].to} : x \in Moves(q)}
      OBVIOUS
    <3>2. RoutingProjects(q) = U \cap q.located
      BY <3>1 DEF RoutingProjects
    <3>3. from \in U /\ to \in U
      BY <1>4, <3>1
    <3> QED BY <1>4, <3>2, <3>3
  <2>2. <<from, to>> \in Pairs(q) /\ <<to, from>> \in Pairs(q)
    BY <1>4, <2>1 DEF Pairs
  <2>3. PICK k : k = RoutingKey(q)
    OBVIOUS
  <2>4. k \in DOMAIN got /\ Condition(got[k], RoutingComplete(q, got[k].value)) = "available"
    BY <1>1, <1>2, <1>4, <2>3 DEF RoutingStatus, Condition
  <2>5. got[k].stale \in BOOLEAN /\ RoutingComplete(q, got[k].value) \in BOOLEAN
    BY <2>4 DEF Gotten, RoutingComplete
  <2>6. ~got[k].stale /\ RoutingComplete(q, got[k].value)
    BY <2>4, <2>5, ConditionIs
  <2> QED BY <2>2, <2>3, <2>4, <2>6 DEF RoutingComplete, Given
<1> QED BY <1>3, <1>4

\* What is enriched is no better than the answers and the plan.
LEMMA TasksAreSound ==
    ASSUME ContextConstants, NEW q, PlanOk(q), NEW got, Gotten(got), NEW i \in DOMAIN q.tasks,
           IsRuled(q.tasks[i])
    PROVE  SlotsAreSound(q.tasks[i], EnrichedTasks(q, got)[i].own.slots,
                         ForecastOf(got, q.tasks[i].project))
<1>0. PICK task, own, slots, forecast : /\ task = q.tasks[i] /\ own = task.own
        /\ slots = EnrichedTasks(q, got)[i].own.slots /\ forecast = ForecastOf(got, q.tasks[i].project)
  OBVIOUS
<1>1. ASSUME NEW s \in DOMAIN slots
      PROVE  /\ forecast # Nothing /\ s \in DOMAIN forecast.hours
             /\ own.kind = "number" => slots[s] <= own.number
             /\ own.kind = "mapping" /\ own.slots # Nothing /\ s \in DOMAIN own.slots => slots[s] <= own.slots[s]
             /\ \A c \in Conditions(task.rules) :
                   /\ c.metric \in DOMAIN forecast.hours[s]
                   /\ c.stop /\ c.capacity = Nothing /\ Violated(forecast.hours[s], c) => slots[s] = 0
  <2>1. PICK rules, f, m : rules = task.rules /\ f = Profile(forecast, rules) /\ m = Merged(own, f)
    OBVIOUS
  <2>2. Rules(rules) /\ OwnOk(own) /\ slots = m.slots /\ forecast \in Forecasts \cup {Nothing}
    BY <1>0, <2>1, TasksAre, ForecastIs
  <2>3. /\ f \in [DOMAIN f -> Percent] /\ Nothing \notin [DOMAIN f -> Percent]
        /\ \A x \in DOMAIN f : /\ forecast # Nothing /\ x \in DOMAIN forecast.hours
                               /\ CanTell(forecast.hours[x], rules)
                               /\ f[x] = CapacityIn(forecast.hours[x], rules)
    BY <2>1, <2>2, ProfileIs
  <2>4. /\ DOMAIN slots = DOMAIN f /\ slots[s] \in Percent /\ slots[s] <= f[s]
        /\ own.kind = "number" => slots[s] <= own.number
        /\ own.kind # "number" /\ own.slots # Nothing /\ s \in DOMAIN own.slots => slots[s] <= own.slots[s]
    <3>1. DOMAIN slots = DOMAIN f
      BY <2>1, <2>2, <2>3, MergedIs
    <3> QED BY <2>1, <2>2, <2>3, <3>1, MergedIs
  <2>5. ASSUME NEW c \in Conditions(rules)
        PROVE  /\ c.metric \in DOMAIN forecast.hours[s]
               /\ c.stop /\ c.capacity = Nothing /\ Violated(forecast.hours[s], c) => slots[s] = 0
    <3>1. c.metric \in DOMAIN forecast.hours[s]
      BY <2>3, <2>4 DEF CanTell
    <3>2. ASSUME c.stop, c.capacity = Nothing, Violated(forecast.hours[s], c) PROVE slots[s] = 0
      <4>1. f[s] = 0
        BY <2>2, <2>3, <2>4, <3>2, HourCapacity
      <4> QED BY <2>4, <4>1 DEF Percent
    <3> QED BY <3>1, <3>2
  <2> QED BY <2>1, <2>3, <2>4, <2>5
<1> QED BY <1>0, <1>1 DEF SlotsAreSound

\* A travel time is the plan's own or one of the matrix.
LEMMA TransfersAreSound ==
    ASSUME ContextConstants, NEW q, PlanOk(q), NEW got, NEW i \in DOMAIN q.transfers,
           NEW e, e = EnrichedTransfers(q, got)[i]
    PROVE  \/ e.out = q.transfers[i].out
           \/ e.out \in Nat /\ RoutingKey(q) \in DOMAIN Answered(got)
<1>1. PICK move, leg : move = q.transfers[i] /\ leg = LegOf(q, got, move.from, move.to)
  OBVIOUS
<1>2. e = move \/ e.out = TravelHours(move.out, leg)
  BY <1>1, TransfersAre DEF OutOf
<1>3. leg # Nothing => leg \in Nat /\ RoutingKey(q) \in DOMAIN Answered(got)
  BY <1>1 DEF LegOf, Leg, Given, Answered
<1> QED BY <1>1, <1>2, <1>3 DEF TravelHours

\* The verdict on what was enriched before is the verdict on the plan.
LEMMA SameVerdict ==
    ASSUME ContextConstants, NEW q, PlanOk(q), NEW g, Gotten(g), NEW h, Gotten(h),
           NEW saved, saved.revision = Revision(Enriched(q, g))
    PROVE  IsFresh(Enriched(Laid(q, g), h), saved) <=> IsFresh(Enriched(q, h), saved)
<1>1. PICK e, d, l : l = Laid(q, g) /\ e = Enriched(l, h) /\ d = Enriched(q, h)
  OBVIOUS
<1>2. \A p, x : /\ Enriched(p, x).tasks = EnrichedTasks(p, x)
                /\ Enriched(p, x).transfers = EnrichedTransfers(p, x)
                /\ Enriched(p, x).status = Status(p, x) /\ Enriched(p, x).answers = Answered(x)
  BY DEF Enriched, Answered
<1>3. e.status = d.status /\ e.answers = d.answers
  BY <1>1, <1>2, LaidIs
<1>4. CASE Answered(h) = Answered(g)
  <2>1. e.tasks = d.tasks /\ e.transfers = d.transfers
    BY <1>1, <1>2, <1>4, EnrichedAgain
  <2> QED BY <1>1, <1>3, <2>1 DEF IsFresh, Revision
<1>5. CASE Answered(h) # Answered(g)
  <2>1. Revision(e) # saved.revision /\ Revision(d) # saved.revision
    BY <1>1, <1>2, <1>3, <1>5 DEF Revision
  <2> QED BY <1>1, <2>1 DEF IsFresh
<1> QED BY <1>4, <1>5

\* Of a fresh context the tasks and transfers are those of the analysis, and the projects
\* are in the same states where the state of all of them tells.
LEMMA FreshIsSame ==
    ASSUME ContextConstants, NEW q, PlanOk(q), NEW g, Gotten(g), NEW h, Gotten(h),
           NEW p \in {q, Laid(q, g)}, NEW saved, saved.revision = Revision(Enriched(q, g)),
           saved.status = Enriched(q, g).status, NEW e, e = Enriched(p, h), IsFresh(e, saved)
    PROVE  /\ e.tasks = Enriched(q, g).tasks /\ e.transfers = Enriched(q, g).transfers
           /\ \/ e.status.projects = saved.status.projects
              \/ e.status.weather \in {"partial", "stale"}
<1>1. PICK d : d = Enriched(q, g)
  OBVIOUS
<1>2. e.tasks = d.tasks /\ e.transfers = d.transfers /\ e.status.weather = d.status.weather
  BY <1>1 DEF IsFresh, Revision
<1>3. e.status = Status(q, h) /\ d.status = Status(q, g)
  <2>1. e.status = Status(p, h) /\ d.status = Status(q, g)
    BY <1>1 DEF Enriched
  <2> QED BY <2>1, LaidIs
<1>4. \A x : /\ Status(q, x).projects = [z \in WeatherProjects(q) |-> ProjectStatus(q, x, z)]
             /\ Status(q, x).weather = Aggregate(StatesOf(q, x))
  BY StatusIs
<1>5. e.status.weather = Aggregate(StatesOf(q, h)) /\ d.status.weather = Aggregate(StatesOf(q, g))
  BY <1>3, <1>4
<1>6. CASE e.status.weather \in {"available", "not_configured", "unavailable", "not_requested"}
  <2>1. StatesOf(q, g) = StatesOf(q, h) /\ \A x, y \in StatesOf(q, g) : x = y
    <3>1. PICK S, T : S = StatesOf(q, h) /\ T = StatesOf(q, g)
      OBVIOUS
    <3>2. Aggregate(S) = Aggregate(T) /\ Aggregate(S) = e.status.weather
      BY <1>2, <1>5, <3>1
    <3>3. CASE Aggregate(S) = "not_requested"
      BY <3>1, <3>2, <3>3, AggregateIs
    <3>4. CASE Aggregate(S) \in {"available", "not_configured", "unavailable"}
      <4>1. S = {Aggregate(S)} /\ T = {Aggregate(T)}
        BY <3>2, <3>4, AggregateIs
      <4> QED BY <3>1, <3>2, <4>1
    <3> QED BY <1>6, <3>2, <3>3, <3>4
  <2>2. \A z \in WeatherProjects(q) : /\ ProjectStatus(q, g, z) \in StatesOf(q, g)
                                     /\ ProjectStatus(q, h, z) \in StatesOf(q, h)
    BY DEF StatesOf
  <2>3. \A z \in WeatherProjects(q) : ProjectStatus(q, g, z) = ProjectStatus(q, h, z)
    BY <2>1, <2>2
  <2>4. [z \in WeatherProjects(q) |-> ProjectStatus(q, g, z)] = [z \in WeatherProjects(q) |-> ProjectStatus(q, h, z)]
    BY <2>3
  <2>5. e.status.projects = d.status.projects
    BY <1>3, <1>4, <2>4
  <2> QED BY <1>1, <1>2, <2>5
<1>7. e.status.weather \in {"partial", "stale", "not_requested", "available", "not_configured", "unavailable"}
  BY <1>5, AggregateIs
<1> QED BY <1>1, <1>2, <1>6, <1>7

-----------------------------------------------------------------------------
\* What holds in every state: an entry says what was known when, an enrichment has looked
\* for a part of what its plan asks for, and the analysis is what one of them ended with.
Cached(k, entry) ==
    /\ entry.value \in ValuesOf(k) /\ k[1] \in {"weather", "routing"}
    /\ entry.stored \in Nat /\ entry.at \in Int /\ entry.stored <= entry.at
    /\ entry.expires = entry.stored + Ttl[k[1]]
Recent(r) == \A k \in DOMAIN r.got :
    r.got[k].value # Nothing /\ ~r.got[k].stale => r.since < r.got[k].at + Ttl[k[1]]
RunOk(r) ==
    /\ DOMAIN r = DOMAIN Idle /\ r.at \in {"idle", "look", "ask", "done"}
    /\ r.since \in Nat /\ r.since <= clock
    /\ r.at = "idle" => r = Idle
    /\ Gotten(r.got) /\ Recent(r)
    /\ r.at # "idle" =>
          /\ DOMAIN r.got \cup r.left = Keys(frozen)
          /\ r.kind \in {"analyse", "approve"} /\ (r.kind = "analyse" => r.input = frozen)
          /\ r.kind = "approve" => analysis # Nothing /\ r.input = SavedPlanning(analysis)
    /\ r.at = "ask" => r.key \in r.left
    /\ r.at = "done" => /\ r.left = {} /\ r.result = Enriched(r.input, r.got)
                        /\ r.fresh = (r.kind = "approve" /\ IsFresh(r.result, analysis))
Ends(r) == /\ r.at = "done" /\ r.kind = "analyse"
           /\ analysis.revision = Revision(r.result) /\ analysis.status = r.result.status
           /\ analysis.planning = [tasks |-> r.result.tasks, transfers |-> r.result.transfers]
           /\ analysis.contextInput \in {Nothing, frozen}
ContextInv ==
    /\ frozen \in Plans /\ clock \in Nat
    /\ DOMAIN cache = Process
    /\ \A p \in Process : \A k \in DOMAIN cache[p] : Cached(k, cache[p][k])
    /\ DOMAIN run = Thread /\ \A t \in Thread : RunOk(run[t])
    /\ analysis # Nothing => \E t \in Thread : Ends(run[t])

\* It holds before anything is asked for.
LEMMA InitContextInv == ASSUME ContextConstants, ContextInit PROVE ContextInv
<1>1. RunOk(Idle)
  BY DEF ContextInit, RunOk, Idle, Gotten, Recent
<1> QED BY <1>1 DEF ContextInit, ContextInv

\* An enrichment that does not move stays as it is.
LEMMA OthersStay ==
    ASSUME ContextInv, frozen' = frozen, clock' \in Nat, clock <= clock',
           analysis = Nothing \/ analysis' = analysis, NEW u \in Thread, run'[u] = run[u]
    PROVE  RunOk(run[u])'
<1>1. RunOk(run[u])
  BY DEF ContextInv
<1>2. analysis # Nothing => analysis' = analysis
  OBVIOUS
<1>3. run[u].since <= clock'
  BY <1>1 DEF RunOk, ContextInv
<1> QED BY <1>1, <1>2, <1>3 DEF RunOk, SavedPlanning

\* What an analysis ended with stays what it is.
LEMMA EndsStay ==
    ASSUME ContextInv, frozen' = frozen, analysis' = analysis, NEW t,
           \A u \in Thread : u # t => run'[u] = run[u], t \in Thread => run[t].at # "done"
    PROVE  analysis' # Nothing => \E u \in Thread : Ends(run[u])'
<1>1. ASSUME NEW u \in Thread, Ends(run[u]) PROVE Ends(run[u])'
  BY <1>1 DEF Ends
<1> QED BY <1>1 DEF ContextInv

\* One enrichment goes on, and perhaps the cache of its process.
LEMMA OneRun ==
    ASSUME ContextInv, NEW t \in Thread, NEW r, run' = [run EXCEPT ![t] = r], RunOk(r)',
           run[t].at # "done", frozen' = frozen, clock' = clock, analysis' = analysis,
           DOMAIN cache' = Process,
           \A p \in Process : \A k \in DOMAIN cache'[p] : Cached(k, cache'[p][k])
    PROVE  ContextInv'
<1>1. DOMAIN run' = Thread /\ run'[t] = r /\ \A u \in Thread : u # t => run'[u] = run[u]
  BY DEF ContextInv
<1>2. ASSUME NEW u \in Thread PROVE RunOk(run[u])'
  <2>1. CASE u = t
    BY <1>1, <2>1 DEF RunOk
  <2>2. CASE u # t
    BY <1>1, <2>2, OthersStay DEF ContextInv
  <2> QED BY <2>1, <2>2
<1>3. analysis' # Nothing => \E u \in Thread : Ends(run[u])'
  BY <1>1, EndsStay
<1> QED BY <1>1, <1>2, <1>3 DEF ContextInv

\* What an approval enriches is the plan, or what the analysis made of it.
LEMMA SavedIs ==
    ASSUME ContextConstants, ContextInv, analysis # Nothing
    PROVE  /\ PlanOk(frozen)
           /\ \E t \in Thread : /\ Ends(run[t]) /\ run[t].result = Enriched(frozen, run[t].got)
                                /\ Gotten(run[t].got) /\ Keys(SavedPlanning(analysis)) = Keys(frozen)
                                /\ SavedPlanning(analysis) \in {frozen, Laid(frozen, run[t].got)}
<1>1. PICK t \in Thread : Ends(run[t]) /\ RunOk(run[t])
  BY DEF ContextInv
<1>2. /\ run[t].result = Enriched(frozen, run[t].got) /\ Gotten(run[t].got)
      /\ run[t].at = "done" /\ run[t].kind = "analyse"
  BY <1>1 DEF Ends, RunOk
<1>3. PlanOk(frozen) /\ frozen # Nothing
  BY DEF ContextConstants, ContextInv
<1>4. CASE analysis.contextInput # Nothing
  BY <1>1, <1>2, <1>3, <1>4 DEF SavedPlanning, Ends
<1>5. CASE analysis.contextInput = Nothing
  <2>1. PICK g : g = run[t].got
    OBVIOUS
  <2>2. run[t].result.tasks = EnrichedTasks(frozen, g) /\ run[t].result.transfers = EnrichedTransfers(frozen, g)
    BY <1>2, <2>1 DEF Enriched
  <2>3. analysis.planning.tasks = EnrichedTasks(frozen, g) /\ analysis.planning.transfers = EnrichedTransfers(frozen, g)
    BY <1>1, <2>2 DEF Ends
  <2>4. SavedPlanning(analysis) = Laid(frozen, g)
    BY <1>5, <2>3 DEF SavedPlanning, Laid
  <2>5. Keys(Laid(frozen, g)) = Keys(frozen)
    BY <1>2, <1>3, <2>1, LaidIs
  <2> QED BY <1>1, <1>2, <1>3, <2>1, <2>4, <2>5
<1> QED BY <1>4, <1>5

\* An enrichment begins.
LEMMA EnrichStep ==
    ASSUME ContextConstants, ContextInv, NEW t \in Thread, Analyse(t) \/ Approve(t)
    PROVE  ContextInv'
<1>1. PICK kind, input :
        /\ kind \in {"analyse", "approve"} /\ (kind = "analyse" => input = frozen)
        /\ kind = "approve" => analysis # Nothing /\ input = SavedPlanning(analysis)
        /\ Enrich(t, kind, input)
  BY DEF Analyse, Approve
<1>2. Keys(input) = Keys(frozen)
  BY <1>1, SavedIs
<1>3. PICK r : r = [Idle EXCEPT !.at = "look", !.kind = kind, !.since = clock, !.left = Keys(input), !.input = input]
  OBVIOUS
<1>4. /\ run[t].at = "idle" /\ run' = [run EXCEPT ![t] = r]
      /\ frozen' = frozen /\ clock' = clock /\ cache' = cache /\ analysis' = analysis
  BY <1>1, <1>3 DEF Enrich
<1>5. /\ DOMAIN r = DOMAIN Idle /\ r.at = "look" /\ r.kind = kind /\ r.since = clock /\ r.left = Keys(frozen)
      /\ r.input = input /\ r.got = [k \in {} |-> Nothing]
  BY <1>2, <1>3 DEF Idle
<1>6. Gotten(r.got) /\ Recent(r) /\ DOMAIN r.got = {}
  BY <1>5 DEF Gotten, Recent
<1>7. SavedPlanning(analysis)' = SavedPlanning(analysis)
  BY <1>4 DEF SavedPlanning
<1>8. RunOk(r)'
  BY <1>1, <1>4, <1>5, <1>6, <1>7 DEF RunOk, ContextInv
<1> QED BY <1>4, <1>8, OneRun DEF ContextInv

\* An answer, a value of the cache or a failure: the key is done with.
LEMMA HaveStep ==
    ASSUME ContextConstants, ContextInv, NEW t \in Thread, run[t].at \in {"look", "ask"},
           NEW k \in run[t].left, NEW value \in ValuesOf(k) \cup {Nothing}, NEW stale \in BOOLEAN,
           NEW error, NEW at, value # Nothing /\ ~stale => run[t].since < at + Ttl[k[1]],
           Have(t, k, value, stale, error, at),
           frozen' = frozen, clock' = clock, analysis' = analysis, DOMAIN cache' = Process,
           \A p \in Process : \A x \in DOMAIN cache'[p] : Cached(x, cache'[p][x])
    PROVE  ContextInv'
<1>1. PICK a : a = [value |-> value, stale |-> stale, error |-> error, at |-> at]
  OBVIOUS
<1>2. PICK got : got = With(run[t].got, k, a)
  OBVIOUS
<1>3. PICK r : r = [run[t] EXCEPT !.at = "look", !.left = @ \ {k}, !.key = Nothing, !.attempt = 0, !.got = got]
  OBVIOUS
<1>4. RunOk(run[t]) /\ DOMAIN run = Thread
  BY DEF ContextInv
<1>5. run' = [run EXCEPT ![t] = r]
  BY <1>1, <1>2, <1>3, <1>4 DEF Have
<1>6. /\ DOMAIN r = DOMAIN Idle /\ r.at = "look" /\ r.left = run[t].left \ {k} /\ r.got = got
      /\ r.kind = run[t].kind /\ r.since = run[t].since /\ r.input = run[t].input
  BY <1>3, <1>4 DEF RunOk, Idle
<1>7. /\ DOMAIN got = DOMAIN run[t].got \cup {k} /\ got[k] = a
      /\ \A x \in DOMAIN run[t].got : x # k => got[x] = run[t].got[x]
  BY <1>2 DEF With
<1>8. Gotten(got) /\ Recent(r)
  BY <1>1, <1>4, <1>6, <1>7 DEF RunOk, Gotten, Recent
<1>9. DOMAIN got \cup r.left = Keys(frozen)
  BY <1>4, <1>6, <1>7 DEF RunOk
<1>10. SavedPlanning(analysis)' = SavedPlanning(analysis)
  BY DEF SavedPlanning
<1>11. RunOk(r)'
  BY <1>4, <1>6, <1>8, <1>9, <1>10 DEF RunOk, ContextInv
<1> QED BY <1>5, <1>11, OneRun DEF ContextInv

\* What a cache has is a value of the key, as old as it says.
LEMMA CachedIs ==
    ASSUME ContextConstants, ContextInv, NEW t \in Thread, NEW k, Kept(t, k)
    PROVE  Home[t] \in Process /\ Cached(k, MyCache(t)[k])
BY DEF ContextConstants, ContextInv, Kept, MyCache

\* A last known value, or the error, is an answer that claims nothing.
LEMMA FallBackStep ==
    ASSUME ContextConstants, ContextInv, NEW t \in Thread, run[t].at \in {"look", "ask"},
           NEW k \in run[t].left, NEW error, FallBack(t, k, error),
           frozen' = frozen, clock' = clock, analysis' = analysis, cache' = cache
    PROVE  ContextInv'
<1>1. DOMAIN cache' = Process /\ \A p \in Process : \A x \in DOMAIN cache'[p] : Cached(x, cache'[p][x])
  BY DEF ContextInv
<1>2. PICK value, stale, at :
        /\ Have(t, k, value, stale, error, at) /\ value \in ValuesOf(k) \cup {Nothing}
        /\ stale \in BOOLEAN /\ (value = Nothing \/ stale)
  <2>1. CASE Kept(t, k)
    BY <2>1, CachedIs DEF FallBack, Cached
  <2>2. CASE ~Kept(t, k)
    BY <2>2 DEF FallBack
  <2> QED BY <2>1, <2>2
<1> QED BY <1>1, <1>2, HaveStep

\* A thread looks for the next answer.
LEMMA LookStep ==
    ASSUME ContextConstants, ContextInv, NEW t \in Thread, Look(t)
    PROVE  ContextInv'
<1>1. PICK k \in run[t].left :
        \/ Hit(t, k) /\ Have(t, k, MyCache(t)[k].value, FALSE, Nothing, MyCache(t)[k].at)
        \/ run' = [run EXCEPT ![t] = [run[t] EXCEPT !.at = "ask", !.key = k, !.attempt = 1]]
        \/ FallBack(t, k, "not_configured")
  <2>1. DOMAIN run = Thread
    BY DEF ContextInv
  <2> QED BY <2>1 DEF Look
<1>2. /\ run[t].at = "look" /\ frozen' = frozen /\ clock' = clock /\ cache' = cache /\ analysis' = analysis
      /\ DOMAIN cache' = Process /\ \A p \in Process : \A x \in DOMAIN cache'[p] : Cached(x, cache'[p][x])
  BY DEF Look, ContextInv
<1>3. CASE Hit(t, k) /\ Have(t, k, MyCache(t)[k].value, FALSE, Nothing, MyCache(t)[k].at)
  <2>1. PICK entry : entry = MyCache(t)[k]
    OBVIOUS
  <2>2. Cached(k, entry) /\ run[t].since < entry.expires /\ run[t].since \in Nat
    <3>1. Cached(k, entry) /\ run[t].since \in Nat
      BY <1>3, <2>1, CachedIs DEF Hit, ContextInv, RunOk
    <3>2. entry.expires \in Nat
      BY <3>1 DEF Cached, ContextConstants
    <3> QED BY <1>3, <2>1, <3>1, <3>2 DEF Hit, Expired
  <2>3. run[t].since < entry.at + Ttl[k[1]]
    BY <2>2 DEF Cached, ContextConstants
  <2>4. entry.value \in ValuesOf(k)
    BY <2>2 DEF Cached
  <2> QED BY <1>2, <1>3, <2>1, <2>3, <2>4, HaveStep
<1>4. CASE run' = [run EXCEPT ![t] = [run[t] EXCEPT !.at = "ask", !.key = k, !.attempt = 1]]
  <2>1. PICK r : r = [run[t] EXCEPT !.at = "ask", !.key = k, !.attempt = 1]
    OBVIOUS
  <2>2. RunOk(run[t])
    BY DEF ContextInv
  <2>3. /\ DOMAIN r = DOMAIN Idle /\ r.at = "ask" /\ r.key = k /\ r.left = run[t].left /\ r.got = run[t].got
        /\ r.kind = run[t].kind /\ r.since = run[t].since /\ r.input = run[t].input
    BY <2>1, <2>2 DEF RunOk, Idle
  <2>4. SavedPlanning(analysis)' = SavedPlanning(analysis)
    BY <1>2 DEF SavedPlanning
  <2>5. RunOk(r)'
    BY <1>2, <2>2, <2>3, <2>4 DEF RunOk, Recent
  <2> QED BY <1>2, <1>4, <2>1, <2>5, OneRun
<1>5. CASE FallBack(t, k, "not_configured")
  BY <1>2, <1>5, FallBackStep
<1> QED BY <1>1, <1>3, <1>4, <1>5

\* A provider is asked again, or fails.
LEMMA RetryStep ==
    ASSUME ContextConstants, ContextInv, NEW t \in Thread, Retry(t) \/ Fail(t)
    PROVE  ContextInv'
<1>1. /\ run[t].at = "ask" /\ frozen' = frozen /\ clock' = clock /\ cache' = cache /\ analysis' = analysis
      /\ DOMAIN cache' = Process /\ \A p \in Process : \A x \in DOMAIN cache'[p] : Cached(x, cache'[p][x])
      /\ RunOk(run[t]) /\ DOMAIN run = Thread
  BY DEF Retry, Fail, ContextInv
<1>2. CASE Retry(t)
  <2>1. PICK r : r = [run[t] EXCEPT !.attempt = @ + 1]
    OBVIOUS
  <2>2. /\ DOMAIN r = DOMAIN Idle /\ r.at = "ask" /\ r.key = run[t].key /\ r.left = run[t].left
        /\ r.got = run[t].got /\ r.kind = run[t].kind /\ r.since = run[t].since /\ r.input = run[t].input
    BY <1>1, <2>1 DEF RunOk, Idle
  <2>3. SavedPlanning(analysis)' = SavedPlanning(analysis)
    BY <1>1 DEF SavedPlanning
  <2>4. RunOk(r)'
    BY <1>1, <2>2, <2>3 DEF RunOk, Recent
  <2>5. run' = [run EXCEPT ![t] = r]
    BY <1>1, <1>2, <2>1 DEF Retry
  <2> QED BY <1>1, <2>4, <2>5, OneRun
<1>3. CASE Fail(t)
  <2>1. run[t].key \in run[t].left
    BY <1>1 DEF RunOk
  <2> QED BY <1>1, <1>3, <2>1, FallBackStep DEF Fail
<1> QED BY <1>2, <1>3

\* What is asked for is weather or routing.
LEMMA KeyKind == ASSUME NEW q, NEW k \in Keys(q) PROVE k[1] \in {"weather", "routing"}
BY DEF Keys, RoutingKey

\* A provider answers: its answer is used and kept.
LEMMA AnswerStep ==
    ASSUME ContextConstants, ContextInv, NEW t \in Thread, Answer(t)
    PROVE  ContextInv'
<1>1. /\ run[t].at = "ask" /\ frozen' = frozen /\ clock' = clock /\ analysis' = analysis
      /\ RunOk(run[t]) /\ DOMAIN run = Thread /\ clock \in Nat
  BY DEF Answer, ContextInv
<1>2. PICK k : k = run[t].key
  OBVIOUS
<1>3. k \in run[t].left /\ k[1] \in {"weather", "routing"} /\ run[t].since \in Nat /\ run[t].since <= clock
  <2>1. k \in run[t].left /\ k \in Keys(frozen)
    BY <1>1, <1>2 DEF RunOk
  <2> QED BY <1>1, <2>1, KeyKind DEF RunOk
<1>4. PICK value \in ValuesOf(k) :
        \/ FallBack(t, k, "error") /\ cache' = cache
        \/ Have(t, k, value, FALSE, Nothing, clock) /\ Store(t, value)
  BY <1>2 DEF Answer, ValuesOf
<1>5. CASE FallBack(t, k, "error") /\ cache' = cache
  BY <1>1, <1>3, <1>5, FallBackStep
<1>6. CASE Have(t, k, value, FALSE, Nothing, clock) /\ Store(t, value)
  <2>1. PICK entry, c, h : entry = CacheEntry(t, value) /\ h = Home[t] /\ c = With(cache[h], k, entry)
    OBVIOUS
  <2>2. Cached(k, entry)
    BY <1>2, <1>1, <1>3, <2>1 DEF CacheEntry, Cached
  <2>3. h \in Process /\ DOMAIN cache = Process /\ \A p \in Process : \A x \in DOMAIN cache[p] : Cached(x, cache[p][x])
    BY <2>1 DEF ContextConstants, ContextInv
  <2>4. cache' = [cache EXCEPT ![h] = c]
    BY <1>2, <1>6, <2>1 DEF Store
  <2>5. \A x \in DOMAIN c : Cached(x, c[x])
    BY <2>1, <2>2, <2>3 DEF With
  <2>6. \A p \in Process : \A x \in DOMAIN cache'[p] : Cached(x, cache'[p][x])
    BY <2>3, <2>4, <2>5
  <2>7. run[t].since < clock + Ttl[k[1]]
    BY <1>1, <1>3 DEF ContextConstants
  <2>8. DOMAIN cache' = Process
    BY <2>3, <2>4
  <2> QED BY <1>1, <1>3, <1>6, <2>6, <2>7, <2>8, HaveStep
<1> QED BY <1>4, <1>5, <1>6

\* An enrichment ends, and the first analysis to end is saved.
LEMMA FinishStep ==
    ASSUME ContextConstants, ContextInv, NEW t \in Thread, Finish(t)
    PROVE  ContextInv'
<1>1. PICK e : e = Enriched(run[t].input, run[t].got)
  OBVIOUS
<1>2. PICK fresh : fresh = (run[t].kind = "approve" /\ IsFresh(e, analysis))
  OBVIOUS
<1>3. PICK r : r = [run[t] EXCEPT !.at = "done", !.result = e, !.fresh = fresh]
  OBVIOUS
<1>4. /\ run[t].at = "look" /\ run[t].left = {} /\ frozen' = frozen /\ clock' = clock /\ cache' = cache
      /\ RunOk(run[t]) /\ DOMAIN run = Thread /\ clock \in Nat
      /\ DOMAIN cache' = Process /\ \A p \in Process : \A x \in DOMAIN cache'[p] : Cached(x, cache'[p][x])
  BY DEF Finish, ContextInv
<1>5. run' = [run EXCEPT ![t] = r]
  BY <1>1, <1>2, <1>3, <1>4 DEF Finish
<1>6. /\ DOMAIN r = DOMAIN Idle /\ r.at = "done" /\ r.left = {} /\ r.got = run[t].got
      /\ r.kind = run[t].kind /\ r.since = run[t].since /\ r.input = run[t].input
      /\ r.result = e /\ r.fresh = fresh
  BY <1>3, <1>4 DEF RunOk, Idle
<1>7. run'[t] = r /\ DOMAIN run' = Thread /\ \A u \in Thread : u # t => run'[u] = run[u]
  BY <1>4, <1>5
<1>8. CASE run[t].kind = "analyse" /\ analysis = Nothing
  <2>1. PICK old \in BOOLEAN :
          analysis' = [revision |-> Revision(e), status |-> e.status,
                       planning |-> [tasks |-> e.tasks, transfers |-> e.transfers],
                       contextInput |-> IF old THEN Nothing ELSE run[t].input]
    BY <1>1, <1>8 DEF Finish
  <2>2. run[t].input = frozen
    BY <1>4, <1>8 DEF RunOk
  <2>3. Ends(run[t])'
    BY <1>4, <1>6, <1>7, <1>8, <2>1, <2>2 DEF Ends
  <2>4. RunOk(run[t])'
    BY <1>1, <1>2, <1>4, <1>6, <1>7, <1>8 DEF RunOk, Recent
  <2>5. ASSUME NEW u \in Thread, u # t PROVE RunOk(run[u])'
    BY <1>4, <1>7, <1>8, <2>5, OthersStay
  <2> QED BY <1>4, <1>7, <2>3, <2>4, <2>5 DEF ContextInv
<1>9. CASE ~(run[t].kind = "analyse" /\ analysis = Nothing)
  <2>1. analysis' = analysis
    BY <1>9 DEF Finish
  <2>2. SavedPlanning(analysis)' = SavedPlanning(analysis)
    BY <1>4, <2>1 DEF SavedPlanning
  <2>3. RunOk(r)'
    BY <1>1, <1>2, <1>4, <1>6, <2>1, <2>2 DEF RunOk, Recent
  <2> QED BY <1>4, <1>5, <2>1, <2>3, OneRun
<1> QED BY <1>8, <1>9

\* Time passes.
LEMMA TickStep == ASSUME ContextInv, Tick PROVE ContextInv'
<1>1. /\ frozen' = frozen /\ clock \in Nat /\ clock' = clock + 1 /\ cache' = cache /\ run' = run
      /\ analysis' = analysis
  BY DEF Tick, ContextInv
<1>2. \A u \in Thread : RunOk(run[u])'
  BY <1>1, OthersStay
<1>3. analysis' # Nothing => \E u \in Thread : Ends(run[u])'
  BY <1>1 DEF ContextInv, Ends
<1> QED BY <1>1, <1>2, <1>3 DEF ContextInv

\* It is kept by every step.
LEMMA NextContextInv ==
    ASSUME ContextConstants, ContextInv, [ContextNext]_contextVars PROVE ContextInv'
<1>1. CASE Tick
  BY <1>1, TickStep
<1>2. ASSUME NEW t \in Thread,
             Analyse(t) \/ Approve(t) \/ Look(t) \/ Retry(t) \/ Fail(t) \/ Answer(t) \/ Finish(t)
      PROVE  ContextInv'
  BY <1>2, EnrichStep, LookStep, RetryStep, AnswerStep, FinishStep
<1>3. CASE UNCHANGED contextVars
  <2>1. /\ frozen' = frozen /\ clock' = clock /\ cache' = cache /\ run' = run /\ analysis' = analysis
        /\ clock \in Nat
    BY <1>3 DEF contextVars, ContextInv
  <2>2. \A u \in Thread : RunOk(run[u])'
    BY <2>1, OthersStay
  <2>3. analysis' # Nothing => \E u \in Thread : Ends(run[u])'
    BY <2>1 DEF ContextInv, Ends
  <2> QED BY <2>1, <2>2, <2>3 DEF ContextInv
<1> QED BY <1>1, <1>2, <1>3 DEF ContextNext

\* So it holds always.
LEMMA ContextInvHolds == ASSUME ContextConstants PROVE ContextSpec => []ContextInv
BY InitContextInv, NextContextInv, PTL DEF ContextSpec

\* The parts of what is enriched.
LEMMA EnrichedIs ==
    ASSUME NEW q, NEW got, NEW e, e = Enriched(q, got)
    PROVE  /\ e.tasks = EnrichedTasks(q, got) /\ e.transfers = EnrichedTransfers(q, got)
           /\ e.status = Status(q, got) /\ e.answers = Answered(got)
BY DEF Enriched, Answered

\* An enrichment that is done had a plan, an answer for each key, and what they make.
LEMMA DoneIs ==
    ASSUME ContextConstants, ContextInv, NEW t \in Thread, IsDone(t)
    PROVE  /\ PlanOk(run[t].input) /\ Gotten(run[t].got) /\ DOMAIN run[t].got = Keys(run[t].input)
           /\ run[t].result = Enriched(run[t].input, run[t].got)
           /\ run[t].kind \in {"analyse", "approve"}
           /\ run[t].fresh = (run[t].kind = "approve" /\ IsFresh(run[t].result, analysis))
<1>1. PICK r : r = run[t]
  OBVIOUS
<1>2. RunOk(r) /\ r.at = "done"
  BY <1>1 DEF ContextInv, IsDone
<1>3. /\ Gotten(r.got) /\ DOMAIN r.got = Keys(frozen) /\ r.result = Enriched(r.input, r.got)
      /\ r.kind \in {"analyse", "approve"} /\ (r.kind = "analyse" => r.input = frozen)
      /\ r.kind = "approve" => analysis # Nothing /\ r.input = SavedPlanning(analysis)
      /\ r.fresh = (r.kind = "approve" /\ IsFresh(r.result, analysis))
  BY <1>2 DEF RunOk
<1>4. PlanOk(frozen)
  BY DEF ContextConstants, ContextInv
<1>5. PlanOk(r.input) /\ Keys(r.input) = Keys(frozen)
  <2>1. CASE r.kind = "analyse"
    BY <1>3, <1>4, <2>1
  <2>2. CASE r.kind = "approve"
    BY <1>3, <1>4, <2>2, SavedIs, LaidIs
  <2> QED BY <1>3, <2>1, <2>2
<1> QED BY <1>1, <1>3, <1>5

\* An approval that is done compared with what the analysis is.
LEMMA ApprovalIsSame ==
    ASSUME ContextConstants, ContextInv, NEW t \in Thread, IsDone(t), run[t].kind = "approve"
    PROVE  /\ run[t].fresh => /\ run[t].result.tasks = analysis.planning.tasks
                              /\ run[t].result.transfers = analysis.planning.transfers
                              /\ \/ run[t].result.status.projects = analysis.status.projects
                                 \/ run[t].result.status.weather \in {"partial", "stale"}
           /\ run[t].fresh = IsFresh(Enriched(frozen, run[t].got), analysis)
<1>1. PICK p, h, e : p = run[t].input /\ h = run[t].got /\ e = run[t].result
  OBVIOUS
<1>2. Gotten(h) /\ e = Enriched(p, h) /\ run[t].fresh = IsFresh(e, analysis)
  BY <1>1, DoneIs DEF IsFresh
<1>3. analysis # Nothing /\ p = SavedPlanning(analysis)
  BY <1>1 DEF ContextInv, RunOk, IsDone
<1>4. PICK u \in Thread : /\ Ends(run[u]) /\ run[u].result = Enriched(frozen, run[u].got) /\ Gotten(run[u].got)
                          /\ p \in {frozen, Laid(frozen, run[u].got)}
  BY <1>3, SavedIs
<1>5. PICK g, d : g = run[u].got /\ d = Enriched(frozen, g)
  OBVIOUS
<1>6. PlanOk(frozen) /\ Gotten(g) /\ p \in {frozen, Laid(frozen, g)}
  BY <1>4, <1>5 DEF ContextConstants, ContextInv
<1>7. /\ analysis.revision = Revision(d) /\ analysis.status = d.status
      /\ analysis.planning.tasks = d.tasks /\ analysis.planning.transfers = d.transfers
  BY <1>4, <1>5 DEF Ends
<1>8. run[t].fresh => /\ e.tasks = d.tasks /\ e.transfers = d.transfers
                      /\ \/ e.status.projects = analysis.status.projects
                         \/ e.status.weather \in {"partial", "stale"}
  <2>1. ASSUME IsFresh(e, analysis) PROVE /\ e.tasks = d.tasks /\ e.transfers = d.transfers
                                          /\ \/ e.status.projects = analysis.status.projects
                                             \/ e.status.weather \in {"partial", "stale"}
    BY <1>2, <1>5, <1>6, <1>7, <2>1, FreshIsSame
  <2> QED BY <1>2, <2>1
<1>9. IsFresh(e, analysis) = IsFresh(Enriched(frozen, h), analysis)
  <2>1. IsFresh(Enriched(Laid(frozen, g), h), analysis) <=> IsFresh(Enriched(frozen, h), analysis)
    BY <1>2, <1>5, <1>6, <1>7, SameVerdict
  <2>2. e = Enriched(frozen, h) \/ e = Enriched(Laid(frozen, g), h)
    BY <1>2, <1>6
  <2>3. IsFresh(e, analysis) \in BOOLEAN /\ IsFresh(Enriched(frozen, h), analysis) \in BOOLEAN
    BY DEF IsFresh
  <2> QED BY <2>1, <2>2, <2>3
<1> QED BY <1>1, <1>2, <1>7, <1>8, <1>9

\* What holds in every state is what ContextIsHonest promises.
LEMMA InvIsHonest == ASSUME ContextConstants, ContextInv PROVE ContextIsHonest
<1>1. RecentUnlessStale
  BY DEF RecentUnlessStale, ContextInv, RunOk, Recent
<1>2. NothingFavourable
  <2>1. ASSUME NEW t \in Thread, IsDone(t), NEW q, q = run[t].input, NEW e, e = run[t].result,
               NEW i \in DOMAIN q.tasks, IsRuled(q.tasks[i])
        PROVE  SlotsAreSound(q.tasks[i], e.tasks[i].own.slots, ForecastOf(run[t].got, q.tasks[i].project))
    <3>1. PlanOk(q) /\ Gotten(run[t].got) /\ e.tasks = EnrichedTasks(q, run[t].got)
      BY <2>1, DoneIs, EnrichedIs
    <3> QED BY <2>1, <3>1, TasksAreSound
  <2>2. ASSUME NEW t \in Thread, IsDone(t), NEW q, q = run[t].input, NEW e, e = run[t].result,
               NEW i \in DOMAIN q.transfers
        PROVE  \/ e.transfers[i].out = q.transfers[i].out
               \/ e.transfers[i].out \in Nat /\ RoutingKey(q) \in DOMAIN e.answers
    <3>1. PlanOk(q) /\ e.transfers = EnrichedTransfers(q, run[t].got) /\ e.answers = Answered(run[t].got)
      BY <2>2, DoneIs, EnrichedIs
    <3> QED BY <2>2, <3>1, TransfersAreSound
  <2> QED BY <2>1, <2>2 DEF NothingFavourable
<1>3. DegradedIsShown
  <2>1. ASSUME NEW t \in Thread, IsDone(t), run[t].result.status.overall = "available",
               NEW q, q = run[t].input, NEW got, got = run[t].got
        PROVE  /\ Gotten(got) /\ DOMAIN got = Keys(q) /\ Status(q, got).overall = "available"
    BY <2>1, DoneIs, EnrichedIs
  <2> QED BY <2>1, AvailableIsWhole DEF DegradedIsShown
<1>4. ApprovedIsSame
  BY ApprovalIsSame DEF ApprovedIsSame
<1> QED BY <1>1, <1>2, <1>3, <1>4 DEF ContextIsHonest

\* What an enrichment uses is recent or marked as stale, gives the plan no more than the
\* providers and the plan say, shows what is missing, and is compared at approval by what
\* the analysis used (enrich_context, context_freshness.py).
THEOREM ContextIsAlwaysHonest == ASSUME ContextConstants PROVE ContextSpec => []ContextIsHonest
BY ContextInvHolds, InvIsHonest, PTL
=============================================================================
