------------------------------ MODULE Decisions ------------------------------
(***************************************************************************)
(* Decisions, what managers observe after them, checkpoints and the          *)
(* calibration of setup hours (api/routes.py, api/v4_routes.py, decisions/). *)
(*                                                                         *)
(* Requests run one transaction per step.  Three tables stop a second row:   *)
(* decisions by (organization, idempotency key), calibrations by             *)
(* (organization, mode, version), outcomes by their id.  The observation     *)
(* route calibrates without a lease, the outcome route under the lease       *)
(* "calibration".                                                            *)
(*                                                                         *)
(* A mean is a fraction <<numerator, denominator>>.  One source mode, one    *)
(* prior; a strategy is part of its analysis; permissions, clocks and the    *)
(* replay of a decision, which saves nothing, are left out.                  *)
(***************************************************************************)
EXTENDS Naturals, Sequences, FiniteSets, Holders

CONSTANTS Caller, NoValue, IdempotencyKey, Analysis,
          Hours,                        \* what a setup may take
          AssumedHours, ActionHours, PriorStrength,
          MaxObservations, MaxEvaluations, MaxSourceRevision

VARIABLES revision,       \* of the sources of an analysis
          decisions,      \* rows [key, analysis]
          observations,   \* rows [hours, outcome]; outcome: of which confirmed transfer
          calibrations,   \* rows, by version: [mean, base, strength, count, of]
          evaluations,    \* rows [state, value, cites]
          q,              \* what each request is doing
          calLease, log      \* log: the answers to decision requests, and lapses

decisionVars == <<revision, decisions, observations, calibrations, evaluations, q, calLease, log>>

CL == INSTANCE LeaseTable WITH Process <- Caller, Name <- {"calibration"},
                               lease <- calLease

DecisionsConstants ==
    /\ Hours \subseteq Nat
    /\ AssumedHours \in Nat /\ ActionHours \in Nat /\ PriorStrength \in Nat

NoCall == [at |-> "idle", key |-> NoValue, analysis |-> NoValue, seen |-> {}, obs |-> 0, outcome |-> 0,
          prior |-> NoValue]

DecisionsInit ==
    /\ revision = 1
    /\ decisions = {} /\ observations = <<>> /\ calibrations = <<>> /\ evaluations = {}
    /\ q = [r \in Caller |-> NoCall]
    /\ CL!TableInit
    /\ log = [answers |-> {}, lapses |-> 0]

DecisionsTypeOK ==
    /\ decisions \subseteq [key : IdempotencyKey, analysis : Analysis]
    /\ observations \in Seq([hours : Hours, outcome : Nat])
    /\ \A n \in DOMAIN calibrations : calibrations[n].count \in Nat
    /\ CL!TableTypeOK

\* A source, the overlay or the calibration moves on.
Move ==
    /\ revision < MaxSourceRevision
    /\ revision' = revision + 1
    /\ UNCHANGED <<decisions, observations, calibrations, evaluations, q, calLease, log>>

-----------------------------------------------------------------------------
Answer(r, d, how) ==
    /\ q' = [q EXCEPT ![r] = NoCall]
    /\ log' = [log EXCEPT !.answers = @ \cup {[asked |-> q[r].analysis, seen |-> q[r].seen,
                                              got |-> d, how |-> how]}]

WithKey(key) == {d \in decisions : d.key = key}

\* create_decision: the decision the key has ...
BeginDecision(r, key, analysis) ==
    /\ q[r].at = "idle"
    /\ q' = [q EXCEPT ![r] = [NoCall EXCEPT !.at = IF WithKey(key) = {} THEN "check" ELSE "found",
                                           !.key = key, !.analysis = analysis, !.seen = WithKey(key)]]
    /\ UNCHANGED <<revision, decisions, observations, calibrations, evaluations, calLease, log>>

SameRequest(d, r) == d.analysis = q[r].analysis

\* ... is returned to the request that made it, and refused to another (409).
ReturnDecision(r) ==
    /\ q[r].at = "found"
    /\ \E d \in q[r].seen : IF SameRequest(d, r) THEN Answer(r, d, "returned")
                            ELSE q' = [q EXCEPT ![r] = NoCall] /\ UNCHANGED log
    /\ UNCHANGED <<revision, decisions, observations, calibrations, evaluations, calLease>>

\* _ensure_analysis_fresh.  An analysis is named by the revision it was made from.
CheckFresh(r) ==
    /\ q[r].at = "check"
    /\ q' = IF q[r].analysis = revision THEN [q EXCEPT ![r].at = "insert"] ELSE [q EXCEPT ![r] = NoCall]
    /\ UNCHANGED <<revision, decisions, observations, calibrations, evaluations, calLease, log>>

\* Mutation of Taken: no unique constraint.
NeverTaken(key) == FALSE

Taken(key) == WithKey(key) # {}

\* The insert, or the row that was inserted in between, compared with nothing.
InsertDecision(r) ==
    LET row == [key |-> q[r].key, analysis |-> q[r].analysis] IN
    /\ q[r].at = "insert"
    /\ IF Taken(q[r].key)
       THEN (\E d \in WithKey(q[r].key) : Answer(r, d, "raced")) /\ UNCHANGED decisions
       ELSE decisions' = decisions \cup {row} /\ Answer(r, row, "made")
    /\ UNCHANGED <<revision, observations, calibrations, evaluations, calLease>>

-----------------------------------------------------------------------------
\* update_setup_hours: the mean of the prior and every sample so far.
Weight(prior) == prior.strength + prior.count
Updated(prior, hours, obs) ==
    [mean |-> <<Weight(prior) * prior.mean[1] + hours * prior.mean[2], prior.mean[2] * (Weight(prior) + 1)>>,
     base |-> prior.base, strength |-> prior.strength, count |-> prior.count + 1, of |-> obs]

\* The latest version, or what is assumed: 1 hour here, the hours of the action there.
Latest(assumed) ==
    IF calibrations = <<>>
    THEN [version |-> 0, mean |-> <<assumed, 1>>, base |-> assumed, strength |-> PriorStrength, count |-> 0]
    ELSE LET row == calibrations[Len(calibrations)]
         IN  [version |-> Len(calibrations), mean |-> row.mean, base |-> row.base,
              strength |-> row.strength, count |-> row.count]

Observe(hours, outcome) ==
    /\ Len(observations) < MaxObservations
    /\ observations' = Append(observations, [hours |-> hours, outcome |-> outcome])

\* record_setup_duration_observation: the observation in a transaction of its own, ...
RecordObservation(r, hours, eligible) ==
    /\ q[r].at = "idle"
    /\ decisions # {}
    /\ Observe(hours, 0)
    /\ q' = IF eligible THEN [q EXCEPT ![r] = [NoCall EXCEPT !.at = "prior", !.obs = Len(observations) + 1]]
            ELSE q
    /\ UNCHANGED <<revision, decisions, calibrations, evaluations, calLease, log>>

ReadPrior(r) ==
    /\ q[r].at = "prior"
    /\ q' = [q EXCEPT ![r].at = "calibrate", ![r].prior = Latest(AssumedHours)]
    /\ UNCHANGED <<revision, decisions, observations, calibrations, evaluations, calLease, log>>

\* Mutation of VersionTaken: a second row with the version stands beside the first.
VersionNeverTaken(version) == FALSE

VersionTaken(version) == version \in DOMAIN calibrations

\* ... its calibration in another, which a taken version makes fail for good.
Calibrate(r) ==
    /\ q[r].at = "calibrate"
    /\ calibrations' = IF VersionTaken(q[r].prior.version + 1) THEN calibrations
                       ELSE Append(calibrations,
                                   Updated(q[r].prior, observations[q[r].obs].hours, q[r].obs))
    /\ q' = [q EXCEPT ![r] = NoCall]
    /\ UNCHANGED <<revision, decisions, observations, evaluations, calLease, log>>

OutcomeOf(transfer) == {i \in DOMAIN observations : observations[i].outcome = transfer}

\* outcome: a measured transfer, under the lease; an outcome that is there is returned.
BeginOutcome(r, transfer) ==
    /\ q[r].at = "idle"
    /\ CL!Acquire(r, "calibration")
    /\ q' = [q EXCEPT ![r] = [NoCall EXCEPT !.at = "look", !.outcome = transfer]]
    /\ UNCHANGED <<revision, decisions, observations, calibrations, evaluations, log>>

LookForOutcome(r) ==
    /\ q[r].at = "look"
    /\ q' = [q EXCEPT ![r].at = IF OutcomeOf(q[r].outcome) # {} THEN "release" ELSE "record",
                      ![r].prior = Latest(ActionHours)]
    /\ UNCHANGED <<revision, decisions, observations, calibrations, evaluations, calLease, log>>

\* record_calibrated_outcome: both rows in one transaction, or neither.
RecordOutcome(r, hours) ==
    /\ q[r].at = "record"
    /\ \/ /\ OutcomeOf(q[r].outcome) # {} \/ VersionTaken(q[r].prior.version + 1)
          /\ UNCHANGED <<observations, calibrations>>
       \/ /\ OutcomeOf(q[r].outcome) = {} /\ ~VersionTaken(q[r].prior.version + 1)
          /\ Observe(hours, q[r].outcome)
          /\ calibrations' = Append(calibrations, Updated(q[r].prior, hours, Len(observations) + 1))
    /\ q' = [q EXCEPT ![r].at = "release"]
    /\ UNCHANGED <<revision, decisions, evaluations, calLease, log>>

EndOutcome(r) ==
    /\ q[r].at = "release"
    /\ CL!Release(r, "calibration")
    /\ q' = [q EXCEPT ![r] = NoCall]
    /\ UNCHANGED <<revision, decisions, observations, calibrations, evaluations, log>>

\* The process dies, or 180 seconds go by.
CallerDies(r) ==
    /\ log.lapses = 0 /\ q[r].at # "idle"
    /\ log' = [log EXCEPT !.lapses = 1]
    /\ q' = [q EXCEPT ![r] = NoCall]
    /\ CL!Abandon(r)
    /\ UNCHANGED <<revision, decisions, observations, calibrations, evaluations>>

CalibrationLeaseLapses ==
    /\ log.lapses = 0
    /\ log' = [log EXCEPT !.lapses = 1]
    /\ CL!Lapse("calibration")
    /\ UNCHANGED <<revision, decisions, observations, calibrations, evaluations, q>>

-----------------------------------------------------------------------------
\* evaluate_checkpoint: no value, no verdict.
CheckpointState(due, value, threshold, atMost) ==
    IF ~due THEN "not_due"
    ELSE IF value = NoValue THEN "needs_data"
    ELSE IF (IF atMost THEN value[1] <= threshold ELSE value[1] >= threshold) THEN "met" ELSE "breached"

\* _normalize_checkpoint_evidence: a cited setup observation gives the value, and a value
\* of the client that differs is refused; any other evidence leaves the client's value.
\* values: none, or one of one element.
EvidenceValue(cites, value) ==
    IF cites = 0 THEN value ELSE <<observations[cites].hours>>

Refused(cites, value) ==
    cites # 0 /\ (cites \notin DOMAIN observations
                  \/ (value # NoValue /\ value # <<observations[cites].hours>>))

CheckCheckpoint(due, value, threshold, atMost, cites) ==
    /\ decisions # {}
    /\ Cardinality(evaluations) < MaxEvaluations
    /\ ~Refused(cites, value)
    /\ evaluations' = evaluations \cup
         {[state |-> CheckpointState(due, EvidenceValue(cites, value), threshold, atMost),
           value |-> EvidenceValue(cites, value), cites |-> cites, threshold |-> threshold,
           atMost |-> atMost]}
    /\ UNCHANGED <<revision, decisions, observations, calibrations, q, calLease, log>>

DecisionStep(r) ==
    \/ \E k \in IdempotencyKey, a \in Analysis : a <= revision /\ BeginDecision(r, k, a)
    \/ ReturnDecision(r) \/ CheckFresh(r) \/ InsertDecision(r)
    \/ \E h \in Hours, eligible \in BOOLEAN : RecordObservation(r, h, eligible)
    \/ ReadPrior(r) \/ Calibrate(r)
    \/ BeginOutcome(r, 1) \/ LookForOutcome(r)
    \/ \E h \in Hours : RecordOutcome(r, h)
    \/ EndOutcome(r) \/ CallerDies(r)

DecisionsNext ==
    \/ Move \/ CalibrationLeaseLapses
    \/ \E due, atMost \in BOOLEAN, value \in {NoValue} \cup {<<h>> : h \in Hours},
          threshold \in Hours, cites \in 0..MaxObservations :
         CheckCheckpoint(due, value, threshold, atMost, cites)
    \/ \E r \in Caller : DecisionStep(r)

DecisionsSpec == DecisionsInit /\ [][DecisionsNext]_decisionVars

-----------------------------------------------------------------------------
\* The answers to one key name one decision, and a request gets a decision of another
\* analysis only if that was made after it had looked for one.
OneDecisionPerKey ==
    /\ \A d, e \in decisions : d.key = e.key => d = e
    /\ \A x \in log.answers : x.got \in decisions /\ (x.got.analysis # x.asked => x.got \notin x.seen)

\* A verdict has a value, and one that cites a setup observation has the observation's.
VerdictsAreFounded ==
    \A e \in evaluations :
      /\ e.state \in {"met", "breached"} => e.value # NoValue
      /\ e.cites # 0 => e.value = <<observations[e.cites].hours>>

\* Both: who decided and what became of it can be read from the rows.
DecisionsAreFounded == OneDecisionPerKey /\ VerdictsAreFounded

\* A transfer has at most one outcome, whatever is retried, dies or loses its lease.
OneOutcome == \A transfer \in {observations[i].outcome : i \in DOMAIN observations} \ {0} :
                Cardinality(OutcomeOf(transfer)) = 1

\* Version n counts n different observations, the last of them its own, ...
VersionsAreCounted ==
    \A n \in DOMAIN calibrations :
      /\ calibrations[n].count = n /\ calibrations[n].base = calibrations[1].base
      /\ \A m \in 1..(n - 1) : calibrations[m].of # calibrations[n].of

\* ... and is the mean of the prior and those, though requests calibrate from versions
\* they read before.
SumTo(n) == LET sum[m \in 0..n] ==
                  IF m = 0 THEN 0 ELSE sum[m - 1] + observations[calibrations[m].of].hours
            IN  sum[n]

CalibrationChain ==
    /\ VersionsAreCounted /\ OneOutcome
    /\ \A n \in DOMAIN calibrations :
         LET row == calibrations[n] IN
         row.mean[1] * (row.strength + n) = row.mean[2] * (row.strength * row.base + SumTo(n))
=============================================================================
