------------------------------- MODULE Records -------------------------------
(***************************************************************************)
(* What the database keeps (persistence/store.py), side by side: a lease,    *)
(* the commit of imports, the knowledge, the signals of a worklog, the       *)
(* decisions.  A step is a step of one of them, and no module writes the     *)
(* variables of another; what two of them write, the planning row, is a      *)
(* module of its own (PlanningOverlay) that both use.  Here is what they     *)
(* promise together.                                                         *)
(***************************************************************************)
EXTENDS Lease, ImportCommit, Knowledge, Signals, Decisions

\* All of them from the start.
RecordsSpec == Spec /\ ImportSpec /\ KnowledgeSpec /\ SignalsSpec /\ DecisionsSpec

\* Everything that is saved, and every copy of it in memory, has its type.
RecordsTypeOK == TypeOK /\ ImportTypeOK /\ KnowledgeTypeOK /\ SignalsTypeOK /\ DecisionsTypeOK

\* What was reviewed, superseded or deleted stays so: claims, signals and published notes
\* (review_claim, save_signal, delete_knowledge).  Only a request that had read the record
\* before brings it back.
SettledStays == /\ [][RevivedByReader]_knowledgeVars
                /\ [][SettledChanges /\ DeletionChanges]_signalVars
=============================================================================
