-------------------------- MODULE PlanningOverlay --------------------------
(***************************************************************************)
(* The planning overlay of one organization: one row with a version, which   *)
(* requests read, change and save.  Store.save_planning compares the version *)
(* it was given with the row's after a plain SELECT and writes the row in    *)
(* the same transaction, so the comparison and the write are two steps.      *)
(* A fact is one entry of the overlay: what an import, a claim or a manager  *)
(* put there.                                                                *)
(***************************************************************************)
EXTENDS Naturals

CONSTANTS Writer, Fact

VARIABLES overlay,   \* [version, facts], and whether no two saves overlapped so far (clean)
          draft      \* draft[w]: what writer w read, and how far its save is

NoDraft == [at |-> "none", expects |-> FALSE, read |-> 0, facts |-> {}, checked |-> 0]

OverlayInit ==
    /\ overlay = [version |-> 0, facts |-> {}, clean |-> TRUE]
    /\ draft = [w \in Writer |-> NoDraft]

OverlayTypeOK ==
    /\ overlay \in [version : Nat, facts : SUBSET Fact, clean : BOOLEAN]
    /\ draft \in [Writer -> [at : {"none", "read", "checked"}, expects : BOOLEAN, read : Nat,
                             facts : SUBSET Fact, checked : Nat]]

\* get_planning; expects says whether the save will name the version it read, which a
\* manager's form may leave out.
ReadPlan(w, expects) ==
    /\ draft[w].at = "none"
    /\ draft' = [draft EXCEPT ![w] = [NoDraft EXCEPT !.at = "read", !.facts = overlay.facts,
                                             !.read = overlay.version, !.expects = expects]]
    /\ UNCHANGED overlay

\* Mutation of Accepts: the saved version is not compared.
AcceptsAny(d) == TRUE

Accepts(d) == d.expects => d.read = overlay.version

\* save_planning up to its comparison, with what the writer adds to what it read.
CheckPlan(w, added) ==
    /\ draft[w].at = "read"
    /\ Accepts(draft[w])
    /\ draft' = [draft EXCEPT ![w].at = "checked", ![w].facts = @ \cup added,
                              ![w].checked = overlay.version]
    /\ UNCHANGED overlay

ConflictPlan(w) ==
    /\ draft[w].at = "read"
    /\ ~Accepts(draft[w])
    /\ draft' = [draft EXCEPT ![w] = NoDraft]
    /\ UNCHANGED overlay

WritePlan(w) ==
    /\ draft[w].at = "checked"
    /\ overlay' = [version |-> draft[w].checked + 1, facts |-> draft[w].facts,
                   clean |-> overlay.clean /\ draft[w].checked = overlay.version]
    /\ draft' = [draft EXCEPT ![w] = NoDraft]

DropPlan(w) ==
    /\ draft' = [draft EXCEPT ![w] = NoDraft]
    /\ UNCHANGED overlay

-----------------------------------------------------------------------------
\* As long as no two saves overlapped, only a save that names no version can remove
\* what it has not read.  After an overlap two contents have had one version, and the
\* comparison says nothing any more.
LossIsOverlap ==
    \/ overlay.facts \subseteq overlay'.facts
    \/ ~overlay'.clean
    \/ \E w \in Writer : draft[w].at = "checked" /\ draft'[w].at = "none" /\ ~draft[w].expects
=============================================================================
