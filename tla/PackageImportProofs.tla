-------------------------- MODULE PackageImportProofs --------------------------
(***************************************************************************)
(* For any number of decks, failures and crashes: the work that abandoned  *)
(* imports leave behind stays within the limit on running imports, a job   *)
(* that ended without its deck leaves no authority and no write behind, a  *)
(* published deck is listed, and an answered reconciliation is final.      *)
(*                                                                         *)
(* IInv is about jobs and heads; RInv adds the outbox, its drains and the  *)
(* rows, and rests on IInv; ImportType are the remaining types.            *)
(***************************************************************************)
EXTENDS PackageImport, PackageRecordsProofs, FiniteSetTheorems

-----------------------------------------------------------------------------
(* The inductive invariant *)

Statuses == {"gone", "running", "cancelling"} \cup Terminal
Runs == {"new", "upload", "abort", "fail", "undo", "settle", "end"} \cup Awaits
Stages == {"none", "prepare", "published", "parse", "drain"}
JobsType ==
    /\ status \in [Deck -> Statuses] /\ pending \in [Deck -> BOOLEAN]
    /\ run \in [Deck -> Runs] /\ stage \in [Deck -> Stages] /\ late \in [Deck -> BOOLEAN]

RecordsType ==
    /\ heads \in [Deck -> Heads \cup {NoHead}]
    /\ owned \in [Deck -> SUBSET Revisions] /\ epoch \in Nat

Counted == {d \in Deck : status[d] \in {"running", "cancelling"} \/ pending[d]}

\* A job that has begun and not settled has its operation pending, and one that has
\* not begun has no work; what a stage promises is awaited, late or cleaned up.
JobInv(d) ==
    /\ run[d] \notin {"new", "upload", "end"} => pending[d]
    /\ Working(d) => pending[d]
    /\ run[d] \in {"new", "upload", "end"} => ~pending[d]
    /\ run[d] = "upload" => status[d] = "running"
    /\ run[d] = "new" => status[d] = "gone"
    /\ status[d] = "gone" => run[d] \in {"new", "end"}
    /\ status[d] = "done" => run[d] \in {"settle", "end"}
    /\ run[d] \in {"undo", "fail"} => stage[d] = "none"
    /\ run[d] = "commit" => stage[d] \in {"prepare", "published"}
    /\ status[d] \in {"failed", "cancelled"} => run[d] \in {"settle", "end"}

\* Who is still to take back or to deliver a head that was published.
Answerable(d) ==
    \/ stage[d] \in {"published", "drain"} \/ late[d] \/ run[d] = "undo"
    \/ status[d] = "done" \/ (status[d] = "gone" /\ run[d] = "end")
    \/ d \in swallowed

AuthorityInv(d) ==
    /\ heads[d] = NoHead => owned[d] = {}
    /\ heads[d] # NoHead => Answerable(d)

IInv ==
    /\ JobsType /\ RecordsType
    /\ \A d \in Deck : JobInv(d) /\ AuthorityInv(d)
    /\ runningCount <= MaxRunning

JobsInv == JobsType /\ \A d \in Deck : JobInv(d)

-----------------------------------------------------------------------------
(* The jobs *)

\* The result of a stage that comes late stays with a pending operation.
LEMMA LateResult ==
    ASSUME JobsInv, NEW d \in Deck, Working(d), run[d] # "commit", CleanedUpWhenLate(d)
    PROVE  JobsInv' /\ Counted' = Counted
<1>. DEFINE yes == TRUE
<1>1. yes \in BOOLEAN
  OBVIOUS
<1>2. /\ late' = [late EXCEPT ![d] = yes] /\ stage' = [stage EXCEPT ![d] = "none"]
      /\ UNCHANGED <<status, pending, run>>
  BY DEF CleanedUpWhenLate
<1>. HIDE DEF yes
<1>3. JobsType' /\ Counted' = Counted
  BY <1>1, <1>2 DEF JobsInv, JobsType, Stages, Counted
<1>4. ASSUME NEW e \in Deck PROVE JobInv(e)'
  <2>1. CASE e = d
    BY <1>2, <2>1 DEF JobsInv, JobsType, JobInv, Working
  <2>2. CASE e # d
    BY <1>2, <2>2 DEF JobsInv, JobsType, JobInv, Working
  <2>. QED  BY <2>1, <2>2
<1>. QED  BY <1>3, <1>4 DEF JobsInv

\* No step of the system but an admission makes the limit count a job more.
LEMMA JobSteps ==
    ASSUME JobsInv, NEW d \in Deck
    PROVE  /\ Admit(d) => JobsInv' /\ Counted' = Counted \cup {d}
           /\ UploadFails(d) \/ CancelJob(d) \/ Deadline(d) \/ Expire(d) \/ Start(d)
                \/ ParseEnds(d) \/ ParseFails(d) \/ Publish(d) \/ CommitReturns(d)
                \/ CommitFails(d) \/ DrainStarts(d) \/ DrainReturns(d) \/ DrainRejects(d)
                \/ Abandon(d) \/ Fail(d) \/ Undo(d) \/ LateUndo(d) \/ Settle(d)
              => JobsInv' /\ Counted' \subseteq Counted
<1>. DEFINE CountsNoMore == JobsInv' /\ Counted' \subseteq Counted
<1>. USE DEF JobsInv, JobsType, JobInv, Working, Counted, Statuses, Runs, Stages, Terminal, Awaits
<1>1. Admit(d) => JobsInv' /\ Counted' = Counted \cup {d}
  BY DEF Admit
<1>2. UploadFails(d) => CountsNoMore
  BY DEF UploadFails
<1>3. CancelJob(d) => CountsNoMore
  BY DEF CancelJob
<1>4. Deadline(d) => CountsNoMore
  BY DEF Deadline
<1>5. Expire(d) => CountsNoMore
  BY DEF Expire
<1>6. Start(d) => CountsNoMore
  BY DEF Start
<1>7. ParseEnds(d) => CountsNoMore
  BY DEF ParseEnds
<1>8. ParseFails(d) => CountsNoMore
  BY DEF ParseFails
<1>9. Publish(d) => CountsNoMore
  BY DEF Publish
<1>10. CommitReturns(d) => CountsNoMore
  <2>. SUFFICES ASSUME CommitReturns(d) PROVE CountsNoMore
    OBVIOUS
  <2>1. CASE run[d] = "commit"
    BY <2>1 DEF CommitReturns
  <2>2. CASE run[d] # "commit"
    BY <2>2, LateResult DEF CommitReturns
  <2>. QED  BY <2>1, <2>2
<1>11. CommitFails(d) => CountsNoMore
  BY DEF CommitFails, StageRejects
<1>12. DrainStarts(d) => CountsNoMore
  BY DEF DrainStarts, jobVars
<1>13. DrainReturns(d) => CountsNoMore
  <2>. SUFFICES ASSUME DrainReturns(d) PROVE CountsNoMore
    OBVIOUS
  <2>1. CASE run[d] = "drain"
    BY <2>1 DEF Complete, DrainReturns
  <2>2. CASE run[d] # "drain"
    BY <2>2, LateResult DEF DrainReturns
  <2>. QED  BY <2>1, <2>2
<1>14. DrainRejects(d) => CountsNoMore
  BY DEF DrainRejects, StageRejects
<1>15. Abandon(d) => CountsNoMore
  BY DEF Abandon, Finish
<1>16. Fail(d) => CountsNoMore
  BY DEF Fail, Finish
<1>17. Undo(d) => CountsNoMore
  BY DEF Undo
<1>18. LateUndo(d) => CountsNoMore
  BY DEF LateUndo
<1>19. Settle(d) => CountsNoMore
  BY DEF Settle
<1>. QED  BY <1>1, <1>2, <1>3, <1>4, <1>5, <1>6, <1>7, <1>8, <1>9,
         <1>10, <1>11, <1>12, <1>13, <1>14, <1>15, <1>16, <1>17, <1>18, <1>19

\* A crash ends every job and forgets the ones that had not settled.
LEMMA CrashOfJobs == ASSUME JobsInv, Crash PROVE JobsInv' /\ Counted' \subseteq Counted
BY DEF JobsInv, JobsType, JobInv, Working, Counted, Statuses, Runs, Stages, Terminal, Awaits, Crash

\* Steps that touch no job change nothing of the count.
LEMMA OtherSteps == ASSUME JobsInv, UNCHANGED jobVars PROVE JobsInv' /\ Counted' = Counted
BY DEF JobsInv, JobsType, JobInv, Working, Counted, jobVars

-----------------------------------------------------------------------------
(* The authority of an import *)

AuthorityIsAnswered == RecordsType /\ \A d \in Deck : AuthorityInv(d)
SameAuthority == UNCHANGED <<heads, owned, epoch>>

\* A published deck has a head, which is not NoHead, and its revision.
LEMMA Published ==
    ASSUME RecordsType, NEW d \in Deck, PublishImport(d)
    PROVE  /\ RecordsType' /\ heads'[d] # NoHead
           /\ \A e \in Deck \ {d} : heads'[e] = heads[e] /\ owned'[e] = owned[e]
<1>. DEFINE b == CHOOSE x \in Body : TRUE
            r == [ord |-> 0, body |-> b]
            h == [gen |-> 1, body |-> b, pkg |-> r, original |-> r,
                  edits |-> 0, journal |-> "null", epoch |-> epoch]
<1>1. b \in Body
  BY HeadsOK
<1>2. r \in Revisions
  BY <1>1 DEF Revisions
<1>. DEFINE one == 1
            f == [gen |-> 1, body |-> b, pkg |-> r, original |-> r,
                  edits |-> 0, journal |-> "null", epoch |-> one]
<1>4. FirstHead(b) = f
  BY DEF FirstHead
<1>. HIDE DEF b, r, one
<1>5. [f EXCEPT !.epoch = epoch] = h
  OBVIOUS
<1>6. h \in Heads /\ RevisionsOf(h) = {r}
  BY <1>1, <1>2 DEF Heads, RecordsType, RevisionsOf
<1>7. /\ heads' = [heads EXCEPT ![d] = h] /\ owned' = [owned EXCEPT ![d] = RevisionsOf(h)]
      /\ epoch' = epoch
  BY <1>4, <1>5 DEF PublishImport, SetHead, b
<1>. HIDE DEF h
<1>8. h # NoHead
  BY <1>6, HeadsOK
<1>. QED  BY <1>2, <1>6, <1>7, <1>8 DEF RecordsType

\* A rollback leaves the deck without head and revisions, others alone.
LEMMA RolledBack ==
    ASSUME AuthorityIsAnswered, NEW d \in Deck, RollbackImport(d)
    PROVE  /\ RecordsType' /\ NoAuthority(d)'
           /\ \A e \in Deck \ {d} : heads'[e] = heads[e] /\ owned'[e] = owned[e]
<1>1. CASE heads[d] # NoHead
  <2>1. /\ heads' = [heads EXCEPT ![d] = NoHead] /\ owned' = [owned EXCEPT ![d] = {}]
        /\ epoch' = epoch
    BY <1>1 DEF RollbackImport
  <2>. QED  BY <2>1 DEF AuthorityIsAnswered, RecordsType, NoAuthority
<1>2. CASE heads[d] = NoHead
  <2>1. SameAuthority
    BY <1>2 DEF RollbackImport, records, SameAuthority
  <2>. QED  BY <1>2, <2>1 DEF AuthorityIsAnswered, AuthorityInv, RecordsType, NoAuthority,
                              SameAuthority
<1>. QED  BY <1>1, <1>2

\* A rollback that fails is the only one that leaves the head, and is recorded.
LEMMA TriedRollback ==
    ASSUME AuthorityIsAnswered, NEW d \in Deck, TryRollback(d)
    PROVE  /\ RecordsType' /\ (NoAuthority(d)' \/ (d \in swallowed' /\ SameAuthority))
           /\ \A e \in Deck \ {d} : heads'[e] = heads[e] /\ owned'[e] = owned[e]
           /\ swallowed \subseteq swallowed'
<1>1. CASE RollbackImport(d) /\ UNCHANGED <<faults, swallowed>>
  BY <1>1, RolledBack
<1>2. CASE /\ swallowed' = swallowed \cup {d}
           /\ UNCHANGED <<records, queue, rows, drain, receipt>>
  BY <1>2 DEF records, AuthorityIsAnswered, RecordsType, SameAuthority
<1>. QED  BY <1>1, <1>2 DEF TryRollback

\* The jobs go on and the authority stays: somebody still answers for it.
LEMMA JobsGoOn ==
    ASSUME JobsInv, AuthorityIsAnswered, NEW d \in Deck
    PROVE  (\/ Admit(d) \/ UploadFails(d) \/ CancelJob(d) \/ Deadline(d)
            \/ Expire(d) \/ Start(d) \/ ParseEnds(d) \/ ParseFails(d)
            \/ CommitReturns(d) \/ CommitFails(d) \/ DrainStarts(d) \/ DrainReturns(d)
            \/ DrainRejects(d) \/ Abandon(d) \/ Fail(d) \/ Settle(d))
           => AuthorityIsAnswered'
<1>. DEFINE Kept ==
     SameAuthority /\ \A e \in Deck : heads[e] # NoHead /\ Answerable(e) => Answerable(e)'
<1>. USE DEF JobsInv, JobsType, JobInv, Working, Answerable, SameAuthority, Statuses, Runs, Stages,
         Terminal, Awaits, records, recordVars
<1>1. Admit(d) => Kept
  BY DEF Admit, NoRecords, Elsewhere
<1>2. UploadFails(d) => Kept
  BY DEF UploadFails, NoRecords, Elsewhere
<1>3. CancelJob(d) => Kept
  BY DEF CancelJob, NoRecords, Elsewhere
<1>4. Deadline(d) => Kept
  BY DEF Deadline, NoRecords, Elsewhere
<1>5. Expire(d) => Kept
  BY DEF Expire, NoRecords, Elsewhere
<1>6. Start(d) => Kept
  BY DEF Start, NoRecords, Elsewhere
<1>7. ParseEnds(d) => Kept
  BY DEF ParseEnds, NoRecords, Elsewhere
<1>8. ParseFails(d) => Kept
  BY DEF ParseFails, NoRecords, Elsewhere
<1>9. CommitReturns(d) => Kept
  BY DEF CommitReturns, CleanedUpWhenLate, NoRecords, Elsewhere
<1>10. CommitFails(d) => Kept
  BY DEF CommitFails, StageRejects, NotReconcile
<1>11. DrainStarts(d) => Kept
  BY DEF DrainStarts, jobVars, DrainBegin, Elsewhere
<1>12. DrainReturns(d) => Kept
  BY DEF DrainReturns, Complete, CleanedUpWhenLate, DrainEnd, Elsewhere
<1>13. DrainRejects(d) => Kept
  BY DEF DrainRejects, StageRejects, DrainFails
<1>14. Abandon(d) => Kept
  BY DEF Abandon, Finish, NoRecords, Elsewhere
<1>15. Fail(d) => Kept
  BY DEF Fail, Finish, NoRecords, Elsewhere
<1>16. Settle(d) => Kept
  BY DEF Settle, NoRecords, Elsewhere
<1>17. Kept => AuthorityIsAnswered'
  BY DEF AuthorityIsAnswered, AuthorityInv, RecordsType, SameAuthority
<1>. QED  BY <1>1, <1>2, <1>3, <1>4, <1>5, <1>6, <1>7, <1>8, <1>9,
         <1>10, <1>11, <1>12, <1>13, <1>14, <1>15, <1>16, <1>17

\* The four steps that publish or take back a head.
LEMMA AuthorityMoves ==
    ASSUME JobsInv, AuthorityIsAnswered, NEW d \in Deck
    PROVE  Publish(d) \/ Undo(d) \/ LateUndo(d) \/ ReconcileUndo(d) => AuthorityIsAnswered'
<1>. DEFINE Only ==
       /\ RecordsType' /\ \A e \in Deck \ {d} : heads'[e] = heads[e] /\ owned'[e] = owned[e]
       /\ \A e \in Deck \ {d} : Answerable(e) => Answerable(e)'
       /\ AuthorityInv(d)'
<1>1. Publish(d) => Only
  <2>. SUFFICES ASSUME Publish(d) PROVE Only
    OBVIOUS
  <2>1. /\ RecordsType' /\ heads'[d] # NoHead
        /\ \A e \in Deck \ {d} : heads'[e] = heads[e] /\ owned'[e] = owned[e]
    BY Published DEF AuthorityIsAnswered, Publish
  <2>2. Answerable(d)' /\ \A e \in Deck \ {d} : Answerable(e) => Answerable(e)'
    BY DEF Publish, Elsewhere, Answerable, JobsInv, JobsType
  <2>. QED  BY <2>1, <2>2 DEF AuthorityInv
<1>2. Undo(d) \/ LateUndo(d) => Only
  <2>. SUFFICES ASSUME Undo(d) \/ LateUndo(d) PROVE Only
    OBVIOUS
  <2>1. TryRollback(d)
    BY DEF Undo, LateUndo
  <2>2. /\ RecordsType' /\ (NoAuthority(d)' \/ (d \in swallowed' /\ SameAuthority))
        /\ \A e \in Deck \ {d} : heads'[e] = heads[e] /\ owned'[e] = owned[e]
        /\ swallowed \subseteq swallowed'
    BY <2>1, TriedRollback
  <2>3. \A e \in Deck \ {d} : Answerable(e) => Answerable(e)'
    BY <2>2 DEF Undo, LateUndo, Answerable, JobsInv, JobsType
  <2>4. AuthorityInv(d)'
    BY <2>2 DEF AuthorityInv, Answerable, NoAuthority, AuthorityIsAnswered, SameAuthority
  <2>. QED  BY <2>2, <2>3, <2>4
<1>3. ReconcileUndo(d) => Only
  <2>. SUFFICES ASSUME ReconcileUndo(d) PROVE Only
    OBVIOUS
  <2>1. /\ RecordsType' /\ NoAuthority(d)'
        /\ \A e \in Deck \ {d} : heads'[e] = heads[e] /\ owned'[e] = owned[e]
    BY RolledBack DEF ReconcileUndo
  <2>2. \A e \in Deck \ {d} : Answerable(e) => Answerable(e)'
    BY DEF ReconcileUndo, NotJobs, jobVars, Answerable
  <2>3. AuthorityInv(d)'
    BY <2>1 DEF AuthorityInv, NoAuthority
  <2>. QED  BY <2>1, <2>2, <2>3
<1>4. Only => AuthorityIsAnswered'
  BY DEF AuthorityIsAnswered, AuthorityInv
<1>. QED  BY <1>1, <1>2, <1>3, <1>4

\* Drains, the rest of a reconciliation and a restart touch neither jobs nor authority.
JobsRest == UNCHANGED <<jobVars, swallowed>> /\ SameAuthority

\* ... which the steps named here show, and a step that changes nothing.
LEMMA Bystanders ==
    /\ \A d \in Deck : ReconcileBegin(d) \/ ReconcileDrain(d) \/ ReconcileDelete(d) => JobsRest
    /\ OtherDrain \/ Apply \/ Restart \/ UNCHANGED vars => JobsRest
<1>1. ASSUME NEW d \in Deck
      PROVE  ReconcileBegin(d) \/ ReconcileDrain(d) \/ ReconcileDelete(d) => JobsRest
  BY DEF ReconcileBegin, ReconcileDrain, ReconcileDelete, NoRecords, NotJobs, recordVars, records,
         DrainBegin, DrainEnd, DrainFails, JobsRest, SameAuthority
<1>2. OtherDrain => JobsRest
  BY DEF OtherDrain, records, DrainBegin, DrainEnd, DrainFails, JobsRest, SameAuthority
<1>3. Apply => JobsRest
  BY DEF Apply, DrainApply, DrainAcknowledge, records, JobsRest, SameAuthority
<1>4. Restart => JobsRest
  BY DEF Restart, records, DrainBegin, DrainEnd, DrainFails, JobsRest, SameAuthority
<1>5. UNCHANGED vars => JobsRest
  BY DEF vars, recordVars, records, JobsRest, SameAuthority
<1>. QED  BY <1>1, <1>2, <1>3, <1>4, <1>5

\* What a deck answers for does not depend on drains and reconciliations.
LEMMA AuthorityRests ==
    ASSUME AuthorityIsAnswered, JobsRest PROVE AuthorityIsAnswered'
BY DEF AuthorityIsAnswered, AuthorityInv, RecordsType, Answerable, JobsRest, SameAuthority, jobVars

\* A crash forgets every job; its head is one that a restart delivers.
LEMMA CrashOfAuthority ==
    ASSUME JobsInv, AuthorityIsAnswered, Crash PROVE AuthorityIsAnswered'
<1>1. SameAuthority
  BY DEF Crash, records, SameAuthority
<1>2. \A e \in Deck : heads[e] # NoHead /\ Answerable(e) => Answerable(e)'
  BY DEF Crash, JobsInv, JobInv, Working, Answerable
<1>. QED  BY <1>1, <1>2 DEF AuthorityIsAnswered, AuthorityInv, RecordsType, SameAuthority

-----------------------------------------------------------------------------
(* The inductive step *)

\* Admissions compare the limit with the number of counted jobs.
LEMMA CountedIsFinite ==
    IsFiniteSet(Counted) /\ Cardinality(Counted) \in Nat /\ runningCount = Cardinality(Counted)
<1>1. IsFiniteSet(Counted)
  BY ImportConstants, FS_Subset DEF Counted
<1>. QED  BY <1>1, FS_CardinalityType DEF Counted, runningCount

\* Only an admission makes the count grow, and it checked that there was a place.
LEMMA CountStays ==
    ASSUME runningCount <= MaxRunning, Counted' \subseteq Counted
    PROVE  runningCount' <= MaxRunning
<1>1. Cardinality(Counted') <= Cardinality(Counted)
  BY CountedIsFinite, FS_Subset
<1>2. runningCount' = Cardinality(Counted')
  BY DEF runningCount, Counted
<1>3. Cardinality(Counted') \in Nat
  BY CountedIsFinite, FS_Subset, FS_CardinalityType
<1>. QED  BY <1>1, <1>2, <1>3, CountedIsFinite, ImportConstants

\* An admission found a place.
LEMMA CountGrows ==
    ASSUME JobsInv, NEW d \in Deck, Admit(d)
    PROVE  runningCount' <= MaxRunning
<1>1. runningCount < MaxRunning /\ Counted' = Counted \cup {d}
  BY JobSteps DEF Admit
<1>2. Cardinality(Counted') <= Cardinality(Counted) + 1 /\ Cardinality(Counted') \in Nat
  BY <1>1, CountedIsFinite, FS_AddElement
<1>3. runningCount' = Cardinality(Counted')
  BY DEF runningCount, Counted
<1>. QED  BY <1>1, <1>2, <1>3, CountedIsFinite, ImportConstants

\* Every step preserves the invariant.
LEMMA Inductive == IInv /\ [Next]_vars => IInv'
<1>. SUFFICES ASSUME IInv, [Next]_vars PROVE IInv'
  OBVIOUS
<1>1. JobsInv /\ AuthorityIsAnswered /\ runningCount <= MaxRunning
  BY DEF IInv, JobsInv, AuthorityIsAnswered
<1>. DEFINE Goal == JobsInv' /\ AuthorityIsAnswered' /\ runningCount' <= MaxRunning
<1>2. ASSUME JobsRest PROVE Goal
  BY <1>1, <1>2, OtherSteps, AuthorityRests, CountStays DEF JobsRest
<1>3. ASSUME NEW d \in Deck, Admit(d) PROVE Goal
  BY <1>1, <1>3, JobSteps, JobsGoOn, CountGrows
<1>4. ASSUME NEW d \in Deck,
             \/ UploadStep(d) \/ CancelJob(d) \/ Deadline(d) \/ Expire(d) \/ ParseEnds(d)
             \/ ParseFails(d) \/ CommitReturns(d) \/ CommitFails(d) \/ DrainStep(d)
             \/ Abandon(d) \/ Fail(d) \/ Settle(d)
      PROVE  Goal
  <2>1. JobsInv' /\ Counted' \subseteq Counted
    BY <1>1, <1>4, JobSteps DEF UploadStep, DrainStep
  <2>2. AuthorityIsAnswered'
    BY <1>1, <1>4, JobsGoOn DEF UploadStep, DrainStep
  <2>. QED  BY <1>1, <2>1, <2>2, CountStays
<1>5. ASSUME NEW d \in Deck, Publish(d) \/ Undo(d) \/ LateUndo(d) PROVE Goal
  <2>1. JobsInv' /\ Counted' \subseteq Counted
    BY <1>1, <1>5, JobSteps
  <2>. QED  BY <1>1, <1>5, <2>1, AuthorityMoves, CountStays
<1>6. ASSUME NEW d \in Deck, ReconcileUndo(d) PROVE Goal
  <2>1. UNCHANGED jobVars
    BY <1>6 DEF ReconcileUndo, NotJobs
  <2>. QED  BY <1>1, <1>6, <2>1, OtherSteps, AuthorityMoves, CountStays
<1>7. ASSUME Crash PROVE Goal
  BY <1>1, <1>7, CrashOfJobs, CrashOfAuthority, CountStays
<1>8. Goal
  BY <1>2, <1>3, <1>4, <1>5, <1>6, <1>7, Bystanders
     DEF Next, UploadStep, CommitStep, DrainStep, EndStep, ReconcileStep
<1>. QED  BY <1>8 DEF IInv, JobsInv, AuthorityIsAnswered

\* No job has begun.
LEMMA Initially == Init => IInv
<1>. SUFFICES ASSUME Init PROVE IInv
  OBVIOUS
<1>1. JobsType /\ \A d \in Deck : JobInv(d) /\ AuthorityInv(d)
  BY DEF Init, JobsType, JobInv, AuthorityInv, Working, Statuses, Runs, Stages, Terminal, Awaits
<1>2. RecordsType
  BY DEF Init, RecordsType
<1>3. Counted = {}
  BY DEF Init, Counted
<1>4. runningCount = 0
  BY <1>3, CountedIsFinite, FS_EmptySet
<1>. QED  BY <1>1, <1>2, <1>4, ImportConstants DEF IInv

\* IInv is an invariant of the specification.
LEMMA Invariant == Spec => []IInv
BY Initially, Inductive, PTL DEF Spec

-----------------------------------------------------------------------------
(* The outbox of imports *)

\* Imports only queue upserts.
QType ==
    /\ QueueType /\ drain.bad \subseteq drain.done
    /\ \A i \in DOMAIN outbox : outbox[i].op = "upsert"
    /\ \A k \in DOMAIN drain.todo : drain.todo[k].op = "upsert"
    /\ drain.by = Nobody => drain = NoDrain

Queued(d) == \E i \in DOMAIN outbox : outbox[i].deck = d
ToDo(d) == \E k \in DOMAIN drain.todo : drain.todo[k].deck = d
DoneFor(d) == \E w \in drain.done : w.deck = d

\* What drains do to the writes and the row of a deck: a write that leaves the queue
\* was applied or lost, and only a write that was on its way changes the row.
Drift(d) ==
    /\ lost \subseteq lost'
    /\ Queued(d)' => Queued(d)
    /\ rows[d] # NoRow => rows'[d] # NoRow
    /\ rows'[d] = rows[d] \/ ToDo(d)
    /\ Queued(d) => Queued(d)' \/ DoneFor(d)
    /\ DoneFor(d)' => DoneFor(d) \/ ToDo(d)
    /\ DoneFor(d)' => DoneFor(d) \/ rows'[d] # NoRow \/ d \in lost'
    /\ ToDo(d)' => ToDo(d) \/ Queued(d)
    /\ drain'.by = ImportCall(d) =>
          \/ drain.by = ImportCall(d) /\ (ToDo(d) => ToDo(d)' \/ rows'[d] # NoRow \/ d \in lost')
          \/ stage[d] = "drain" /\ (Queued(d) => ToDo(d)')
    /\ drain'.by = ReconcileCall(d) =>
          \/ drain.by = ReconcileCall(d) /\ (ToDo(d)' => ToDo(d))
          \/ reconcile[d] = "drain" /\ (ToDo(d)' => Queued(d))

\* A step that leaves the outbox and the rows alone, but for a failed call.
LEMMA QueueStill ==
    ASSUME QType, UNCHANGED <<outbox, clock, lost, rows, drain>>,
           faults' = faults \/ \E p : Fault(p)
    PROVE  QType' /\ \A d \in Deck : Drift(d)
<1>1. faults' \in [at : SUBSET FaultPoints, left : 0 .. MaxFaults]
  BY FaultType DEF QType, QueueType
<1>2. QType'
  BY <1>1 DEF QType, QueueType
<1>. QED  BY <1>2 DEF Drift, Queued, ToDo, DoneFor

\* Who drains.
LEMMA CallersApart ==
    ASSUME NEW d \in Deck
    PROVE  /\ ImportCall(d) # Nobody /\ ReconcileCall(d) # Nobody /\ ImportCall(d) \in Caller
           /\ ReconcileCall(d) \in Caller /\ OtherCall \in Caller /\ Startup \in Caller
           /\ ImportCall(d) # OtherCall /\ ImportCall(d) # Startup
           /\ ReconcileCall(d) # OtherCall /\ ReconcileCall(d) # Startup
           /\ \A e : ImportCall(d) # ReconcileCall(e) /\ ReconcileCall(d) # ImportCall(e)
           /\ \A e : ImportCall(d) = ImportCall(e) => d = e
           /\ \A e : ReconcileCall(d) = ReconcileCall(e) => d = e
BY CallersAreDrainers, RecordsConstants DEF Callers, ImportCall, ReconcileCall, OtherCall, Startup

\* A drain takes what is queued; a job or a reconciliation drains when it awaits it.
LEMMA DrainBeginDrifts ==
    ASSUME QType, NEW c \in Caller, DrainBegin(c),
           \A d \in Deck : c = ImportCall(d) => stage[d] = "drain",
           \A d \in Deck : c = ReconcileCall(d) => reconcile[d] = "drain"
    PROVE  QType' /\ \A d \in Deck : Drift(d)
<1>. DEFINE none == {}
<1>1. /\ UNCHANGED <<outbox, clock, lost, rows, faults>>
      /\ drain' = [by |-> c, todo |-> outbox, done |-> none, bad |-> none]
  BY DEF DrainBegin, queue, NoDrain
<1>2. none \in SUBSET Writes /\ none \subseteq none /\ \A w : w \notin none
  OBVIOUS
<1>. HIDE DEF none
<1>3. drain'.by = c /\ drain'.todo = outbox /\ drain'.done = none /\ drain'.bad = none
  BY <1>1
<1>4. drain' \in Drains
  BY <1>1, <1>2 DEF QType, QueueType, Drains
<1>5. c # Nobody
  BY RecordsConstants
<1>6. QType'
  BY <1>1, <1>2, <1>3, <1>4, <1>5 DEF QType, QueueType
<1>7. ASSUME NEW d \in Deck PROVE Drift(d)
  BY <1>1, <1>2, <1>3 DEF Drift, Queued, ToDo, DoneFor
<1>. QED  BY <1>6, <1>7

\* An upsert is applied or lost; a row that is newer stays.
LEMMA DrainApplyDrifts ==
    ASSUME QType, DrainApply
    PROVE  QType' /\ \A d \in Deck : Drift(d)
<1>. DEFINE t == drain.todo
            w == Head(t)
            bad == IF rows' = Applied(rows, w) /\ UNCHANGED <<faults, lost>> THEN drain.bad ELSE drain.bad \cup {w}
<1>1. drain \in Drains /\ t \in Seq(Writes) /\ t # <<>> /\ outbox' = outbox /\ clock' = clock
      /\ rows \in [Deck -> Nat] /\ lost \subseteq Deck
  BY DEF QType, QueueType, Drains, DrainApply
<1>2. drain'.by = drain.by /\ drain'.todo = Tail(t) /\ drain'.done = drain.done \cup {w}
  BY <1>1 DEF DrainApply, Drains
<1>3. \/ rows' = Applied(rows, w) /\ drain'.bad = drain.bad /\ faults' = faults /\ lost' = lost
      \/ rows' = rows /\ drain'.bad = drain.bad \cup {w} /\ Fault("apply") /\ lost' = lost \cup {w.deck}
  BY <1>1 DEF DrainApply, Drains
<1>. HIDE DEF t, bad
<1>4. /\ w = t[1] /\ 1 \in DOMAIN t /\ w \in Writes /\ Tail(t) \in Seq(Writes)
      /\ \A k \in DOMAIN Tail(t) : k + 1 \in DOMAIN t /\ Tail(t)[k] = t[k + 1]
      /\ \A k \in DOMAIN t : k = 1 \/ (k - 1 \in DOMAIN Tail(t) /\ Tail(t)[k - 1] = t[k])
  BY <1>1
<1>5. w.op = "upsert" /\ w.deck \in Deck /\ w.gen \in Nat \ {0}
  BY <1>4 DEF QType, t, Writes
<1>. HIDE DEF w
<1>6. /\ rows' \in [Deck -> Nat] /\ \A d \in Deck \ {w.deck} : rows'[d] = rows[d]
      /\ rows'[w.deck] # NoRow \/ w.deck \in lost'
      /\ \A d \in Deck : rows[d] # NoRow => rows'[d] # NoRow
  <2>1. CASE rows' = Applied(rows, w)
    BY <1>1, <1>5, <2>1 DEF Applied, NoRow
  <2>2. CASE rows' = rows /\ lost' = lost \cup {w.deck}
    BY <1>1, <2>2
  <2>. QED  BY <1>3, <2>1, <2>2
<1>7. QType'
  <2>1. faults' \in [at : SUBSET FaultPoints, left : 0 .. MaxFaults]
    BY <1>3, FaultType DEF QType, QueueType
  <2>2. drain' \in Drains /\ drain'.bad \subseteq drain'.done
    <3>1. drain' = [by |-> drain.by, todo |-> Tail(t), done |-> drain.done \cup {w}, bad |-> drain'.bad]
      BY <1>1, <1>2 DEF DrainApply, Drains, t, w
    <3>2. drain'.bad \subseteq drain.done \cup {w}
      BY <1>3 DEF QType
    <3>3. drain.done \cup {w} \in SUBSET Writes /\ drain'.bad \in SUBSET Writes /\ drain.by \in Caller \cup {Nobody}
      BY <1>1, <1>4, <3>2 DEF Drains
    <3>. QED  BY <1>2, <1>4, <3>1, <3>2, <3>3 DEF Drains
  <2>3. \A k \in DOMAIN drain'.todo : drain'.todo[k].op = "upsert"
    BY <1>2, <1>4 DEF QType, t
  <2>4. drain.by # Nobody
    BY DEF DrainApply
  <2>5. lost' \subseteq Deck
    BY <1>1, <1>3, <1>5
  <2>. QED  BY <1>1, <1>2, <1>6, <2>1, <2>2, <2>3, <2>4, <2>5 DEF QType, QueueType
<1>8. ASSUME NEW d \in Deck PROVE Drift(d)
  <2>1. ToDo(d) <=> w.deck = d \/ ToDo(d)'
    <3>1. ToDo(d)' => ToDo(d)
      BY <1>2, <1>4 DEF ToDo, t
    <3>2. w.deck = d => ToDo(d)
      BY <1>4 DEF ToDo, t
    <3>3. ToDo(d) => w.deck = d \/ ToDo(d)'
      <4>. SUFFICES ASSUME NEW k \in DOMAIN t, t[k].deck = d PROVE w.deck = d \/ ToDo(d)'
        BY DEF ToDo, t
      <4>1. CASE k = 1
        BY <1>4, <4>1
      <4>2. CASE k # 1
        <5>1. k - 1 \in DOMAIN Tail(t) /\ Tail(t)[k - 1] = t[k]
          BY <1>4, <4>2
        <5>. QED  BY <1>2, <5>1 DEF ToDo
      <4>. QED  BY <4>1, <4>2
    <3>. QED  BY <3>1, <3>2, <3>3
  <2>2. DoneFor(d)' <=> DoneFor(d) \/ w.deck = d
    BY <1>2 DEF DoneFor
  <2>3. Queued(d)' <=> Queued(d)
    BY <1>1 DEF Queued
  <2>4. lost \subseteq lost'
    BY <1>3
  <2>. QED  BY <1>2, <1>6, <2>1, <2>2, <2>3, <2>4 DEF Drift
<1>. QED  BY <1>7, <1>8

\* What leaves the queue was done.
LEMMA Acknowledging ==
    ASSUME QType, NEW gone, gone \subseteq drain.done, outbox' = Remaining(outbox, gone)
    PROVE  /\ outbox' \in Seq(Writes) /\ \A i \in DOMAIN outbox' : outbox'[i].op = "upsert"
           /\ \A d \in Deck : (Queued(d)' => Queued(d)) /\ (Queued(d) => Queued(d)' \/ DoneFor(d))
<1>1. outbox \in Seq(Writes)
  BY DEF QType, QueueType
<1>2. /\ outbox' \in Seq(Writes)
      /\ \A k \in DOMAIN outbox' : outbox'[k] \notin gone /\ \E i \in DOMAIN outbox : outbox[i] = outbox'[k]
      /\ \A i \in DOMAIN outbox : outbox[i] \in gone \/ \E k \in DOMAIN outbox' : outbox'[k] = outbox[i]
  BY <1>1, RemainingSet
<1>3. \A i \in DOMAIN outbox' : outbox'[i].op = "upsert"
  BY <1>2 DEF QType
<1>4. ASSUME NEW d \in Deck PROVE (Queued(d)' => Queued(d)) /\ (Queued(d) => Queued(d)' \/ DoneFor(d))
  BY <1>2 DEF Queued, DoneFor
<1>. QED  BY <1>2, <1>3, <1>4

\* What was applied leaves the queue before what could not be applied.
LEMMA DrainAcknowledgeDrifts ==
    ASSUME QType, DrainAcknowledge
    PROVE  QType' /\ \A d \in Deck : Drift(d)
<1>. DEFINE gone == drain.done \ drain.bad
<1>1. /\ drain \in Drains /\ drain.todo = <<>> /\ drain'.by = drain.by /\ drain'.todo = drain.todo
      /\ drain'.done = drain.bad /\ drain'.bad = drain.bad /\ outbox' = Remaining(outbox, gone)
      /\ UNCHANGED <<lost, rows, clock, faults>> /\ drain.by # Nobody
      /\ drain' = [drain EXCEPT !.done = drain.bad]
  BY DEF QType, QueueType, Drains, DrainAcknowledge, Acknowledge
<1>2. /\ outbox' \in Seq(Writes) /\ \A i \in DOMAIN outbox' : outbox'[i].op = "upsert"
      /\ \A d \in Deck : (Queued(d)' => Queued(d)) /\ (Queued(d) => Queued(d)' \/ DoneFor(d))
  BY <1>1, Acknowledging
<1>3. drain' \in Drains
  BY <1>1 DEF Drains
<1>4. QType'
  BY <1>1, <1>2, <1>3 DEF QType, QueueType
<1>5. ASSUME NEW d \in Deck PROVE Drift(d)
  <2>1. (DoneFor(d)' => DoneFor(d)) /\ (ToDo(d)' <=> ToDo(d))
    BY <1>1 DEF QType, DoneFor, ToDo
  <2>. QED  BY <1>1, <1>2, <2>1 DEF Drift
<1>. QED  BY <1>4, <1>5

\* The drain is over, or forgotten.
LEMMA DrainStopDrifts ==
    ASSUME QType, drain' = NoDrain, UNCHANGED <<clock, lost, rows>>,
           faults' = faults \/ \E p : Fault(p),
           outbox' = outbox \/ outbox' = Remaining(outbox, drain.done)
    PROVE  QType' /\ \A d \in Deck : Drift(d)
<1>1. faults' \in [at : SUBSET FaultPoints, left : 0 .. MaxFaults]
  BY FaultType DEF QType, QueueType
<1>2. /\ outbox' \in Seq(Writes) /\ \A i \in DOMAIN outbox' : outbox'[i].op = "upsert"
      /\ \A d \in Deck : (Queued(d)' => Queued(d)) /\ (Queued(d) => Queued(d)' \/ DoneFor(d))
  <2>1. CASE outbox' = outbox
    BY <2>1 DEF QType, QueueType, Queued
  <2>2. CASE outbox' = Remaining(outbox, drain.done)
    BY <2>2, Acknowledging
  <2>. QED  BY <2>1, <2>2
<1>3. drain' \in Drains /\ DOMAIN drain'.todo = {} /\ drain'.done = {} /\ drain'.bad = {} /\ drain'.by = Nobody
  BY NobodyDrains
<1>4. QType'
  BY <1>1, <1>2, <1>3 DEF QType, QueueType
<1>5. ASSUME NEW d \in Deck PROVE Drift(d)
  BY <1>2, <1>3, CallersApart DEF Drift, DoneFor, ToDo
<1>. QED  BY <1>4, <1>5

\* A drain ends with its acknowledgement, or fails.
LEMMA DrainEndDrifts ==
    ASSUME QType, NEW c, DrainEnd(c) \/ DrainFails(c)
    PROVE  QType' /\ \A d \in Deck : Drift(d)
<1>1. /\ drain' = NoDrain /\ UNCHANGED <<clock, lost, rows>> /\ (faults' = faults \/ \E p : Fault(p))
      /\ outbox' = outbox \/ outbox' = Remaining(outbox, drain.done)
  BY DEF DrainEnd, DrainFails, Acknowledge, queue
<1>. QED  BY <1>1, DrainStopDrifts

-----------------------------------------------------------------------------
(* What the store, the rows and the jobs say of an import *)

\* A step that is not about the deck.
Keep(d) ==
    /\ heads'[d] = heads[d] /\ receipt'[d] = receipt[d] /\ reconcile'[d] = reconcile[d]
    /\ status'[d] = status[d] /\ run'[d] = run[d] /\ stage'[d] = stage[d] /\ late'[d] = late[d]
    /\ d \in asked' <=> d \in asked
    /\ d \in reconciled' <=> d \in reconciled

\* A queued write has its head; a published deck is listed or has a write queued, its
\* writes that were done are shown, and the drain of its job carries what the row lacks.
ListInv(d) ==
    /\ Queued(d) => heads[d] # NoHead
    /\ heads[d] # NoHead /\ d \notin lost =>
          /\ rows[d] # NoRow \/ Queued(d)
          /\ DoneFor(d) => rows[d] # NoRow
          /\ drain.by = ImportCall(d) => rows[d] # NoRow \/ ToDo(d)

\* Before it publishes an import has no receipt, and no receipt means that nothing of
\* the deck is anywhere; its drain is that of the stage.
FreshInv(d) ==
    /\ drain.by = ImportCall(d) => stage[d] = "drain"
    /\ stage[d] \in {"parse", "prepare"} \/ run[d] \in {"new", "upload"} => receipt[d] = "none"
    /\ receipt[d] = "none" => heads[d] = NoHead /\ ~ToDo(d) /\ ~DoneFor(d)

\* A late clean-up excludes an awaited stage; a done job has neither, and its head and
\* row are there until its reconciliation is asked for.
DoneInv(d) ==
    /\ late[d] => stage[d] = "none" /\ run[d] \notin Awaits
    /\ status[d] = "done" => stage[d] = "none" /\ ~late[d]
    /\ run[d] = "drain" => stage[d] = "drain"
    /\ run[d] = "parse" => stage[d] = "parse"
    /\ run[d] = "drain" \/ status[d] = "done" \/ (run[d] = "commit" /\ stage[d] = "published")
          => heads[d] # NoHead \/ d \in asked
    /\ status[d] = "done" /\ d \notin asked /\ d \notin lost => rows[d] # NoRow

\* A reconciliation past its rollback has no head to show, and past its drain nothing
\* on its way to the row.
ReconcileInv(d) ==
    /\ reconcile[d] # "idle" => d \in asked /\ receipt[d] # "none"
    /\ reconcile[d] \in {"drain", "delete"} \/ d \in reconciled \/ drain.by = ReconcileCall(d) =>
          heads[d] = NoHead /\ receipt[d] # "none"
    /\ reconcile[d] = "delete" \/ d \in reconciled \/ drain.by = ReconcileCall(d) => ~ToDo(d)
    /\ d \in reconciled => rows[d] = NoRow

DeckInv(d) == ListInv(d) /\ FreshInv(d) /\ DoneInv(d) /\ ReconcileInv(d)

RInv == QType /\ \A d \in Deck : DeckInv(d)

\* A drain goes on, or nothing happens to the deck.
LEMMA Drifts ==
    ASSUME NEW d \in Deck, DeckInv(d), Drift(d), Keep(d)
    PROVE  DeckInv(d)'
<1>1. ListInv(d)'
  BY DEF DeckInv, ListInv, FreshInv, Drift, Keep
<1>2. FreshInv(d)'
  BY DEF DeckInv, ListInv, FreshInv, Drift, Keep
<1>3. DoneInv(d)'
  BY DEF DeckInv, DoneInv, Drift, Keep
<1>4. ReconcileInv(d)'
  BY DEF DeckInv, ListInv, ReconcileInv, Drift, Keep
<1>. QED  BY <1>1, <1>2, <1>3, <1>4 DEF DeckInv

\* A step of one import or of its reconciliation.
LEMMA OwnDeck ==
    ASSUME RInv, QType', NEW d \in Deck, DeckInv(d)', \A e \in Deck \ {d} : Drift(e) /\ Keep(e)
    PROVE  RInv'
<1>1. ASSUME NEW e \in Deck \ {d} PROVE DeckInv(e)'
  BY <1>1, Drifts DEF RInv
<1>. QED  BY <1>1 DEF RInv

-----------------------------------------------------------------------------
(* Jobs *)

\* The steps of a job that touch neither the store nor the outbox.
LEMMA JobMoves ==
    ASSUME RInv, JobsInv, NEW d \in Deck,
           \/ Admit(d) \/ UploadFails(d) \/ CancelJob(d) \/ Deadline(d) \/ Expire(d) \/ Start(d)
           \/ ParseEnds(d) \/ ParseFails(d) \/ CommitReturns(d) \/ CommitFails(d)
           \/ Abandon(d) \/ Fail(d) \/ Settle(d)
    PROVE  RInv'
<1>1. /\ UNCHANGED <<heads, outbox, clock, lost, rows, drain, receipt, reconcile, asked, reconciled>>
      /\ faults' = faults \/ \E p : Fault(p)
  <2>. USE DEF NoRecords, Elsewhere, NotReconcile, recordVars, records, queue
  <2>1. CASE Admit(d) \/ UploadFails(d) \/ CancelJob(d) \/ Deadline(d) \/ Expire(d) \/ Start(d)
    BY <2>1 DEF Admit, UploadFails, CancelJob, Deadline, Expire, Start
  <2>2. CASE ParseEnds(d) \/ ParseFails(d) \/ CommitReturns(d)
    BY <2>2 DEF ParseEnds, ParseFails, CommitReturns
  <2>3. CASE CommitFails(d)
    BY <2>3 DEF CommitFails
  <2>4. CASE Abandon(d) \/ Fail(d) \/ Settle(d)
    BY <2>4 DEF Abandon, Fail, Finish, Settle
  <2>. QED  BY <2>1, <2>2, <2>3, <2>4
<1>2. QType' /\ \A e \in Deck : Drift(e)
  BY <1>1, QueueStill DEF RInv
<1>3. JobsType
  BY DEF JobsInv
<1>4. \A e \in Deck \ {d} : /\ status'[e] = status[e] /\ run'[e] = run[e] /\ stage'[e] = stage[e]
                            /\ late'[e] = late[e]
  <2>. USE <1>3 DEF JobsType
  <2>1. CASE Admit(d) \/ UploadFails(d) \/ CancelJob(d) \/ Deadline(d) \/ Expire(d) \/ Start(d)
    BY <2>1 DEF Admit, UploadFails, CancelJob, Deadline, Expire, Start
  <2>2. CASE ParseEnds(d) \/ ParseFails(d)
    BY <2>2 DEF ParseEnds, ParseFails
  <2>3. CASE CommitReturns(d) \/ CommitFails(d)
    BY <2>3 DEF CommitReturns, CleanedUpWhenLate, CommitFails, StageRejects
  <2>4. CASE Abandon(d) \/ Fail(d) \/ Settle(d)
    BY <2>4 DEF Abandon, Fail, Finish, Settle
  <2>. QED  BY <2>1, <2>2, <2>3, <2>4
<1>5. \A e \in Deck \ {d} : Keep(e)
  BY <1>1, <1>4 DEF Keep
<1>6. DeckInv(d) /\ JobInv(d)
  BY DEF RInv, JobsInv
<1>7. ListInv(d)' /\ ReconcileInv(d)'
  BY <1>1, <1>6 DEF DeckInv, ListInv, ReconcileInv, Queued, ToDo, DoneFor
<1>8. FreshInv(d)' /\ DoneInv(d)'
  <2>1. /\ heads'[d] = heads[d] /\ receipt'[d] = receipt[d] /\ (ToDo(d)' <=> ToDo(d))
        /\ (DoneFor(d)' <=> DoneFor(d)) /\ drain' = drain /\ rows'[d] = rows[d] /\ asked' = asked /\ lost' = lost
    BY <1>1 DEF ToDo, DoneFor
  <2>. HIDE DEF ToDo, DoneFor
  <2>. USE <1>3, <1>6, <2>1 DEF JobsType, JobInv, Working, DeckInv, FreshInv, DoneInv, Awaits, Terminal
  <2>2. CASE Admit(d)
    BY <2>2 DEF Admit
  <2>3. CASE UploadFails(d)
    BY <2>3 DEF UploadFails
  <2>4. CASE CancelJob(d)
    BY <2>4 DEF CancelJob
  <2>5. CASE Deadline(d)
    BY <2>5 DEF Deadline
  <2>6. CASE Expire(d)
    BY <2>6 DEF Expire
  <2>7. CASE Start(d)
    BY <2>7 DEF Start
  <2>8. CASE ParseEnds(d)
    BY <2>8 DEF ParseEnds
  <2>9. CASE ParseFails(d)
    BY <2>9 DEF ParseFails
  <2>10. CASE CommitReturns(d) /\ run[d] = "commit"
    BY <2>10 DEF CommitReturns
  <2>11. CASE CommitReturns(d) /\ run[d] # "commit"
    <3>1. /\ stage[d] = "published" /\ stage' = [stage EXCEPT ![d] = "none"] /\ UNCHANGED <<status, run>>
      BY <2>11 DEF CommitReturns, CleanedUpWhenLate
    <3>. QED  BY <2>11, <3>1
  <2>12. CASE CommitFails(d)
    BY <2>12 DEF CommitFails, StageRejects
  <2>13. CASE Abandon(d) \/ Fail(d)
    BY <2>13 DEF Abandon, Fail, Finish
  <2>14. CASE Settle(d)
    BY <2>14 DEF Settle
  <2>. QED  BY <2>2, <2>3, <2>4, <2>5, <2>6, <2>7, <2>8, <2>9, <2>10, <2>11, <2>12, <2>13, <2>14
<1>. QED  BY <1>2, <1>5, <1>7, <1>8, OwnDeck DEF DeckInv

-----------------------------------------------------------------------------
(* The types of what is left *)

ImportType ==
    /\ receipt \in [Deck -> {"none", "committed", "rolled-back"}]
    /\ reconcile \in [Deck -> {"idle", "undo", "drain", "delete"}]
    /\ aborted \in [Deck -> BOOLEAN] /\ deadline \in [Deck -> BOOLEAN]
    /\ other \in BOOLEAN /\ up \in BOOLEAN /\ crashes \in 0 .. MaxCrashes
    /\ swallowed \subseteq Deck /\ reconciled \subseteq asked /\ asked \subseteq Deck
    /\ \A d \in Deck : reconcile[d] # "idle" => d \in asked
    /\ retained \in [Owners -> Heads \cup {NoHead}] /\ epoch \in Nat \ {0}
    /\ commits \in [Deck -> SUBSET [gen : Nat, body : Body]]

-----------------------------------------------------------------------------
(* Drains *)

\* Nothing but a drain happens to the decks.
LEMMA AllKeep == ASSUME RInv, QType', \A d \in Deck : Drift(d) /\ Keep(d) PROVE RInv'
BY Drifts DEF RInv

\* The drains that no job and no reconciliation waits for to end, and their beginnings.
LEMMA DrainMoves ==
    ASSUME RInv, OtherDrain \/ Apply \/ Restart \/ \E d \in Deck : DrainStarts(d)
    PROVE  RInv'
<1>1. UNCHANGED <<heads, receipt, reconcile, status, run, stage, late, asked, reconciled>>
  <2>. USE DEF jobVars, records, DrainBegin, DrainEnd, DrainFails
  <2>1. CASE OtherDrain
    BY <2>1 DEF OtherDrain
  <2>2. CASE Apply
    BY <2>2 DEF Apply, DrainApply, DrainAcknowledge
  <2>3. CASE Restart
    BY <2>3 DEF Restart
  <2>4. ASSUME NEW d \in Deck, DrainStarts(d) PROVE <1>1
    BY <2>4 DEF DrainStarts, Elsewhere, NotReconcile
  <2>. QED  BY <2>1, <2>2, <2>3, <2>4
<1>2. QType' /\ \A d \in Deck : Drift(d)
  <2>1. QType
    BY DEF RInv
  <2>2. CASE Apply
    BY <2>1, <2>2, DrainApplyDrifts, DrainAcknowledgeDrifts DEF Apply
  <2>3. CASE OtherDrain
    <3>1. \A d \in Deck : OtherCall # ImportCall(d) /\ OtherCall # ReconcileCall(d)
      BY CallersApart
    <3>2. OtherCall \in Caller
      BY CallersAreDrainers DEF Callers
    <3>3. DrainBegin(OtherCall) \/ DrainEnd(OtherCall) \/ DrainFails(OtherCall)
      BY <2>3 DEF OtherDrain
    <3>. QED  BY <2>1, <3>1, <3>2, <3>3, DrainBeginDrifts, DrainEndDrifts
  <2>4. CASE Restart
    <3>1. \A d \in Deck : Startup # ImportCall(d) /\ Startup # ReconcileCall(d)
      BY CallersApart
    <3>2. Startup \in Caller
      BY CallersAreDrainers DEF Callers
    <3>3. DrainBegin(Startup) \/ DrainEnd(Startup) \/ DrainFails(Startup)
      BY <2>4 DEF Restart
    <3>. QED  BY <2>1, <3>1, <3>2, <3>3, DrainBeginDrifts, DrainEndDrifts
  <2>5. ASSUME NEW d \in Deck, DrainStarts(d) PROVE <1>2
    <3>1. DrainBegin(ImportCall(d)) /\ stage[d] = "drain"
      BY <2>5 DEF DrainStarts
    <3>2. /\ ImportCall(d) \in Caller
          /\ \A e \in Deck : ImportCall(d) # ReconcileCall(e) /\ (ImportCall(d) = ImportCall(e) => d = e)
      BY CallersApart
    <3>. QED  BY <2>1, <3>1, <3>2, DrainBeginDrifts
  <2>. QED  BY <2>2, <2>3, <2>4, <2>5
<1>3. \A d \in Deck : Keep(d)
  BY <1>1 DEF Keep
<1>. QED  BY <1>2, <1>3, AllKeep

\* The drain of an import is over: it was published, and listed or lost.
LEMMA ImportDrained ==
    ASSUME RInv, JobsInv, NEW d \in Deck, DrainReturns(d) \/ DrainRejects(d)
    PROVE  RInv'
<1>1. /\ drain.by = ImportCall(d) /\ drain.todo = <<>> /\ drain' = NoDrain /\ stage[d] = "drain"
      /\ UNCHANGED <<heads, lost, rows, receipt, reconcile, asked, reconciled>>
  <2>1. CASE DrainReturns(d)
    BY <2>1 DEF DrainReturns, DrainEnd, records, Elsewhere, NotReconcile
  <2>2. CASE DrainRejects(d)
    BY <2>2 DEF DrainRejects, DrainFails, records, queue, NotReconcile
  <2>. QED  BY <2>1, <2>2
<1>2. QType' /\ \A e \in Deck : Drift(e)
  BY DrainEndDrifts DEF RInv, DrainReturns, DrainRejects
<1>3. JobsType /\ JobInv(d) /\ DeckInv(d)
  BY DEF JobsInv, RInv
<1>4. \/ /\ run[d] = "drain" /\ status' = [status EXCEPT ![d] = "done"]
         /\ run' = [run EXCEPT ![d] = "settle"] /\ stage' = [stage EXCEPT ![d] = "none"] /\ late' = late
      \/ /\ run[d] # "drain" /\ status' = status /\ run' = run /\ stage' = [stage EXCEPT ![d] = "none"]
         /\ late' \in {late, [late EXCEPT ![d] = TRUE]}
      \/ /\ run[d] = "drain" /\ status' = status /\ run' = [run EXCEPT ![d] = "undo"]
         /\ stage' = [stage EXCEPT ![d] = "none"] /\ late' = late
  <2>1. CASE DrainReturns(d)
    BY <2>1 DEF DrainReturns, Complete, CleanedUpWhenLate
  <2>2. CASE DrainRejects(d) /\ run[d] = "drain"
    BY <2>2 DEF DrainRejects, StageRejects
  <2>3. CASE DrainRejects(d) /\ run[d] # "drain"
    BY <1>3, <2>3 DEF DrainRejects, StageRejects, JobsType
  <2>. QED  BY <2>1, <2>2, <2>3
<1>5. \A e \in Deck \ {d} : Keep(e)
  BY <1>1, <1>3, <1>4 DEF Keep, JobsType
<1>6. ~ToDo(d) /\ drain'.by # ImportCall(d) /\ drain'.by # ReconcileCall(d) /\ ~ToDo(d)' /\ ~DoneFor(d)'
  <2>1. DOMAIN drain.todo = {} /\ DOMAIN drain'.todo = {} /\ drain'.done = {} /\ drain'.by = Nobody
    BY <1>1, NobodyDrains
  <2>. QED  BY <2>1, CallersApart DEF ToDo, DoneFor
<1>7. heads'[d] = heads[d] /\ receipt'[d] = receipt[d] /\ rows'[d] = rows[d] /\ reconcile'[d] = reconcile[d]
      /\ asked' = asked /\ reconciled' = reconciled /\ lost' = lost
  BY <1>1
<1>8. ListInv(d)' /\ ReconcileInv(d)'
  BY <1>2, <1>3, <1>6, <1>7 DEF DeckInv, ListInv, ReconcileInv, Drift
<1>9. FreshInv(d)' /\ DoneInv(d)'
  <2>. USE DEF JobsType, JobInv, DeckInv, ListInv, FreshInv, DoneInv, Awaits, Terminal
  <2>1. ~late[d] /\ status[d] # "done" /\ run[d] \notin {"new", "upload", "parse", "commit"}
    <3>1. JobInv(d) /\ Working(d)
      BY <1>1, <1>3 DEF Working
    <3>2. ~late[d] /\ status[d] # "done" /\ run[d] \notin {"new", "upload", "parse", "commit"}
      BY <1>1, <1>3, <3>1
    <3>. QED  BY <3>2
  <2>2. stage'[d] = "none"
    BY <1>3, <1>4
  <2>3. run'[d] \notin {"new", "upload", "parse", "commit", "drain"}
    BY <1>3, <1>4, <2>1
  <2>4. status'[d] = "done" => ~late'[d] /\ run[d] = "drain"
    BY <1>3, <1>4, <2>1
  <2>5. FreshInv(d)'
    BY <1>3, <1>6, <1>7, <2>1, <2>2, <2>3
  <2>6. run[d] = "drain" /\ d \notin asked => heads[d] # NoHead /\ (d \notin lost => rows[d] # NoRow)
    <3>1. run[d] = "drain" /\ d \notin asked => heads[d] # NoHead
      BY <1>3
    <3>2. ListInv(d) /\ drain.by = ImportCall(d)
      BY <1>1, <1>3
    <3>3. heads[d] # NoHead /\ d \notin lost => rows[d] # NoRow
      BY <1>6, <3>2
    <3>. QED  BY <3>1, <3>3
  <2>7. DoneInv(d)'
    BY <1>7, <2>2, <2>3, <2>4, <2>6
  <2>. QED  BY <2>5, <2>7
<1>10. DeckInv(d)'
  BY <1>8, <1>9 DEF DeckInv
<1>. QED  BY <1>2, <1>5, <1>10, OwnDeck

-----------------------------------------------------------------------------
(* The head of an import comes and goes *)

\* An import that publishes finds nothing of its deck.
LEMMA PublishMoves ==
    ASSUME RInv, JobsInv, RecordsType, ImportType, NEW d \in Deck, Publish(d)
    PROVE  RInv'
<1>. DEFINE upsert == "upsert"
<1>1. PICK g \in Nat \ {0} : g = FirstHead(CHOOSE b \in Body : TRUE).gen
  BY DEF FirstHead
<1>2. PICK t \in Nat : t = clock + 1
  BY DEF RInv, QType, QueueType
<1>. DEFINE w == [op |-> upsert, deck |-> d, gen |-> g, at |-> t]
<1>3. /\ outbox' = Append(outbox, w) /\ clock' = t /\ receipt' = [receipt EXCEPT ![d] = "committed"]
      /\ stage[d] = "prepare" /\ stage' = [stage EXCEPT ![d] = "published"]
      /\ UNCHANGED <<lost, rows, drain, faults, reconcile, status, run, late, asked, reconciled>>
  <2>1. /\ outbox' = Append(outbox, [op |-> "upsert", deck |-> d, gen |-> FirstHead(CHOOSE b \in Body : TRUE).gen, at |-> clock + 1])
        /\ clock' = clock + 1 /\ lost' = lost
    BY DEF Publish, PublishImport, QueueUpsert
  <2>2. receipt' = [receipt EXCEPT ![d] = "committed"] /\ UNCHANGED <<rows, drain, faults>>
    BY DEF Publish, PublishImport
  <2>. QED  BY <1>1, <1>2, <2>1, <2>2 DEF Publish, Elsewhere, NotReconcile
<1>4. upsert \in {"upsert", "remove"} /\ upsert = "upsert"
  OBVIOUS
<1>. HIDE DEF upsert
<1>5. w \in Writes /\ w.deck = d /\ w.op = "upsert"
  BY <1>4 DEF Writes
<1>. HIDE DEF w
<1>6. /\ outbox' \in Seq(Writes) /\ DOMAIN outbox \subseteq DOMAIN outbox'
      /\ \A i \in DOMAIN outbox : outbox'[i] = outbox[i]
      /\ \E i \in DOMAIN outbox' : outbox'[i] = w
      /\ \A i \in DOMAIN outbox' : outbox'[i] = w \/ i \in DOMAIN outbox
  <2>1. outbox \in Seq(Writes) /\ outbox' = Append(outbox, w)
    BY <1>3 DEF RInv, QType, QueueType
  <2>2. Len(outbox') \in DOMAIN outbox' /\ outbox'[Len(outbox')] = w
    BY <1>5, <2>1
  <2>. QED  BY <1>5, <2>1, <2>2
<1>7. QType'
  BY <1>3, <1>5, <1>6 DEF RInv, QType, QueueType
<1>8. /\ heads'[d] # NoHead /\ \A e \in Deck \ {d} : heads'[e] = heads[e]
  BY Published DEF Publish
<1>9. \A e \in Deck : (ToDo(e)' <=> ToDo(e)) /\ (DoneFor(e)' <=> DoneFor(e))
  BY <1>3 DEF ToDo, DoneFor
<1>10. \A e \in Deck \ {d} : Queued(e)' <=> Queued(e)
  BY <1>5, <1>6 DEF Queued
<1>11. ASSUME NEW e \in Deck \ {d} PROVE Drift(e) /\ Keep(e)
  <2>1. Drift(e)
    BY <1>3, <1>9, <1>10 DEF Drift
  <2>2. Keep(e)
    BY <1>3, <1>8 DEF Keep, ImportType, JobsInv, JobsType
  <2>. QED  BY <2>1, <2>2
<1>12. /\ stage'[d] = "published" /\ receipt'[d] = "committed" /\ Queued(d)'
  BY <1>3, <1>5, <1>6 DEF Queued, ImportType, JobsInv, JobsType
<1>13. JobInv(d) /\ Working(d) /\ DeckInv(d)
  BY <1>3 DEF RInv, JobsInv, Working
<1>14. /\ receipt[d] = "none" /\ heads[d] = NoHead /\ ~ToDo(d) /\ ~DoneFor(d) /\ drain.by # ImportCall(d)
       /\ reconcile[d] = "idle" /\ d \notin reconciled /\ drain.by # ReconcileCall(d)
       /\ ~late[d] /\ status[d] # "done" /\ run[d] \notin {"new", "upload", "drain", "parse"}
  <2>1. receipt[d] = "none" /\ heads[d] = NoHead /\ ~ToDo(d) /\ ~DoneFor(d) /\ drain.by # ImportCall(d)
    BY <1>3, <1>13 DEF DeckInv, FreshInv
  <2>2. reconcile[d] = "idle" /\ d \notin reconciled /\ drain.by # ReconcileCall(d)
    BY <2>1, <1>13 DEF DeckInv, ReconcileInv
  <2>3. ~late[d] /\ status[d] # "done" /\ run[d] \notin {"new", "upload", "drain", "parse"}
    BY <1>3, <1>13 DEF DeckInv, DoneInv, JobInv
  <2>. QED  BY <2>1, <2>2, <2>3
<1>15. ListInv(d)' /\ FreshInv(d)'
  BY <1>3, <1>8, <1>9, <1>12, <1>14 DEF ListInv, FreshInv
<1>16. DoneInv(d)' /\ ReconcileInv(d)'
  BY <1>3, <1>8, <1>9, <1>12, <1>14 DEF DoneInv, ReconcileInv
<1>. QED  BY <1>7, <1>11, <1>15, <1>16, OwnDeck DEF DeckInv

\* A rollback takes the head and every queued write of its deck.
LEMMA RollbackTakesAll ==
    ASSUME RInv, RecordsType, ImportType, NEW d \in Deck, RollbackImport(d), faults' = faults
    PROVE  /\ QType' /\ heads'[d] = NoHead /\ ~Queued(d)' /\ (receipt'[d] = "none" <=> receipt[d] = "none")
           /\ UNCHANGED <<clock, lost, rows, drain>>
           /\ \A e \in Deck \ {d} : Drift(e) /\ heads'[e] = heads[e] /\ receipt'[e] = receipt[e]
<1>1. QType /\ DeckInv(d) /\ outbox \in Seq(Writes)
  BY DEF RInv, QType, QueueType
<1>2. CASE heads[d] = NoHead
  <2>1. UNCHANGED <<heads, outbox, clock, lost, rows, drain, receipt>>
    BY <1>2 DEF RollbackImport, records, queue
  <2>2. QType' /\ \A e \in Deck : Drift(e)
    BY <1>1, <2>1, QueueStill
  <2>3. ~Queued(d)'
    BY <1>1, <1>2, <2>1 DEF DeckInv, ListInv, Queued
  <2>. QED  BY <1>2, <2>1, <2>2, <2>3
<1>3. CASE heads[d] # NoHead
  <2>. DEFINE gone == WritesOf(d)
  <2>1. /\ heads' = [heads EXCEPT ![d] = NoHead] /\ outbox' = Remaining(outbox, gone)
        /\ receipt' = [receipt EXCEPT ![d] = "rolled-back"] /\ UNCHANGED <<clock, lost, rows, drain>>
    BY <1>3 DEF RollbackImport
  <2>2. \A i \in DOMAIN outbox : outbox[i] \in gone <=> outbox[i].deck = d
    BY DEF WritesOf
  <2>3. \A w \in gone : w.deck = d
    BY DEF WritesOf
  <2>. HIDE DEF gone
  <2>4. /\ outbox' \in Seq(Writes)
        /\ \A k \in DOMAIN outbox' : outbox'[k] \notin gone /\ \E i \in DOMAIN outbox : outbox[i] = outbox'[k]
        /\ \A i \in DOMAIN outbox : outbox[i] \in gone \/ \E k \in DOMAIN outbox' : outbox'[k] = outbox[i]
    BY <1>1, <2>1, RemainingSet
  <2>5. \A k \in DOMAIN outbox' : outbox'[k].op = "upsert" /\ outbox'[k].deck # d
    BY <1>1, <2>2, <2>4 DEF QType
  <2>6. QType'
    BY <1>1, <2>1, <2>4, <2>5 DEF QType, QueueType
  <2>7. ~Queued(d)' /\ \A e \in Deck \ {d} : Queued(e)' <=> Queued(e)
    BY <2>2, <2>4, <2>5 DEF Queued
  <2>8. \A e \in Deck : (ToDo(e)' <=> ToDo(e)) /\ (DoneFor(e)' <=> DoneFor(e))
    BY <2>1 DEF ToDo, DoneFor
  <2>9. \A e \in Deck \ {d} : Drift(e)
    BY <2>1, <2>7, <2>8 DEF Drift
  <2>10. receipt[d] # "none" /\ receipt'[d] = "rolled-back" /\ heads'[d] = NoHead
         /\ \A e \in Deck \ {d} : heads'[e] = heads[e] /\ receipt'[e] = receipt[e]
    BY <1>1, <1>3, <2>1 DEF DeckInv, FreshInv, ImportType, RecordsType
  <2>. QED  BY <2>1, <2>6, <2>7, <2>9, <2>10
<1>. QED  BY <1>2, <1>3

\* The rollbacks of an import: of a rejected stage, of a late result, of a reconciliation.
LEMMA RollbackMoves ==
    ASSUME RInv, JobsInv, RecordsType, ImportType, NEW d \in Deck,
           Undo(d) \/ LateUndo(d) \/ ReconcileUndo(d)
    PROVE  RInv'
<1>1. DeckInv(d) /\ JobInv(d) /\ JobsType /\ QType
  BY DEF RInv, JobsInv
<1>2. /\ \A e \in Deck \ {d} : /\ reconcile'[e] = reconcile[e] /\ status'[e] = status[e] /\ run'[e] = run[e]
                                /\ stage'[e] = stage[e] /\ late'[e] = late[e]
      /\ asked' = asked /\ reconciled' = reconciled /\ stage' = stage /\ status' = status
      /\ \/ /\ run[d] = "undo" /\ run'[d] \in {"abort", "fail"} /\ reconcile' = reconcile /\ late' = late
         \/ /\ late[d] /\ ~late'[d] /\ run' = run /\ reconcile' = reconcile
         \/ /\ reconcile[d] = "undo" /\ reconcile'[d] = "drain" /\ run' = run /\ late' = late
  <2>1. CASE Undo(d)
    <3>1. PICK next \in {"abort", "fail"} : run' = [run EXCEPT ![d] = next]
      BY <2>1 DEF Undo
    <3>. QED  BY <1>1, <2>1, <3>1 DEF Undo, NotReconcile, JobsType
  <2>2. CASE LateUndo(d)
    BY <1>1, <2>2 DEF LateUndo, NotReconcile, JobsType
  <2>3. CASE ReconcileUndo(d)
    BY <1>1, <2>3 DEF ReconcileUndo, ReconcileGoes, NotJobs, jobVars, ImportType
  <2>. QED  BY <2>1, <2>2, <2>3
<1>3. DoneInv(d) /\ ReconcileInv(d) /\ ListInv(d) /\ FreshInv(d)
  BY <1>1 DEF DeckInv
<1>4. ASSUME RollbackImport(d), faults' = faults PROVE RInv'
  <2>1. /\ QType' /\ heads'[d] = NoHead /\ ~Queued(d)' /\ (receipt'[d] = "none" <=> receipt[d] = "none")
        /\ UNCHANGED <<clock, lost, rows, drain>>
        /\ \A e \in Deck \ {d} : Drift(e) /\ heads'[e] = heads[e] /\ receipt'[e] = receipt[e]
    BY <1>4, RollbackTakesAll
  <2>2. \A e \in Deck \ {d} : Keep(e)
    BY <1>2, <2>1 DEF Keep
  <2>3. (ToDo(d)' <=> ToDo(d)) /\ (DoneFor(d)' <=> DoneFor(d))
    BY <2>1 DEF ToDo, DoneFor
  <2>4. ListInv(d)' /\ FreshInv(d)'
    BY <1>2, <1>3, <2>1, <2>3 DEF ListInv, FreshInv
  <2>5. DoneInv(d)'
    <3>1. run[d] = "undo" => status[d] # "done"
      BY <1>1 DEF JobInv
    <3>. QED  BY <1>2, <1>3, <2>1, <3>1 DEF DoneInv, ReconcileInv, Awaits
  <2>6. ReconcileInv(d)'
    BY <1>2, <1>3, <2>1, <2>3 DEF ReconcileInv
  <2>. QED  BY <2>1, <2>2, <2>4, <2>5, <2>6, OwnDeck DEF DeckInv
<1>5. ASSUME Fault("rollback"), UNCHANGED <<records, queue, rows, drain, receipt>>, ~ReconcileUndo(d)
      PROVE  RInv'
  <2>1. UNCHANGED <<heads, outbox, clock, lost, rows, drain, receipt>>
    BY <1>5 DEF records, queue
  <2>2. QType' /\ \A e \in Deck : Drift(e)
    BY <1>1, <1>5, <2>1, QueueStill
  <2>3. \A e \in Deck \ {d} : Keep(e)
    BY <1>2, <2>1 DEF Keep
  <2>4. /\ (ToDo(d)' <=> ToDo(d)) /\ (DoneFor(d)' <=> DoneFor(d)) /\ (Queued(d)' <=> Queued(d))
    BY <2>1 DEF ToDo, DoneFor, Queued
  <2>5. reconcile' = reconcile
    BY <1>5 DEF Undo, LateUndo, NotReconcile
  <2>6. ListInv(d)' /\ FreshInv(d)' /\ ReconcileInv(d)'
    BY <1>2, <1>3, <2>1, <2>4, <2>5 DEF ListInv, FreshInv, ReconcileInv
  <2>7. DoneInv(d)'
    BY <1>2, <1>3, <2>1 DEF DoneInv, Awaits
  <2>. QED  BY <2>2, <2>3, <2>6, <2>7, OwnDeck DEF DeckInv
<1>6. CASE ReconcileUndo(d)
  BY <1>4, <1>6 DEF ReconcileUndo
<1>7. CASE ~ReconcileUndo(d)
  <2>1. TryRollback(d)
    BY <1>7 DEF Undo, LateUndo
  <2>. QED  BY <1>4, <1>5, <1>7, <2>1 DEF TryRollback
<1>. QED  BY <1>6, <1>7

\* The other steps of a reconciliation: after the drain nothing is on its way.
LEMMA ReconcileMoves ==
    ASSUME RInv, ImportType, NEW d \in Deck,
           ReconcileBegin(d) \/ ReconcileDrain(d) \/ ReconcileDelete(d)
    PROVE  RInv'
<1>1. QType /\ ListInv(d) /\ FreshInv(d) /\ DoneInv(d) /\ ReconcileInv(d)
  BY DEF RInv, DeckInv
<1>2. UNCHANGED <<heads, receipt, status, run, stage, late, lost>>
  <2>. USE DEF NoRecords, NotJobs, jobVars, recordVars, records, queue
  <2>1. CASE ReconcileBegin(d)
    BY <2>1 DEF ReconcileBegin
  <2>2. CASE ReconcileDrain(d)
    BY <2>2 DEF ReconcileDrain, DrainBegin, DrainEnd, DrainFails
  <2>3. CASE ReconcileDelete(d)
    BY <2>3 DEF ReconcileDelete
  <2>. QED  BY <2>1, <2>2, <2>3
<1>3. CASE ReconcileBegin(d)
  <2>1. UNCHANGED <<outbox, clock, rows, drain, faults, reconciled>> /\ asked' = asked \cup {d}
        /\ reconcile' = [reconcile EXCEPT ![d] = "undo"] /\ receipt[d] # "none"
    BY <1>3 DEF ReconcileBegin, NoRecords, recordVars, queue, ReconcileGoes
  <2>2. QType' /\ \A e \in Deck : Drift(e)
    BY <1>1, <1>2, <2>1, QueueStill
  <2>3. \A e \in Deck \ {d} : Keep(e)
    BY <1>2, <2>1 DEF Keep, ImportType
  <2>4. (ToDo(d)' <=> ToDo(d)) /\ (DoneFor(d)' <=> DoneFor(d)) /\ (Queued(d)' <=> Queued(d))
        /\ reconcile'[d] = "undo"
    BY <2>1 DEF ToDo, DoneFor, Queued, ImportType
  <2>5. DeckInv(d)'
    BY <1>1, <1>2, <2>1, <2>4 DEF DeckInv, ListInv, FreshInv, DoneInv, ReconcileInv
  <2>. QED  BY <2>2, <2>3, <2>5, OwnDeck
<1>4. CASE ReconcileDrain(d) /\ DrainBegin(ReconcileCall(d)) /\ UNCHANGED reconcile
  <2>1. UNCHANGED <<asked, reconciled>> /\ reconcile[d] = "drain"
    BY <1>4 DEF ReconcileDrain
  <2>2. /\ ReconcileCall(d) \in Caller
        /\ \A e \in Deck : ReconcileCall(d) # ImportCall(e) /\ (ReconcileCall(d) = ReconcileCall(e) => d = e)
    BY CallersApart
  <2>3. QType' /\ \A e \in Deck : Drift(e)
    BY <1>1, <1>4, <2>1, <2>2, DrainBeginDrifts
  <2>4. \A e \in Deck : Keep(e)
    BY <1>2, <1>4, <2>1 DEF Keep
  <2>. QED  BY <2>3, <2>4, AllKeep
<1>5. CASE /\ ReconcileDrain(d)
           /\ DrainEnd(ReconcileCall(d)) \/ DrainFails(ReconcileCall(d))
           /\ ReconcileGoes(d, "delete") \/ ReconcileGoes(d, "idle")
  <2>1. /\ UNCHANGED <<asked, reconciled, rows>> /\ reconcile[d] = "drain"
        /\ drain' = NoDrain /\ drain.by = ReconcileCall(d) /\ reconcile'[d] \in {"delete", "idle"}
        /\ \A e \in Deck \ {d} : reconcile'[e] = reconcile[e]
    BY <1>5 DEF ReconcileDrain, ReconcileGoes, DrainEnd, DrainFails, ImportType
  <2>2. QType' /\ \A e \in Deck : Drift(e)
    BY <1>1, <1>5, DrainEndDrifts
  <2>3. \A e \in Deck \ {d} : Keep(e)
    BY <1>2, <2>1 DEF Keep
  <2>4. ~ToDo(d)' /\ ~DoneFor(d)' /\ drain'.by # ImportCall(d) /\ drain'.by # ReconcileCall(d)
    <3>1. DOMAIN drain'.todo = {} /\ drain'.done = {} /\ drain'.by = Nobody
      BY <2>1, NobodyDrains
    <3>. QED  BY <3>1, CallersApart DEF ToDo, DoneFor
  <2>5. ListInv(d)' /\ FreshInv(d)' /\ DoneInv(d)'
    BY <1>1, <1>2, <2>1, <2>2, <2>4 DEF ListInv, FreshInv, DoneInv, Drift
  <2>6. ReconcileInv(d)'
    BY <1>1, <1>2, <2>1, <2>4 DEF ReconcileInv
  <2>. QED  BY <2>2, <2>3, <2>5, <2>6, OwnDeck DEF DeckInv
<1>6. CASE ReconcileDelete(d)
  <2>1. /\ UNCHANGED <<asked, outbox, clock, drain, faults>> /\ reconciled' = reconciled \cup {d}
        /\ reconcile[d] = "delete" /\ reconcile' = [reconcile EXCEPT ![d] = "idle"]
        /\ rows' = [rows EXCEPT ![d] = NoRow]
    BY <1>6 DEF ReconcileDelete, ReconcileGoes, queue, NotJobs
  <2>2. rows \in [Deck -> Nat] /\ reconcile \in [Deck -> {"idle", "undo", "drain", "delete"}] /\ NoRow \in Nat
    BY <1>1 DEF QType, QueueType, ImportType, NoRow
  <2>3. QType'
    BY <1>1, <1>2, <2>1, <2>2 DEF QType, QueueType
  <2>4. \A e \in Deck : (ToDo(e)' <=> ToDo(e)) /\ (DoneFor(e)' <=> DoneFor(e)) /\ (Queued(e)' <=> Queued(e))
    BY <2>1 DEF ToDo, DoneFor, Queued
  <2>5. \A e \in Deck \ {d} : Drift(e) /\ Keep(e)
    BY <1>2, <2>1, <2>2, <2>4 DEF Keep, Drift
  <2>6. ListInv(d)' /\ FreshInv(d)' /\ DoneInv(d)'
    BY <1>1, <1>2, <2>1, <2>2, <2>4 DEF ListInv, FreshInv, DoneInv, ReconcileInv
  <2>7. ReconcileInv(d)'
    BY <1>1, <1>2, <2>1, <2>2, <2>4 DEF ReconcileInv
  <2>. QED  BY <2>3, <2>5, <2>6, <2>7, OwnDeck DEF DeckInv
<1>. QED  BY <1>3, <1>4, <1>5, <1>6 DEF ReconcileDrain

\* A crash ends the drain and forgets the jobs.
LEMMA CrashOfRows == ASSUME RInv, JobsInv, Crash PROVE RInv'
<1>1. /\ drain' = NoDrain /\ UNCHANGED <<heads, outbox, clock, lost, rows, faults, receipt, asked, reconciled>>
      /\ status' = [d \in Deck |-> "gone"]
      /\ run' = [d \in Deck |-> IF run[d] = "new" THEN "new" ELSE "end"]
      /\ stage' = [d \in Deck |-> "none"] /\ late' = [d \in Deck |-> FALSE]
      /\ reconcile' = [d \in Deck |-> "idle"]
  BY DEF Crash, records, queue
<1>2. QType' /\ \A d \in Deck : Drift(d)
  BY <1>1, DrainStopDrifts DEF RInv
<1>3. ASSUME NEW d \in Deck PROVE DeckInv(d)'
  <2>1. ListInv(d) /\ FreshInv(d) /\ DoneInv(d) /\ ReconcileInv(d) /\ Drift(d)
    BY <1>2 DEF RInv, DeckInv
  <2>2. ~ToDo(d)' /\ ~DoneFor(d)' /\ drain'.by # ImportCall(d) /\ drain'.by # ReconcileCall(d)
    <3>1. DOMAIN drain'.todo = {} /\ drain'.done = {} /\ drain'.by = Nobody
      BY <1>1, NobodyDrains
    <3>. QED  BY <3>1, CallersApart DEF ToDo, DoneFor
  <2>3. /\ status'[d] = "gone" /\ stage'[d] = "none" /\ ~late'[d] /\ reconcile'[d] = "idle"
        /\ run'[d] \in {"new", "end"} /\ (run'[d] = "new" => run[d] = "new")
    BY <1>1
  <2>4. ListInv(d)' /\ FreshInv(d)'
    BY <1>1, <2>1, <2>2, <2>3 DEF ListInv, FreshInv, Drift
  <2>5. DoneInv(d)' /\ ReconcileInv(d)'
    BY <1>1, <2>1, <2>2, <2>3 DEF DoneInv, ReconcileInv
  <2>. QED  BY <2>4, <2>5 DEF DeckInv
<1>. QED  BY <1>2, <1>3 DEF RInv

\* A step that changes nothing.
LEMMA NothingMoves == ASSUME RInv, UNCHANGED vars PROVE RInv'
<1>1. UNCHANGED <<heads, receipt, reconcile, status, run, stage, late, asked, reconciled, outbox, clock,
                  lost, rows, drain, faults>>
  BY DEF vars, recordVars, records, queue, jobVars
<1>2. QType' /\ \A d \in Deck : Drift(d)
  BY <1>1, QueueStill DEF RInv
<1>3. \A d \in Deck : Keep(d)
  BY <1>1 DEF Keep
<1>. QED  BY <1>2, <1>3, AllKeep

\* Every step preserves RInv.
LEMMA RowsInductive == ASSUME IInv, ImportType, RInv, [Next]_vars PROVE RInv'
<1>1. JobsInv /\ RecordsType
  BY DEF IInv, JobsInv
<1>2. ASSUME NEW d \in Deck,
             \/ Admit(d) \/ UploadStep(d) \/ CancelJob(d) \/ Deadline(d) \/ Expire(d)
             \/ ParseEnds(d) \/ ParseFails(d) \/ CommitReturns(d) \/ CommitFails(d)
             \/ Abandon(d) \/ Fail(d) \/ Settle(d)
      PROVE  RInv'
  BY <1>1, <1>2, JobMoves DEF UploadStep
<1>3. ASSUME NEW d \in Deck, Publish(d) \/ Undo(d) \/ LateUndo(d) \/ ReconcileUndo(d) PROVE RInv'
  BY <1>1, <1>3, PublishMoves, RollbackMoves
<1>4. ASSUME NEW d \in Deck, ReconcileBegin(d) \/ ReconcileDrain(d) \/ ReconcileDelete(d) PROVE RInv'
  BY <1>4, ReconcileMoves
<1>5. ASSUME NEW d \in Deck, DrainStep(d) PROVE RInv'
  BY <1>1, <1>5, DrainMoves, ImportDrained DEF DrainStep
<1>6. CASE OtherDrain \/ Apply \/ Restart
  BY <1>6, DrainMoves
<1>7. CASE Crash
  BY <1>1, <1>7, CrashOfRows
<1>8. CASE UNCHANGED vars
  BY <1>8, NothingMoves
<1>. QED  BY <1>2, <1>3, <1>4, <1>5, <1>6, <1>7, <1>8 DEF Next, CommitStep, EndStep, ReconcileStep

-----------------------------------------------------------------------------
(* Types *)

\* The steps that change no record but perhaps a head keep the types of the rest.
LEMMA JobTypes ==
    ASSUME ImportType, NEW d \in Deck,
           \/ Admit(d) \/ UploadStep(d) \/ CancelJob(d) \/ Deadline(d) \/ Expire(d)
           \/ ParseEnds(d) \/ ParseFails(d) \/ CommitReturns(d) \/ CommitFails(d)
           \/ DrainStep(d) \/ Abandon(d) \/ Fail(d) \/ Settle(d)
    PROVE  ImportType'
<1>1. UNCHANGED <<receipt, reconcile, other, up, crashes, asked, reconciled, retained, epoch, commits>>
  <2>. USE DEF NoRecords, Elsewhere, NotReconcile, recordVars, records
  <2>1. CASE Admit(d) \/ UploadStep(d) \/ CancelJob(d) \/ Deadline(d) \/ Expire(d)
    BY <2>1 DEF Admit, UploadStep, UploadFails, CancelJob, Deadline, Expire, Start
  <2>2. CASE ParseEnds(d) \/ ParseFails(d) \/ CommitReturns(d) \/ CommitFails(d)
    BY <2>2 DEF ParseEnds, ParseFails, CommitReturns, CommitFails
  <2>3. CASE Abandon(d) \/ Fail(d) \/ Settle(d)
    BY <2>3 DEF Abandon, Fail, Finish, Settle
  <2>4. CASE DrainStep(d)
    BY <2>4 DEF DrainStep, DrainStarts, DrainReturns, DrainRejects, DrainBegin, DrainEnd, DrainFails
  <2>. QED  BY <2>1, <2>2, <2>3, <2>4
<1>2. swallowed' = swallowed \/ swallowed' = swallowed \cup {d}
  <2>1. CASE CommitFails(d) \/ DrainRejects(d)
    BY <2>1 DEF CommitFails, DrainRejects, StageRejects
  <2>2. CASE ~(CommitFails(d) \/ DrainRejects(d))
    BY <2>2 DEF Admit, UploadStep, UploadFails, CancelJob, Deadline, Expire, Start, ParseEnds, ParseFails,
                CommitReturns, DrainStep, DrainStarts, DrainReturns, Abandon, Fail, Finish, Settle, Elsewhere
  <2>. QED  BY <2>1, <2>2
<1>3. aborted' \in [Deck -> BOOLEAN] /\ deadline' \in [Deck -> BOOLEAN]
  <2>1. CASE CancelJob(d)
    BY <2>1 DEF CancelJob, ImportType
  <2>2. CASE Deadline(d)
    BY <2>2 DEF Deadline, ImportType
  <2>3. CASE ~(CancelJob(d) \/ Deadline(d))
    <3>1. UNCHANGED <<aborted, deadline>>
      BY <2>3 DEF Admit, UploadStep, UploadFails, Expire, Start, ParseEnds, ParseFails, CommitReturns,
                  CleanedUpWhenLate, CommitFails, StageRejects, DrainStep, DrainStarts, DrainReturns,
                  DrainRejects, Complete, jobVars, Abandon, Fail, Finish, Settle
    <3>. QED  BY <3>1 DEF ImportType
  <2>. QED  BY <2>1, <2>2, <2>3
<1>. QED  BY <1>1, <1>2, <1>3 DEF ImportType

\* The steps that publish or take back a head.
LEMMA AuthorityTypes ==
    ASSUME ImportType, NEW d \in Deck, Publish(d) \/ Undo(d) \/ LateUndo(d) \/ ReconcileUndo(d)
    PROVE  ImportType'
<1>1. UNCHANGED <<other, up, crashes, asked, reconciled, retained, epoch, aborted, deadline>>
  <2>. USE DEF Elsewhere, NotReconcile, NotJobs, jobVars, records, RollbackImport, TryRollback
  <2>1. CASE Publish(d)
    BY <2>1 DEF Publish, PublishImport
  <2>2. CASE Undo(d) \/ LateUndo(d)
    BY <2>2 DEF Undo, LateUndo
  <2>3. CASE ReconcileUndo(d)
    BY <2>3 DEF ReconcileUndo
  <2>. QED  BY <2>1, <2>2, <2>3
<1>2. swallowed' = swallowed \/ swallowed' = swallowed \cup {d}
  BY DEF Publish, Elsewhere, Undo, LateUndo, TryRollback, ReconcileUndo, NotJobs
<1>3. receipt' \in [Deck -> {"none", "committed", "rolled-back"}]
  <2>1. \/ receipt' = receipt \/ receipt' = [receipt EXCEPT ![d] = "committed"]
        \/ receipt' = [receipt EXCEPT ![d] = "rolled-back"]
    BY DEF Publish, PublishImport, Undo, LateUndo, ReconcileUndo, TryRollback, RollbackImport
  <2>. QED  BY <2>1 DEF ImportType
<1>4. /\ reconcile' \in [Deck -> {"idle", "undo", "drain", "delete"}]
      /\ \A e \in Deck : reconcile'[e] # "idle" => e \in asked
  BY DEF ImportType, Publish, Undo, LateUndo, ReconcileUndo, ReconcileGoes, Elsewhere, NotReconcile
<1>5. commits' \in [Deck -> SUBSET [gen : Nat, body : Body]]
  <2>1. CASE Publish(d)
    <3>. DEFINE b == CHOOSE x \in Body : TRUE
    <3>1. b \in Body
      BY HeadsOK
    <3>2. FirstHead(b).gen = 1 /\ FirstHead(b).body = b /\ FirstHead(b) = [FirstHead(b) EXCEPT !.gen = 1]
      BY DEF FirstHead
    <3>3. [FirstHead(b) EXCEPT !.epoch = epoch].gen = 1 /\ [FirstHead(b) EXCEPT !.epoch = epoch].body = b
      BY DEF FirstHead
    <3>4. commits' = [commits EXCEPT ![d] = @ \cup {[gen |-> [FirstHead(b) EXCEPT !.epoch = epoch].gen,
                                                    body |-> [FirstHead(b) EXCEPT !.epoch = epoch].body]}]
      BY <2>1 DEF Publish, PublishImport, SetHead
    <3>. DEFINE x == [gen |-> [FirstHead(b) EXCEPT !.epoch = epoch].gen,
                      body |-> [FirstHead(b) EXCEPT !.epoch = epoch].body]
    <3>5. x \in [gen : Nat, body : Body]
      BY <3>1, <3>3
    <3>6. commits' = [commits EXCEPT ![d] = @ \cup {x}]
      BY <3>4
    <3>. HIDE DEF x, b
    <3>. QED  BY <3>5, <3>6 DEF ImportType
  <2>2. CASE ~Publish(d)
    <3>1. commits' = commits
      BY <2>2 DEF Undo, LateUndo, ReconcileUndo, TryRollback, RollbackImport, records
    <3>. QED  BY <3>1 DEF ImportType
  <2>. QED  BY <2>1, <2>2
<1>. QED  BY <1>1, <1>2, <1>3, <1>4, <1>5 DEF ImportType

\* Every step preserves the remaining types.
LEMMA TypesInductive == ASSUME ImportType, [Next]_vars PROVE ImportType'
<1>. DEFINE Calm == UNCHANGED <<receipt, aborted, deadline, swallowed, retained, epoch, commits>>
<1>1. ASSUME NEW d \in Deck, ReconcileBegin(d) PROVE ImportType'
  BY <1>1 DEF ImportType, ReconcileBegin, ReconcileGoes, NoRecords, NotJobs, jobVars, recordVars, records
<1>2. ASSUME NEW d \in Deck, ReconcileDrain(d) PROVE ImportType'
  BY <1>2 DEF ImportType, ReconcileDrain, ReconcileGoes, NotJobs, jobVars, records, DrainBegin, DrainEnd, DrainFails
<1>3. ASSUME NEW d \in Deck, ReconcileDelete(d) PROVE ImportType'
  BY <1>3 DEF ImportType, ReconcileDelete, ReconcileGoes, NotJobs, jobVars, records
<1>4. CASE OtherDrain
  <2>1. Calm /\ UNCHANGED <<reconcile, up, crashes, asked, reconciled>> /\ other' \in BOOLEAN
    BY <1>4 DEF OtherDrain, jobVars, records, DrainBegin, DrainEnd, DrainFails
  <2>. QED  BY <2>1 DEF ImportType
<1>5. CASE Apply
  <2>1. Calm /\ UNCHANGED <<reconcile, up, crashes, asked, reconciled, other>>
    BY <1>5 DEF Apply, jobVars, records, DrainApply, DrainAcknowledge
  <2>. QED  BY <2>1 DEF ImportType
<1>6. CASE Restart
  <2>1. Calm /\ UNCHANGED <<reconcile, crashes, asked, reconciled, other>> /\ up' \in {up, TRUE}
    BY <1>6 DEF Restart, jobVars, records, DrainBegin, DrainEnd, DrainFails
  <2>. QED  BY <2>1 DEF ImportType
<1>7. CASE Crash
  <2>1. /\ UNCHANGED <<receipt, swallowed, retained, epoch, commits, asked, reconciled>>
        /\ other' = FALSE /\ up' = FALSE /\ crashes' = crashes + 1 /\ crashes < MaxCrashes
        /\ aborted' = [d \in Deck |-> FALSE] /\ deadline' = [d \in Deck |-> FALSE]
        /\ reconcile' = [d \in Deck |-> "idle"]
    BY <1>7 DEF Crash, records
  <2>2. crashes' \in 0 .. MaxCrashes
    BY <2>1, ImportConstants DEF ImportType
  <2>. QED  BY <2>1, <2>2 DEF ImportType
<1>8. CASE UNCHANGED vars
  <2>1. Calm /\ UNCHANGED <<reconcile, up, crashes, asked, reconciled, other>>
    BY <1>8 DEF vars, recordVars, records, jobVars
  <2>. QED  BY <2>1 DEF ImportType
<1>9. ASSUME NEW d \in Deck, Publish(d) \/ Undo(d) \/ LateUndo(d) \/ ReconcileUndo(d) PROVE ImportType'
  BY <1>9, AuthorityTypes
<1>10. ASSUME NEW d \in Deck,
             \/ Admit(d) \/ UploadStep(d) \/ CancelJob(d) \/ Deadline(d) \/ Expire(d)
             \/ ParseEnds(d) \/ ParseFails(d) \/ CommitReturns(d) \/ CommitFails(d)
             \/ DrainStep(d) \/ Abandon(d) \/ Fail(d) \/ Settle(d)
      PROVE  ImportType'
  BY <1>10, JobTypes
<1>. QED  BY <1>1, <1>2, <1>3, <1>4, <1>5, <1>6, <1>7, <1>8, <1>9, <1>10
          DEF Next, CommitStep, EndStep, ReconcileStep

\* Nothing is queued, drained or listed.
LEMMA RowsInitially == Init => RInv /\ ImportType
<1>. SUFFICES ASSUME Init PROVE RInv /\ ImportType
  OBVIOUS
<1>. DEFINE free == [at |-> FaultPoints, left |-> MaxFaults]
            none == {}
<1>1. free \in [at : SUBSET FaultPoints, left : 0 .. MaxFaults]
  BY RecordsConstants
<1>. HIDE DEF free
<1>2. /\ NoDrain \in Drains /\ DOMAIN NoDrain.todo = {} /\ NoDrain.done = {} /\ NoDrain.bad = {}
      /\ NoDrain.by = Nobody
  BY NobodyDrains
<1>3. /\ outbox = <<>> /\ clock = 0 /\ lost = {} /\ rows = [d \in Deck |-> NoRow] /\ drain = NoDrain
      /\ faults = free /\ heads = [d \in Deck |-> NoHead]
  BY DEF Init, free
<1>4. outbox \in Seq(Writes) /\ DOMAIN outbox = {} /\ NoRow \in Nat
  BY <1>3 DEF NoRow
<1>5. QType
  BY <1>1, <1>2, <1>3, <1>4 DEF QType, QueueType
<1>6. ASSUME NEW d \in Deck PROVE DeckInv(d)
  <2>1. ~Queued(d) /\ ~ToDo(d) /\ ~DoneFor(d) /\ heads[d] = NoHead /\ rows[d] = NoRow
        /\ drain.by # ImportCall(d) /\ drain.by # ReconcileCall(d)
    BY <1>2, <1>3, <1>4, CallersApart DEF Queued, ToDo, DoneFor
  <2>2. /\ status[d] = "gone" /\ run[d] = "new" /\ stage[d] = "none" /\ ~late[d] /\ receipt[d] = "none"
        /\ reconcile[d] = "idle" /\ d \notin asked /\ d \notin reconciled
    BY DEF Init
  <2>. QED  BY <2>1, <2>2 DEF DeckInv, ListInv, FreshInv, DoneInv, ReconcileInv
<1>. HIDE DEF none
<1>7. ImportType
  <2>1. /\ retained \in [Owners -> Heads \cup {NoHead}] /\ epoch \in Nat \ {0}
        /\ commits \in [Deck -> SUBSET [gen : Nat, body : Body]]
    BY DEF Init
  <2>2. /\ receipt \in [Deck -> {"none", "committed", "rolled-back"}]
        /\ reconcile \in [Deck -> {"idle", "undo", "drain", "delete"}]
        /\ aborted \in [Deck -> BOOLEAN] /\ deadline \in [Deck -> BOOLEAN]
        /\ \A d \in Deck : reconcile[d] # "idle" => d \in asked
    BY DEF Init
  <2>3. other \in BOOLEAN /\ up \in BOOLEAN /\ crashes \in 0 .. MaxCrashes
    <3>1. crashes = 0 /\ other = FALSE /\ up = TRUE
      BY DEF Init
    <3>2. crashes \in 0 .. MaxCrashes
      BY <3>1, ImportConstants
    <3>3. other \in BOOLEAN /\ up \in BOOLEAN
      BY <3>1
    <3>. QED  BY <3>2, <3>3
  <2>4. swallowed = {} /\ reconciled = {} /\ asked = {}
    BY DEF Init
  <2>. QED  BY <2>1, <2>2, <2>3, <2>4 DEF ImportType
<1>. QED  BY <1>5, <1>6, <1>7 DEF RInv

\* The three invariants together.
LEMMA RowsInvariant == Spec => [](IInv /\ ImportType /\ RInv)
<1>1. Init => IInv /\ ImportType /\ RInv
  BY Initially, RowsInitially
<1>2. IInv /\ ImportType /\ RInv /\ [Next]_vars => (IInv /\ ImportType /\ RInv)'
  BY Inductive, TypesInductive, RowsInductive
<1>. QED  BY <1>1, <1>2, PTL DEF Spec

-----------------------------------------------------------------------------
(* The theorems *)

\* However imports are cancelled, time out or are cut off by a crash, the stages and
\* the clean-ups they leave behind never exceed the limit on running imports.
THEOREM LateWorkStaysWithinTheLimit == Spec => []LimitCoversLateWork
<1>1. IInv => LimitCoversLateWork
  <2>. SUFFICES ASSUME IInv PROVE LimitCoversLateWork
    OBVIOUS
  <2>. DEFINE W == {d \in Deck : Working(d)}
  <2>1. W \subseteq Counted
    BY DEF IInv, JobInv, Counted
  <2>2. /\ IsFiniteSet(W) /\ Cardinality(W) \in Nat
        /\ Cardinality(W) <= Cardinality(Counted)
    BY <2>1, CountedIsFinite, FS_Subset, FS_CardinalityType
  <2>3. runningCount <= MaxRunning
    BY DEF IInv
  <2>. HIDE DEF W
  <2>4. Cardinality(W) <= MaxRunning
    BY <2>2, <2>3, CountedIsFinite, ImportConstants
  <2>. QED  BY <2>4 DEF LimitCoversLateWork, W
<1>. QED  BY <1>1, Invariant, PTL

\* Every variable stays in its type.
THEOREM ImportsAreWellTyped == Spec => []TypeOK
<1>1. IInv /\ ImportType /\ RInv => TypeOK
  <2>. SUFFICES ASSUME IInv, ImportType, RInv PROVE TypeOK
    OBVIOUS
  <2>1. RecordsTypeOK
    BY DEF IInv, RecordsType, ImportType, RInv, QType, QueueType, Drains, RecordsTypeOK
  <2>2. JobsType
    BY DEF IInv
  <2>. QED  BY <2>1, <2>2 DEF TypeOK, ImportType, JobsType, Statuses, Runs, Stages, Awaits
<1>. QED  BY <1>1, RowsInvariant, PTL

\* An import that ended as failed or cancelled and has settled left no head, no
\* owned revision and no write in the outbox, unless an error of its commit or of its
\* rollback was swallowed: however its cancellation, its deadline and its stages met.
THEOREM AbandonedImportsLeaveNothing == Spec => []AbandonedLeavesNoHead
<1>1. IInv /\ ImportType /\ RInv => AbandonedLeavesNoHead
  <2>. SUFFICES ASSUME IInv, RInv, NEW d \in Deck, Abandoned(d)
                PROVE  NoAuthority(d) /\ \A i \in DOMAIN outbox : outbox[i].deck # d
    BY DEF AbandonedLeavesNoHead
  <2>1. JobInv(d) /\ AuthorityInv(d) /\ ListInv(d)
    BY DEF IInv, RInv, DeckInv
  <2>2. ~Answerable(d)
    BY <2>1 DEF JobInv, Working, Answerable, Abandoned
  <2>3. NoAuthority(d)
    BY <2>1, <2>2 DEF AuthorityInv, NoAuthority
  <2>4. ~Queued(d)
    BY <2>1, <2>3 DEF ListInv, NoAuthority
  <2>. QED  BY <2>3, <2>4 DEF Queued
<1>. QED  BY <1>1, RowsInvariant, PTL

\* A published deck whose writes are all through is listed, and what is reported as
\* done is listed from then on until its reconciliation is asked for, whichever
\* request drained the outbox and wherever the program was cut off.
THEOREM PublishedImportsAreListed == Spec => []PublishedIsListable
<1>1. IInv /\ ImportType /\ RInv => PublishedIsListable
  <2>. SUFFICES ASSUME RInv, NEW d \in Deck \ lost
                PROVE  /\ heads[d] # NoHead /\ ~InFlight(d) => rows[d] # NoRow
                       /\ status[d] = "done" /\ d \notin asked => heads[d] # NoHead /\ rows[d] # NoRow
    BY DEF PublishedIsListable
  <2>1. ListInv(d) /\ DoneInv(d)
    BY DEF RInv, DeckInv
  <2>. QED  BY <2>1 DEF ListInv, DoneInv, InFlight, Queued
<1>. QED  BY <1>1, RowsInvariant, PTL

\* A reconciliation that was answered leaves neither head nor row nor a write that
\* could bring the row back, for good.
THEOREM ReconciliationsAreFinal == Spec => []ReconciledLeavesNothing
<1>1. IInv /\ ImportType /\ RInv => ReconciledLeavesNothing
  <2>. SUFFICES ASSUME RInv, ImportType, NEW d \in reconciled
                PROVE  heads[d] = NoHead /\ rows[d] = NoRow /\ ~InFlight(d)
    BY DEF ReconciledLeavesNothing
  <2>1. ListInv(d) /\ ReconcileInv(d)
    BY DEF RInv, DeckInv, ImportType
  <2>. QED  BY <2>1 DEF ListInv, ReconcileInv, InFlight, Queued, ToDo
<1>. QED  BY <1>1, RowsInvariant, PTL

=============================================================================
