----------------------------- MODULE PackageImport -----------------------------
(***************************************************************************)
(* Importing a PPTX file: the admission of a job, the stages of runImport()*)
(* under cancellation and a deadline, the late results of stages that were *)
(* abandoned, the receipt of the job in the package store, and its         *)
(* reconciliation (routes/pptx-import.js, pptx-import-job-manager.js,      *)
(* package-store/import-commit.js).                                        *)
(*                                                                         *)
(* Every import makes a new deck, so a deck also names its job.  The body  *)
(* and the media of a deck are left out: its first head is all there is.   *)
(***************************************************************************)
EXTENDS PackageRecords

CONSTANTS
    MaxRunning,   \* MAX_CONCURRENT_RUNNING
    MaxCrashes    \* bound: crashes

ASSUME ImportConstants ==
    MaxRunning \in Nat \ {0} /\ MaxCrashes \in Nat /\ IsFiniteSet(Deck)

VARIABLES
    status,      \* status of each job of the job manager; "gone": no such job
    pending,     \* operationPending of each job
    run,         \* runImport() of each job: what it awaits
    stage,       \* the stage promise that has not settled
    aborted,     \* whether the signal of the job is aborted
    deadline,    \* deadlineExceeded
    late,        \* whether the clean-up of a late result is to come
    receipt,     \* the durable import job of the store
    reconcile,   \* POST /jobs/:jobId/reconcile
    other,       \* whether some other request drains the outbox
    up, crashes,
    swallowed,   \* history: decks an error was only logged for
    asked,       \* history: decks whose reconciliation was asked for
    reconciled   \* history: decks whose reconciliation was answered 200

jobVars == <<status, pending, run, stage, aborted, deadline, late>>
vars == <<recordVars, jobVars, receipt, reconcile, other, up, crashes, swallowed,
          asked, reconciled>>

-----------------------------------------------------------------------------
ImportCall(d) == <<"import", d>>
ReconcileCall(d) == <<"reconcile", d>>
OtherCall == <<"other">>
Startup == <<"startup">>
Callers == {OtherCall, Startup} \cup ({"import", "reconcile"} \X Deck)

ASSUME CallersAreDrainers == Callers \subseteq Caller

Terminal == {"done", "failed", "cancelled"}
Awaits == {"parse", "commit", "drain"}

TypeOK ==
    /\ RecordsTypeOK
    /\ status \in [Deck -> {"gone", "running", "cancelling"} \cup Terminal]
    /\ pending \in [Deck -> BOOLEAN]
    /\ run \in [Deck -> {"new", "upload", "abort", "fail", "undo", "settle",
                              "end"} \cup Awaits]
    /\ stage \in [Deck -> {"none", "prepare", "published"} \cup (Awaits \ {"commit"})]
    /\ aborted \in [Deck -> BOOLEAN] /\ deadline \in [Deck -> BOOLEAN]
    /\ late \in [Deck -> BOOLEAN]
    /\ receipt \in [Deck -> {"none", "committed", "rolled-back"}]
    /\ reconcile \in [Deck -> {"idle", "undo", "drain", "delete"}]
    /\ other \in BOOLEAN /\ up \in BOOLEAN /\ crashes \in 0 .. MaxCrashes
    /\ swallowed \subseteq Deck /\ reconciled \subseteq asked /\ asked \subseteq Deck

Init ==
    /\ heads = [d \in Deck |-> NoHead] /\ owned = [d \in Deck |-> {}]
    /\ retained = [o \in Owners |-> NoHead]
    /\ outbox = <<>> /\ epoch = 1 /\ clock = 0
    /\ rows = [d \in Deck |-> NoRow]
    /\ drain = NoDrain /\ faults = [at |-> FaultPoints, left |-> MaxFaults] /\ lost = {}
    /\ commits = [d \in Deck |-> {}]
    /\ status = [d \in Deck |-> "gone"] /\ pending = [d \in Deck |-> FALSE]
    /\ run = [d \in Deck |-> "new"] /\ stage = [d \in Deck |-> "none"]
    /\ aborted = [d \in Deck |-> FALSE] /\ deadline = [d \in Deck |-> FALSE]
    /\ late = [d \in Deck |-> FALSE] /\ receipt = [d \in Deck |-> "none"]
    /\ reconcile = [d \in Deck |-> "idle"]
    /\ other = FALSE /\ up = TRUE /\ crashes = 0
    /\ swallowed = {} /\ asked = {} /\ reconciled = {}

-----------------------------------------------------------------------------
(* The job manager *)

NoRecords == UNCHANGED <<recordVars, receipt>>
NotReconcile == UNCHANGED <<reconcile, other, up, crashes, asked, reconciled>>
Elsewhere == NotReconcile /\ UNCHANGED swallowed

\* Mutant: an operation that outlives its job is not counted.
RunningByStatus == Cardinality({d \in Deck : status[d] \in {"running", "cancelling"}})

runningCount ==
    Cardinality({d \in Deck : status[d] \in {"running", "cancelling"} \/ pending[d]})

\* POST /import: createJob(); 429 when the limit is reached.
Admit(d) ==
    /\ up /\ run[d] = "new" /\ runningCount < MaxRunning
    /\ status' = [status EXCEPT ![d] = "running"]
    /\ run' = [run EXCEPT ![d] = "upload"]
    /\ UNCHANGED <<pending, stage, aborted, deadline, late>> /\ NoRecords /\ Elsewhere

\* The upload is refused, times out or is broken off: releaseAdmissionSlot().
UploadFails(d) ==
    /\ run[d] = "upload"
    /\ status' = [status EXCEPT ![d] = "gone"]
    /\ run' = [run EXCEPT ![d] = "end"]
    /\ UNCHANGED <<pending, stage, aborted, deadline, late>> /\ NoRecords /\ Elsewhere

\* cancelJob(): the abort listener rejects the awaited stage at once.
CancelJob(d) ==
    /\ up /\ run[d] \notin {"new", "upload"} /\ status[d] = "running"
    /\ status' = [status EXCEPT ![d] = "cancelling"]
    /\ aborted' = [aborted EXCEPT ![d] = TRUE]
    /\ run' = [run EXCEPT ![d] = IF @ \in Awaits THEN "abort" ELSE @]
    /\ UNCHANGED <<pending, stage, deadline, late>> /\ NoRecords /\ Elsewhere

Deadline(d) ==
    /\ run[d] \in Awaits \cup {"abort", "fail", "undo"} /\ ~deadline[d]
    /\ deadline' = [deadline EXCEPT ![d] = TRUE]
    /\ aborted' = [aborted EXCEPT ![d] = TRUE]
    /\ run' = [run EXCEPT ![d] = IF @ \in Awaits THEN "abort" ELSE @]
    /\ UNCHANGED <<status, pending, stage, late>> /\ NoRecords /\ Elsewhere

\* JOB_TTL_MS after the end of a job whose operation has settled.
Expire(d) ==
    /\ status[d] \in Terminal /\ ~pending[d] /\ run[d] = "end"
    /\ status' = [status EXCEPT ![d] = "gone"]
    /\ UNCHANGED <<pending, run, stage, aborted, deadline, late>> /\ NoRecords /\ Elsewhere

-----------------------------------------------------------------------------
(* Records: publishImport() and rollbackImport() *)

\* Mutant: a new head has generation 0.
PublishImportAtZero(d) ==
    /\ SetHead(d, [FirstHead(CHOOSE b \in Body : TRUE) EXCEPT !.gen = 0, !.epoch = epoch])
    /\ owned' = [owned EXCEPT ![d] = RevisionsOf(FirstHead(CHOOSE b \in Body : TRUE))]
    /\ QueueUpsert(d, 0)
    /\ receipt' = [receipt EXCEPT ![d] = "committed"]
    /\ UNCHANGED <<retained, epoch, rows, drain, faults>>

PublishImport(d) ==
    LET h == [FirstHead(CHOOSE b \in Body : TRUE) EXCEPT !.epoch = epoch]
    IN  /\ SetHead(d, h)
        /\ owned' = [owned EXCEPT ![d] = RevisionsOf(h)]
        /\ QueueUpsert(d, h.gen)
        /\ receipt' = [receipt EXCEPT ![d] = "committed"]
        /\ UNCHANGED <<retained, epoch, rows, drain, faults>>

WritesOf(d) == {outbox[i] : i \in {j \in DOMAIN outbox : outbox[j].deck = d}}

\* Nothing to do when it was not published or is rolled back already.
RollbackImport(d) ==
    IF heads[d] # NoHead
    THEN /\ heads' = [heads EXCEPT ![d] = NoHead]
         /\ owned' = [owned EXCEPT ![d] = {}]
         /\ outbox' = Remaining(outbox, WritesOf(d))
         /\ receipt' = [receipt EXCEPT ![d] = "rolled-back"]
         /\ UNCHANGED <<retained, epoch, commits, clock, lost, rows, drain>>
    ELSE UNCHANGED <<records, queue, rows, drain, receipt>>

\* packageRollback() whose failure is swallowed.
TryRollback(d) ==
    \/ RollbackImport(d) /\ UNCHANGED <<faults, swallowed>>
    \/ /\ Fault("rollback") /\ swallowed' = swallowed \cup {d}
       /\ UNCHANGED <<records, queue, rows, drain, receipt>>

-----------------------------------------------------------------------------
(* runImport() *)

Start(d) ==
    /\ run[d] = "upload"
    /\ pending' = [pending EXCEPT ![d] = TRUE]
    /\ run' = [run EXCEPT ![d] = "parse"] /\ stage' = [stage EXCEPT ![d] = "parse"]
    /\ UNCHANGED <<status, aborted, deadline, late>> /\ NoRecords /\ Elsewhere

\* A result that comes after the abort is dropped.
ParseEnds(d) ==
    /\ stage[d] = "parse"
    /\ IF run[d] = "parse"
       THEN /\ run' = [run EXCEPT ![d] = "commit"]
            /\ stage' = [stage EXCEPT ![d] = "prepare"]
       ELSE UNCHANGED run /\ stage' = [stage EXCEPT ![d] = "none"]
    /\ UNCHANGED <<status, pending, aborted, deadline, late>> /\ NoRecords /\ Elsewhere

ParseFails(d) ==
    /\ stage[d] = "parse" /\ stage' = [stage EXCEPT ![d] = "none"]
    /\ run' = [run EXCEPT ![d] = IF @ = "parse" THEN "fail" ELSE @]
    /\ UNCHANGED <<status, pending, aborted, deadline, late>> /\ NoRecords /\ Elsewhere

\* commitImportedPackage() goes on when runImport() no longer waits for it.
Publish(d) ==
    /\ stage[d] = "prepare" /\ PublishImport(d)
    /\ stage' = [stage EXCEPT ![d] = "published"]
    /\ UNCHANGED <<status, pending, run, aborted, deadline, late>> /\ Elsewhere

\* Mutant: nobody looks at a result that comes late.
DroppedWhenLate(d) ==
    /\ stage' = [stage EXCEPT ![d] = "none"]
    /\ UNCHANGED <<status, pending, run, aborted, deadline, late>>

\* withAbort(): the result of a stage after the abort is cleaned up.
CleanedUpWhenLate(d) ==
    /\ stage' = [stage EXCEPT ![d] = "none"]
    /\ late' = [late EXCEPT ![d] = TRUE]
    /\ UNCHANGED <<status, pending, run, aborted, deadline>>

CommitReturns(d) ==
    /\ stage[d] = "published"
    /\ \/ /\ run[d] = "commit"
          /\ run' = [run EXCEPT ![d] = "drain"] /\ stage' = [stage EXCEPT ![d] = "drain"]
          /\ UNCHANGED <<status, pending, aborted, deadline, late>>
       \/ run[d] # "commit" /\ CleanedUpWhenLate(d)
    /\ NoRecords /\ Elsewhere

\* The rejection of a stage: it is undone, or only logged after the abort.
StageRejects(d, awaited) ==
    /\ stage' = [stage EXCEPT ![d] = "none"]
    /\ run' = [run EXCEPT ![d] = IF @ = awaited THEN "undo" ELSE @]
    /\ swallowed' = IF run[d] = awaited THEN swallowed ELSE swallowed \cup {d}
    /\ UNCHANGED <<status, pending, aborted, deadline, late>>

\* Before or after the head is published.
CommitFails(d) ==
    /\ stage[d] \in {"prepare", "published"} /\ Fault("commit")
    /\ StageRejects(d, "commit")
    /\ UNCHANGED <<records, queue, rows, drain, receipt>>
    /\ NotReconcile

DrainStarts(d) ==
    /\ stage[d] = "drain" /\ DrainBegin(ImportCall(d))
    /\ UNCHANGED <<jobVars, receipt>> /\ Elsewhere

\* completeJob()
Complete(d) ==
    /\ status' = [status EXCEPT ![d] = "done"]
    /\ run' = [run EXCEPT ![d] = "settle"] /\ stage' = [stage EXCEPT ![d] = "none"]
    /\ UNCHANGED <<pending, aborted, deadline, late>>

\* Mutant: the drain is not awaited.
DrainReturnsAtOnce(d) ==
    /\ stage[d] = "drain" /\ run[d] = "drain" /\ Complete(d)
    /\ NoRecords /\ Elsewhere

\* The commit of the media has nothing to wait for: the job completes at once.
DrainReturns(d) ==
    /\ stage[d] = "drain" /\ DrainEnd(ImportCall(d))
    /\ \/ run[d] = "drain" /\ Complete(d)
       \/ run[d] # "drain" /\ CleanedUpWhenLate(d)
    /\ UNCHANGED receipt /\ Elsewhere

DrainRejects(d) ==
    /\ stage[d] = "drain" /\ DrainFails(ImportCall(d))
    /\ StageRejects(d, "drain")
    /\ UNCHANGED receipt /\ NotReconcile

\* failJob(), completeCancellation() or finishAbortedJob(), after the media of the
\* import are removed.
Finish(d, outcome) ==
    /\ status' = [status EXCEPT ![d] = outcome]
    /\ run' = [run EXCEPT ![d] = "settle"]
    /\ UNCHANGED <<pending, stage, aborted, deadline, late>> /\ NoRecords /\ Elsewhere

Abandon(d) ==
    run[d] = "abort" /\ Finish(d, IF deadline[d] THEN "failed" ELSE "cancelled")

Fail(d) == run[d] = "fail" /\ Finish(d, "failed")

\* A stage was rejected: whether the job was aborted is asked after the rollback.
Undo(d) ==
    /\ run[d] = "undo" /\ TryRollback(d)
    /\ run' = [run EXCEPT ![d] = IF aborted[d] THEN "abort" ELSE "fail"]
    /\ UNCHANGED <<status, pending, stage, aborted, deadline, late>> /\ NotReconcile

LateUndo(d) ==
    /\ late[d] /\ late' = [late EXCEPT ![d] = FALSE] /\ TryRollback(d)
    /\ UNCHANGED <<status, pending, run, stage, aborted, deadline>> /\ NotReconcile

\* settleOperation(), when every stage and every clean-up has settled.
Settle(d) ==
    /\ run[d] = "settle" /\ stage[d] = "none" /\ ~late[d]
    /\ pending' = [pending EXCEPT ![d] = FALSE]
    /\ run' = [run EXCEPT ![d] = "end"]
    /\ UNCHANGED <<status, stage, aborted, deadline, late>> /\ NoRecords /\ Elsewhere

-----------------------------------------------------------------------------
(* POST /jobs/:jobId/reconcile, other drains, crashes *)

NotJobs == UNCHANGED <<jobVars, swallowed>>
ReconcileGoes(d, step) == reconcile' = [reconcile EXCEPT ![d] = step]

ReconcileBegin(d) ==
    /\ up /\ reconcile[d] = "idle"
    /\ status[d] \in Terminal \cup {"gone"} /\ receipt[d] # "none"
    /\ ReconcileGoes(d, "undo") /\ asked' = asked \cup {d}
    /\ NoRecords /\ NotJobs /\ UNCHANGED <<other, up, crashes, reconciled>>

ReconcileUndo(d) ==
    /\ reconcile[d] = "undo" /\ RollbackImport(d) /\ ReconcileGoes(d, "drain")
    /\ NotJobs /\ UNCHANGED <<faults, other, up, crashes, asked, reconciled>>

\* Mutant: the row is removed without a drain.
ReconcileSkipsDrain(d) ==
    /\ reconcile[d] = "drain" /\ ReconcileGoes(d, "delete")
    /\ NoRecords /\ NotJobs /\ UNCHANGED <<other, up, crashes, asked, reconciled>>

ReconcileDrain(d) ==
    /\ reconcile[d] = "drain"
    /\ \/ DrainBegin(ReconcileCall(d)) /\ UNCHANGED reconcile
       \/ DrainEnd(ReconcileCall(d)) /\ ReconcileGoes(d, "delete")
       \/ DrainFails(ReconcileCall(d)) /\ ReconcileGoes(d, "idle")
    /\ UNCHANGED receipt /\ NotJobs /\ UNCHANGED <<other, up, crashes, asked, reconciled>>

ReconcileDelete(d) ==
    /\ reconcile[d] = "delete" /\ ReconcileGoes(d, "idle")
    /\ rows' = [rows EXCEPT ![d] = NoRow]
    /\ reconciled' = reconciled \cup {d}
    /\ UNCHANGED <<records, queue, drain, faults, receipt>>
    /\ NotJobs /\ UNCHANGED <<other, up, crashes, asked>>

\* Any other request that drains the outbox, a save for instance.
OtherDrain ==
    /\ \/ up /\ ~other /\ outbox # <<>> /\ DrainBegin(OtherCall) /\ other' = TRUE
       \/ other /\ DrainEnd(OtherCall) /\ other' = FALSE
       \/ other /\ DrainFails(OtherCall) /\ other' = FALSE
    /\ UNCHANGED <<jobVars, receipt, reconcile, up, crashes, swallowed, asked,
                   reconciled>>

Apply ==
    /\ DrainApply \/ DrainAcknowledge
    /\ UNCHANGED <<jobVars, receipt, reconcile, other, up, crashes, swallowed, asked,
                   reconciled>>

Crash ==
    /\ up /\ crashes < MaxCrashes /\ crashes' = crashes + 1
    /\ up' = FALSE /\ drain' = NoDrain /\ other' = FALSE
    /\ status' = [d \in Deck |-> "gone"] /\ pending' = [d \in Deck |-> FALSE]
    /\ run' = [d \in Deck |-> IF run[d] = "new" THEN "new" ELSE "end"]
    /\ stage' = [d \in Deck |-> "none"] /\ late' = [d \in Deck |-> FALSE]
    /\ aborted' = [d \in Deck |-> FALSE] /\ deadline' = [d \in Deck |-> FALSE]
    /\ reconcile' = [d \in Deck |-> "idle"]
    /\ UNCHANGED <<records, queue, rows, faults, receipt, swallowed, asked,
                   reconciled>>

\* initializePackageStore() drains before requests are served.
Restart ==
    /\ ~up
    /\ \/ DrainBegin(Startup) /\ UNCHANGED up
       \/ DrainEnd(Startup) /\ up' = TRUE
       \/ DrainFails(Startup) /\ UNCHANGED up
    /\ UNCHANGED <<jobVars, receipt, reconcile, other, crashes, swallowed, asked,
                   reconciled>>

-----------------------------------------------------------------------------
UploadStep(d) == Start(d) \/ UploadFails(d)
CommitStep(d) == Publish(d) \/ CommitReturns(d) \/ CommitFails(d)
DrainStep(d) == DrainStarts(d) \/ DrainReturns(d) \/ DrainRejects(d)
EndStep(d) == Abandon(d) \/ Fail(d) \/ Undo(d) \/ Settle(d)
ReconcileStep(d) == ReconcileUndo(d) \/ ReconcileDrain(d) \/ ReconcileDelete(d)

Next ==
    \/ \E d \in Deck :
        \/ Admit(d) \/ UploadStep(d) \/ CancelJob(d) \/ Deadline(d) \/ Expire(d)
        \/ ParseEnds(d) \/ ParseFails(d) \/ CommitStep(d) \/ DrainStep(d)
        \/ EndStep(d) \/ LateUndo(d) \/ ReconcileBegin(d) \/ ReconcileStep(d)
    \/ OtherDrain \/ Apply \/ Crash \/ Restart

Spec == Init /\ [][Next]_vars

-----------------------------------------------------------------------------
(* Properties *)

Working(d) == stage[d] # "none" \/ late[d]
InFlight(d) ==
    \/ \E i \in DOMAIN outbox : outbox[i].deck = d
    \/ \E i \in DOMAIN drain.todo : drain.todo[i].deck = d
Abandoned(d) == status[d] \in {"failed", "cancelled"} /\ ~pending[d] /\ d \notin swallowed
NoAuthority(d) == heads[d] = NoHead /\ owned[d] = {}

\* The limit on running imports counts the work that a cancelled or timed out
\* import leaves behind, so that its late clean-up never meets another import.
LimitCoversLateWork == Cardinality({d \in Deck : Working(d)}) <= MaxRunning

\* A job that ended as failed or cancelled and has settled left no authority: no
\* head, no owned revision and no write to come, unless an error of its commit or
\* of its rollback was swallowed.
AbandonedLeavesNoHead ==
    \A d \in Deck :
        Abandoned(d) => NoAuthority(d) /\ \A i \in DOMAIN outbox : outbox[i].deck # d

\* A published import is not lost: when nothing of it is in flight its deck can be
\* listed, after a crash at any step too; and what GET /jobs/:jobId reports as done
\* can be opened at once, until somebody asks for its reconciliation: "Map `done`
\* is only set after package drain" (a deck whose write could not be applied
\* excepted).
PublishedIsListable ==
    \A d \in Deck \ lost :
        /\ heads[d] # NoHead /\ ~InFlight(d) => rows[d] # NoRow
        /\ status[d] = "done" /\ d \notin asked => heads[d] # NoHead /\ rows[d] # NoRow

\* A reconciliation that was answered 200 is complete and final, whatever drains
\* and late clean-ups were going on.
ReconciledLeavesNothing ==
    \A d \in reconciled : heads[d] = NoHead /\ rows[d] = NoRow /\ ~InFlight(d)

\* pptx-import.js:227-229: "rolled back means nothing was persisted".
RolledBackLeavesNothing ==
    \A d \in Deck :
        receipt[d] = "rolled-back" /\ run[d] = "end" /\ ~InFlight(d) => rows[d] = NoRow

=============================================================================
