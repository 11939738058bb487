-------------------------- MODULE MCServerRecords --------------------------
(***************************************************************************)
(* The records of the server and its clients in one run.  The components   *)
(* share no state, so a behaviour belongs to one of them, chosen at the    *)
(* start, while the others rest, instead of all their interleavings.       *)
(***************************************************************************)
EXTENDS MCAuditTrail, MCModeration, MCEntitlements, MCInboundWebhook,
        ChangeHistory, PurchaseDisputes, JobQueue, IdempotentRequest,
        OperationRecovery, MCMigrationRunner, UnlockRequest, DraftAutoSave

CONSTANTS h1, h2, n1, n2, k1, j1, j2, w1, w2, e1, e2, b1, b2,
          c1, c2, c3, p1, p2, u1, u2, s1, t1, x1, x2, v1, v2, y1, y2

TwoMutators == {h1, h2}
TwoCalls == {n1, n2}
OneKey == {k1}
TwoJobs == {j1, j2}
TwoJobWorkers == {w1, w2}
TwoEnqueuers == {e1, e2}
TwoAdmins == {b1, b2}
ThreeClients == {c1, c2, c3}
TwoPayloads == {p1, p2}
Answers == {[code |-> 200, body |-> "done"], [code |-> 500, body |-> "error"]}
TwoUsers == {u1, u2}
OneMaintainer == {s1}
OneChallenge == {t1}
TwoUnlocks == {x1, x2}
TwoTabs == {v1, v2}
TwoWallets == {y1, y2}

VARIABLE part \* the component this behaviour is about

Parts == {"audit", "history", "disputes", "jobs", "requests", "inbound",
          "moderation", "recovery", "entitlements", "migrations", "unlock", "drafts"}

RecordsInit ==
    /\ part \in Parts
    /\ AuditInit /\ HistoryInit /\ DisputeInit /\ JobInit /\ GateInit
    /\ InboundInit /\ ModerationInit /\ RecoveryInit /\ EntitlementInit
    /\ MigrationInit /\ UnlockInit /\ DraftInit
    /\ record.status = "failed" => part = "disputes"

RecordsNext ==
    /\ UNCHANGED part
    /\ IF part = "audit" THEN AuditNext ELSE UNCHANGED auditVars
    /\ IF part = "history" THEN HistoryNext ELSE UNCHANGED historyVars
    /\ IF part = "disputes" THEN DisputeNext ELSE UNCHANGED disputeVars
    /\ IF part = "jobs" THEN JobNext ELSE UNCHANGED jobVars
    /\ IF part = "requests" THEN GateNext ELSE UNCHANGED gateVars
    /\ IF part = "inbound" THEN InboundNext ELSE UNCHANGED inboundVars
    /\ IF part = "moderation" THEN ModerationNext ELSE UNCHANGED moderationVars
    /\ IF part = "recovery" THEN RecoveryNext ELSE UNCHANGED recoveryVars
    /\ IF part = "entitlements" THEN EntitlementNext ELSE UNCHANGED entitlementVars
    /\ IF part = "migrations" THEN MigrationNext ELSE UNCHANGED migrationVars
    /\ IF part = "unlock" THEN UnlockNext ELSE UNCHANGED unlockVars
    /\ IF part = "drafts" THEN DraftNext ELSE UNCHANGED draftVars

recordsVars ==
    <<part, auditVars, historyVars, disputeVars, jobVars, gateVars, inboundVars,
      moderationVars, recoveryVars, entitlementVars, migrationVars, unlockVars,
      draftVars>>

RecordsSpec == RecordsInit /\ [][RecordsNext]_recordsVars
=============================================================================
