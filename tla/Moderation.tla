----------------------------- MODULE Moderation -----------------------------
(***************************************************************************)
(* The moderation status of one prompt (server/src/controllers/            *)
(* moderationControllers.ts, services/moderationService.ts and             *)
(* safetyScannerHook.ts): bulk actions of moderators and their rollback,   *)
(* overrides of the safety scanner, and the scanner itself.  Every writer  *)
(* reads the status first and writes it unconditionally later.             *)
(***************************************************************************)
EXTENDS Integers, Sequences

CONSTANTS
    Moderators,  \* moderators' requests in flight
    Verdicts,    \* statuses the safety scanner may come to
    MaxDecisions, \* bound on the decisions recorded
    MaxUnmarked   \* bound on the rollbacks of a decision that fail halfway

VARIABLES
    promptStatus, \* Prompt.moderationStatus
    decisions,    \* the ModerationDecisions, each with the status it replaced
                  \* and how often a rollback has restored the previous one
                  \* (restores), or did and failed to mark it (unmarked)
    moderating,   \* what each request is about to do
    crossed       \* two requests, or one and a scan, were in flight at once

moderationVars == <<promptStatus, decisions, moderating, crossed>>

Actions == {"approve", "reject", "hide", "restore"}

\* ELIGIBLE_STATUSES
EligibleStatuses(action) ==
    CASE action = "approve" -> {"pending_review", "rejected"}
      [] action = "reject" -> {"pending_review", "approved"}
      [] action = "hide" -> {"pending_review", "approved", "rejected", "restored"}
      [] action = "restore" -> {"hidden", "rejected"}

\* RESULTING_STATUS
Resulting(action) ==
    CASE action = "approve" -> "approved"
      [] action = "reject" -> "rejected"
      [] action = "hide" -> "hidden"
      [] action = "restore" -> "restored"

Free == [pc |-> "free"]

ModerationInit ==
    /\ promptStatus = "pending_review"
    /\ decisions = <<>>
    /\ moderating = [m \in Moderators |-> Free]
    /\ crossed = FALSE

Turns(m, next) == moderating' = [moderating EXCEPT ![m] = next]

InFlight == \E m \in Moderators : moderating[m] # Free

-----------------------------------------------------------------------------
(* BulkModerationAction *)

\* Mutant: the candidates are not filtered by their status.
CandidateAny(action) == TRUE

Candidate(action) == promptStatus \in EligibleStatuses(action)

FindCandidate(m, action) ==
    /\ moderating[m] = Free
    /\ Candidate(action)
    /\ Turns(m, [pc |-> "apply", action |-> action, previous |-> promptStatus])
    /\ crossed' = (crossed \/ InFlight)
    /\ UNCHANGED <<promptStatus, decisions>>

ApplyAction(m) ==
    /\ moderating[m].pc = "apply"
    /\ promptStatus' = Resulting(moderating[m].action)
    /\ Turns(m, [pc |-> "record", action |-> moderating[m].action,
                 previous |-> moderating[m].previous, replaced |-> promptStatus])
    /\ UNCHANGED <<decisions, crossed>>

RecordDecision(m) ==
    /\ moderating[m].pc = "record"
    /\ Len(decisions) < MaxDecisions
    /\ decisions' = Append(decisions,
                           [action |-> moderating[m].action,
                            previous |-> moderating[m].previous,
                            replaced |-> moderating[m].replaced,
                            rolledBack |-> FALSE, restores |-> 0, unmarked |-> 0])
    /\ Turns(m, Free)
    /\ UNCHANGED <<promptStatus, crossed>>

-----------------------------------------------------------------------------
(* RollbackModerationDecision *)

\* Mutant: a decision can be rolled back again.
MayRollBackAgain(i) == TRUE

MayRollBack(i) == ~decisions[i].rolledBack

FindDecision(m, i) ==
    /\ moderating[m] = Free
    /\ MayRollBack(i)
    /\ Turns(m, [pc |-> "restore", decision |-> i])
    /\ crossed' = (crossed \/ InFlight)
    /\ UNCHANGED <<promptStatus, decisions>>

RestoreStatus(m) ==
    LET i == moderating[m].decision
    IN /\ moderating[m].pc = "restore"
       /\ promptStatus' = decisions[i].previous
       /\ decisions' = [decisions EXCEPT ![i].restores = @ + 1]
       /\ Turns(m, [pc |-> "mark", decision |-> i])
       /\ UNCHANGED crossed

MarkRolledBack(m) ==
    LET i == moderating[m].decision
    IN /\ moderating[m].pc = "mark"
       /\ decisions' = [decisions EXCEPT ![i].rolledBack = TRUE]
       /\ Turns(m, Free)
       /\ UNCHANGED <<promptStatus, crossed>>

\* The status has been restored, but the decision may be rolled back again.
MarkFails(m) ==
    LET i == moderating[m].decision
    IN /\ moderating[m].pc = "mark"
       /\ decisions[i].unmarked < MaxUnmarked
       /\ decisions' = [decisions EXCEPT ![i].unmarked = @ + 1]
       /\ Turns(m, Free)
       /\ UNCHANGED <<promptStatus, crossed>>

-----------------------------------------------------------------------------
(* OverrideModeration and applySafetyScan *)

\* validateOverride: only what the scanner has queued.
ReadOverride(m, action) ==
    /\ moderating[m] = Free
    /\ promptStatus = "pending"
    /\ action \in {"approve", "reject"}
    /\ Turns(m, [pc |-> "override", action |-> action])
    /\ crossed' = (crossed \/ InFlight)
    /\ UNCHANGED <<promptStatus, decisions>>

WriteOverride(m) ==
    /\ moderating[m].pc = "override"
    /\ promptStatus' = Resulting(moderating[m].action)
    /\ Turns(m, Free)
    /\ UNCHANGED <<decisions, crossed>>

\* statusFromVerdict: unscanned or allowed, queued, blocked.
Scan(verdict) ==
    /\ promptStatus' = verdict
    /\ crossed' = (crossed \/ InFlight)
    /\ UNCHANGED <<decisions, moderating>>

\* A crash or a failed write: what has been written stays.
RequestFails(m) ==
    /\ moderating[m].pc \notin {"free", "mark"}
    /\ Turns(m, Free)
    /\ UNCHANGED <<promptStatus, decisions, crossed>>

ModerationNext ==
    \/ \E m \in Moderators :
          \/ \E action \in Actions : FindCandidate(m, action) \/ ReadOverride(m, action)
          \/ ApplyAction(m) \/ RecordDecision(m)
          \/ \E i \in DOMAIN decisions : FindDecision(m, i)
          \/ RestoreStatus(m) \/ MarkRolledBack(m) \/ MarkFails(m)
          \/ WriteOverride(m)
          \/ RequestFails(m)
    \/ \E verdict \in Verdicts : Scan(verdict)

ModerationSpec == ModerationInit /\ [][ModerationNext]_moderationVars

-----------------------------------------------------------------------------
(* Properties *)

\* A decision is evidence of what happened to the prompt (ModerationDecision.ts
\* :49 "Prompt.moderationStatus value at the time this decision was made"), and
\* its rollback can rely on it: the action was allowed on the status it
\* replaced, that status is the one recorded, and it is restored once, and once
\* more for every rollback that restored it and then failed to mark the decision
\* (moderationControllers.ts:360-380, two writes).  All of it holds only as long
\* as no two requests were in flight at once, and no scan during one.
DecisionsFaithful ==
    ~crossed => \A i \in DOMAIN decisions :
        /\ decisions[i].previous = decisions[i].replaced
        /\ decisions[i].replaced \in EligibleStatuses(decisions[i].action)
        /\ decisions[i].restores <= decisions[i].unmarked + 1

\* moderationControllers.ts:14-19 "Bulk actions only apply to prompts whose
\* current `moderationStatus` matches the expected pre-condition for the
\* requested action [...]. Prompts that have moved to a different state since
\* the moderator loaded the queue are counted as `skipped`": no bulk action is
\* applied to a prompt that is in another status by then.
AppliedToEligibleOnly ==
    \A m \in Moderators : moderating[m].pc = "record" =>
        moderating[m].replaced \in EligibleStatuses(moderating[m].action)
=============================================================================
