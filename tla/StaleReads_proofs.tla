------------------------- MODULE StaleReads_proofs --------------------------
(***************************************************************************)
(* Proofs about the records that are read in one step and written in a     *)
(* later one: the retries of an operation (OperationRecovery), the         *)
(* decisions of moderators (Moderation) and the repair of an entitlement   *)
(* (Entitlements).  What each of them promises holds as long as nothing    *)
(* comes between the read and the write, and the invariants say what a     *)
(* request in flight then still knows.                                     *)
(***************************************************************************)
EXTENDS OperationRecovery, Moderation, Entitlements, SequenceTheorems,
        TLAPS

-----------------------------------------------------------------------------
(***************************************************************************)
(* Retries.  While no retry has been granted beside another one, a request *)
(* in flight still knows the retry count.                                  *)
(***************************************************************************)

Checkpoints == [state : StepStates, retries : Nat]

RetryCalls ==
    {NoCall} \cup [pc : {"evaluate", "resume", "refuse"}, read : Checkpoints]

RecoveryTypes ==
    /\ checkpoint \in Checkpoints
    /\ retrying \in [Users -> RetryCalls]
    /\ saving \in [Maintainers -> {NoCall} \cup
                                  [pc : {"save"}, read : StepStates, state : StepStates]]
    /\ granted \in Nat
    /\ doubled \in BOOLEAN

\* What a call r knows.
KnowsRetries(r) ==
    /\ r # NoCall => r.read.retries = checkpoint.retries
    /\ r.pc = "resume" => checkpoint.retries < MaxRetry

RetriesKnown ==
    ~doubled =>
       /\ granted = checkpoint.retries /\ granted <= MaxRetry
       /\ \A u \in Users : KnowsRetries(retrying[u])

RecoveryInv == RecoveryTypes /\ RetriesKnown

LEMMA SavedStateType ==
    ASSUME NEW read, NEW state \in StepStates, RecoveryTypes
    PROVE  SavedState(read, state) \in StepStates
BY DEF SavedState, RecoveryTypes, Checkpoints

LEMMA RecoveryInvInit == RecoveryInit => RecoveryInv
<1> SUFFICES ASSUME RecoveryInit PROVE RecoveryInv
  OBVIOUS
<1>1. RecoveryTypes
  BY DEF RecoveryInit, RecoveryTypes, Checkpoints, RetryCalls, StepStates
<1>2. RetriesKnown
  <2>1. NoCall.pc # "resume"
    BY DEF NoCall
  <2> QED
    BY <2>1, RetryAssumption DEF RecoveryInit, RetriesKnown, KnowsRetries
<1> QED BY <1>1, <1>2 DEF RecoveryInv

LEMMA RecoveryInvStep == RecoveryInv /\ [RecoveryNext]_recoveryVars => RecoveryInv'
<1> SUFFICES ASSUME RecoveryInv, [RecoveryNext]_recoveryVars PROVE RecoveryInv'
  OBVIOUS
<1> USE DEF RecoveryInv
<1>1. ASSUME NEW m \in Maintainers, NEW state \in StepStates, FindCheckpoint(m, state)
      PROVE  RecoveryInv'
  <2>1. RecoveryTypes'
    BY <1>1 DEF FindCheckpoint, RecoveryTypes, Checkpoints
  <2>2. RetriesKnown'
    BY <1>1 DEF FindCheckpoint, RetriesKnown, KnowsRetries
  <2> QED BY <2>1, <2>2
<1>2. ASSUME NEW m \in Maintainers, SaveState(m)
      PROVE  RecoveryInv'
  <2>1. saving[m].state \in StepStates
    BY <1>2 DEF SaveState, RecoveryTypes, NoCall
  <2>2. SavedState(saving[m].read, saving[m].state) \in StepStates
    BY <2>1, SavedStateType
  <2>3. RecoveryTypes' /\ checkpoint'.retries = checkpoint.retries
    BY <1>2, <2>2 DEF SaveState, RecoveryTypes, Checkpoints
  <2>4. RetriesKnown'
    BY <1>2, <2>3 DEF SaveState, RetriesKnown, KnowsRetries
  <2> QED BY <2>3, <2>4
<1>3. ASSUME NEW u \in Users, FindForRetry(u)
      PROVE  RecoveryInv'
  <2>1. RecoveryTypes'
    BY <1>3 DEF FindForRetry, RecoveryTypes, RetryCalls
  <2>2. RetriesKnown'
    BY <1>3 DEF FindForRetry, RetriesKnown, KnowsRetries, RecoveryTypes
  <2> QED BY <2>1, <2>2
<1>4. ASSUME NEW u \in Users, EvaluateRecovery(u)
      PROVE  RecoveryInv'
  <2>1. retrying[u].read \in Checkpoints /\ retrying[u] # NoCall
    BY <1>4 DEF EvaluateRecovery, RecoveryTypes, RetryCalls, NoCall
  <2>2. RecoveryTypes'
    BY <1>4, <2>1 DEF EvaluateRecovery, RecoveryTypes, RetryCalls
  <2>3. ASSUME ~doubled', NEW v \in Users
        PROVE  KnowsRetries(retrying[v])'
    <3>1. checkpoint' = checkpoint /\ ~doubled /\ KnowsRetries(retrying[v])
      BY <1>4, <2>3 DEF EvaluateRecovery, RetriesKnown
    <3>2. CASE v # u
      BY <1>4, <3>1, <3>2 DEF EvaluateRecovery, KnowsRetries, RecoveryTypes
    <3>3. CASE v = u
      <4>1. CASE CanResume
        <5>1. retrying'[u] = [pc |-> "resume", read |-> retrying[u].read]
          BY <1>4, <4>1 DEF EvaluateRecovery, RecoveryTypes
        <5> QED BY <2>1, <3>1, <3>3, <4>1, <5>1 DEF KnowsRetries, CanResume
      <4>2. CASE ~CanResume
        <5>1. \/ retrying'[u] = [pc |-> "refuse", read |-> retrying[u].read]
              \/ retrying'[u] = NoCall
          BY <1>4, <4>2 DEF EvaluateRecovery, RecoveryTypes
        <5>2. NoCall.pc # "resume"
          BY DEF NoCall
        <5> QED BY <2>1, <3>1, <3>3, <5>1, <5>2 DEF KnowsRetries
      <4> QED BY <4>1, <4>2
    <3> QED BY <3>2, <3>3
  <2>4. RetriesKnown'
    BY <1>4, <2>3 DEF EvaluateRecovery, RetriesKnown
  <2> QED BY <2>2, <2>4
<1>5. ASSUME NEW u \in Users, SaveRetry(u)
      PROVE  RecoveryInv'
  <2>1. retrying[u].read \in Checkpoints /\ retrying[u] # NoCall
    BY <1>5 DEF SaveRetry, RecoveryTypes, RetryCalls, NoCall
  <2>2. SavedState(retrying[u].read.state, "RETRYABLE") \in StepStates
    BY SavedStateType DEF StepStates
  <2>3. RecoveryTypes'
    BY <1>5, <2>1, <2>2 DEF SaveRetry, RecoveryTypes, RetryCalls, Checkpoints
  <2>4. ASSUME ~doubled'
        PROVE  granted' = checkpoint'.retries /\ granted' <= MaxRetry
    BY <1>5, <2>1, <2>4, RetryAssumption
       DEF SaveRetry, RecoveryTypes, RetriesKnown, KnowsRetries, Checkpoints
  <2>5. ASSUME ~doubled', NEW v \in Users
        PROVE  KnowsRetries(retrying[v])'
    <3>1. retrying'[v] = NoCall
      BY <1>5, <2>5 DEF SaveRetry, RecoveryTypes
    <3>2. NoCall.pc # "resume"
      BY DEF NoCall
    <3> QED BY <3>1, <3>2 DEF KnowsRetries
  <2>6. RetriesKnown'
    BY <2>4, <2>5 DEF RetriesKnown
  <2> QED BY <2>3, <2>6
<1>6. ASSUME NEW u \in Users, SaveRefusal(u)
      PROVE  RecoveryInv'
  <2>1. SavedState(retrying[u].read.state, "MANUALLY_REVIEWED") \in StepStates
    BY SavedStateType DEF StepStates
  <2>2. RecoveryTypes' /\ checkpoint'.retries = checkpoint.retries
    BY <1>6, <2>1 DEF SaveRefusal, RecoveryTypes, RetryCalls, Checkpoints
  <2>3. RetriesKnown'
    BY <1>6, <2>2 DEF SaveRefusal, RecoveryTypes, RetriesKnown, KnowsRetries, NoCall
  <2> QED BY <2>2, <2>3
<1>7. CASE UNCHANGED recoveryVars
  BY <1>7 DEF recoveryVars, RecoveryTypes, RetriesKnown, KnowsRetries
<1> QED
  BY <1>1, <1>2, <1>3, <1>4, <1>5, <1>6, <1>7 DEF RecoveryNext

(* No more than maxRetries retries are granted and each one is counted,    *)
(* whatever maintainers save in between, unless two retry requests overlap *)
(* (userRetry, operationRecoveryService.ts).                               *)
THEOREM RetriesAreBounded == RecoverySpec => []RetriesBounded
<1>1. RecoveryInv => RetriesBounded
  BY DEF RecoveryInv, RetriesKnown, RetriesBounded
<1> QED
  BY RecoveryInvInit, RecoveryInvStep, <1>1, PTL DEF RecoverySpec

-----------------------------------------------------------------------------
(***************************************************************************)
(* Moderation.  While no two requests have been in flight at once, and no  *)
(* scan during one, the only request in flight still knows the status of   *)
(* the prompt and that the decision it rolls back has not been.            *)
(***************************************************************************)

Statuses ==
    {"pending_review", "approved", "rejected", "hidden", "restored"} \cup Verdicts

Decisions ==
    [action : Actions, previous : Statuses, replaced : Statuses,
     rolledBack : BOOLEAN, restores : Nat, unmarked : Nat]

Requests ==
    {Free} \cup [pc : {"apply"}, action : Actions, previous : Statuses]
           \cup [pc : {"record"}, action : Actions, previous : Statuses,
                 replaced : Statuses]
           \cup [pc : {"restore", "mark"}, decision : Nat]
           \cup [pc : {"override"}, action : Actions]

ModerationTypes ==
    /\ promptStatus \in Statuses
    /\ decisions \in Seq(Decisions)
    /\ moderating \in [Moderators -> Requests]
    /\ \A m \in Moderators :
          moderating[m].pc \in {"restore", "mark"} =>
             moderating[m].decision \in DOMAIN decisions

\* What a request r knows.
KnowsStatus(r) ==
    /\ r.pc = "apply" =>
          r.previous = promptStatus /\ promptStatus \in EligibleStatuses(r.action)
    /\ r.pc = "record" =>
          r.previous = r.replaced /\ r.replaced \in EligibleStatuses(r.action)
    /\ r.pc \in {"restore", "mark"} => ~decisions[r.decision].rolledBack

\* A rollback of decision i has restored the status and not marked it yet.
Marks(i) ==
    \E m \in Moderators : moderating[m].pc = "mark" /\ moderating[m].decision = i

\* Every restore of a decision that can still be rolled back was one whose mark
\* failed, but for the one that is about to be marked.
DecisionFaithful(i) ==
    /\ decisions[i].previous = decisions[i].replaced
    /\ decisions[i].replaced \in EligibleStatuses(decisions[i].action)
    /\ decisions[i].restores <= decisions[i].unmarked + 1
    /\ ~decisions[i].rolledBack /\ ~Marks(i) =>
          decisions[i].restores <= decisions[i].unmarked

StatusKnown ==
    ~crossed =>
       /\ \A m, n \in Moderators : moderating[m] # Free /\ moderating[n] # Free => m = n
       /\ \A m \in Moderators : KnowsStatus(moderating[m])
       /\ \A i \in DOMAIN decisions : DecisionFaithful(i)

ModerationInv == ModerationTypes /\ StatusKnown

LEMMA ResultingIsStatus ==
    ASSUME NEW action \in Actions
    PROVE  Resulting(action) \in Statuses
BY DEF Actions, Resulting, Statuses

LEMMA FreeKnowsAll == KnowsStatus(Free) /\ KnowsStatus(Free)'
BY DEF KnowsStatus, Free

LEMMA FreeIsRequest == Free \in Requests /\ Free.pc = "free"
BY DEF Requests, Free

\* Turns of a request that is not, and does not get, at the mark.
LEMMA MarksSame ==
    ASSUME ModerationTypes, NEW m \in Moderators, NEW r, Turns(m, r),
           moderating[m].pc # "mark", r.pc # "mark"
    PROVE  \A i : Marks(i)' <=> Marks(i)
<1>1. /\ moderating'[m] = r
      /\ \A n \in Moderators : n # m => moderating'[n] = moderating[n]
  BY DEF ModerationTypes, Turns
<1>2. \A n \in Moderators :
         /\ moderating'[n].pc = "mark" => moderating'[n] = moderating[n]
         /\ moderating[n].pc = "mark" => moderating'[n] = moderating[n]
  BY <1>1
<1> QED BY <1>2 DEF Marks

LEMMA FaithfulStay ==
    ASSUME \A i \in DOMAIN decisions : DecisionFaithful(i), UNCHANGED decisions,
           \A i : Marks(i)' <=> Marks(i)
    PROVE  \A i \in DOMAIN decisions' : DecisionFaithful(i)'
BY DEF DecisionFaithful

\* A request that begins: it is alone, unless it has crossed another one.
LEMMA BeginKnown ==
    ASSUME ModerationTypes, StatusKnown, UNCHANGED <<promptStatus, decisions>>,
           NEW m \in Moderators, NEW r, Turns(m, r),
           crossed' = (crossed \/ InFlight), r.pc # "mark",
           ~crossed => KnowsStatus(r)
    PROVE  StatusKnown'
<1> SUFFICES ASSUME ~crossed' PROVE StatusKnown'
  BY DEF StatusKnown
<1>1. /\ moderating' = [moderating EXCEPT ![m] = r]
      /\ DOMAIN moderating = Moderators
      /\ ~crossed
      /\ \A n \in Moderators : moderating[n] = Free
  BY DEF ModerationTypes, Turns, InFlight
<1>2. ASSUME NEW v \in Moderators, NEW n \in Moderators,
             moderating'[v] # Free, moderating'[n] # Free
      PROVE  v = n
  BY <1>1, <1>2
<1>3. ASSUME NEW n \in Moderators
      PROVE  KnowsStatus(moderating[n])'
  <2>1. CASE n = m
    BY <1>1, <2>1 DEF KnowsStatus
  <2>2. CASE n # m
    BY <1>1, <2>2, FreeKnowsAll
  <2> QED BY <2>1, <2>2
<1>4. \A i \in DOMAIN decisions' : DecisionFaithful(i)'
  <2>1. moderating[m].pc # "mark"
    BY <1>1, FreeIsRequest
  <2> QED BY <1>1, <2>1, MarksSame, FaithfulStay DEF StatusKnown
<1> QED BY <1>2, <1>3, <1>4 DEF StatusKnown

\* A request that goes on: it is the only one, so it may change everything.
LEMMA ContinueKnown ==
    ASSUME ModerationTypes, StatusKnown, UNCHANGED crossed,
           NEW m \in Moderators, NEW r, moderating[m] # Free, Turns(m, r),
           ~crossed => /\ KnowsStatus(r)'
                       /\ \A i \in DOMAIN decisions' : DecisionFaithful(i)'
    PROVE  StatusKnown'
<1> SUFFICES ASSUME ~crossed' PROVE StatusKnown'
  BY DEF StatusKnown
<1>1. /\ moderating' = [moderating EXCEPT ![m] = r]
      /\ DOMAIN moderating = Moderators
      /\ ~crossed
      /\ \A n \in Moderators : n # m => moderating[n] = Free
  BY DEF ModerationTypes, Turns, StatusKnown
<1>2. ASSUME NEW v \in Moderators, NEW n \in Moderators,
             moderating'[v] # Free, moderating'[n] # Free
      PROVE  v = n
  BY <1>1, <1>2
<1>3. ASSUME NEW n \in Moderators
      PROVE  KnowsStatus(moderating[n])'
  <2>1. CASE n = m
    BY <1>1, <2>1
  <2>2. CASE n # m
    BY <1>1, <2>2, FreeKnowsAll
  <2> QED BY <2>1, <2>2
<1> QED BY <1>1, <1>2, <1>3 DEF StatusKnown

\* A turn that leaves the decisions alone.
LEMMA TurnTypes ==
    ASSUME ModerationTypes, UNCHANGED decisions, promptStatus' \in Statuses,
           NEW m \in Moderators, NEW r \in Requests, Turns(m, r),
           r.pc \in {"restore", "mark"} => r.decision \in DOMAIN decisions
    PROVE  ModerationTypes'
BY DEF ModerationTypes, Turns

LEMMA DecisionAt ==
    ASSUME ModerationTypes, NEW i \in DOMAIN decisions
    PROVE  decisions[i] \in Decisions
BY DEF ModerationTypes

\* A step that changes one decision.
LEMMA DecisionChanges ==
    ASSUME ModerationTypes, NEW i \in DOMAIN decisions, NEW d \in Decisions,
           decisions' = [decisions EXCEPT ![i] = d]
    PROVE  /\ decisions' \in Seq(Decisions)
           /\ DOMAIN decisions' = DOMAIN decisions
           /\ \A k \in DOMAIN decisions : k # i => decisions'[k] = decisions[k]
           /\ decisions'[i] = d
BY DEF ModerationTypes

LEMMA RequestFields ==
    ASSUME ModerationTypes, NEW m \in Moderators
    PROVE  /\ moderating[m].pc = "apply" =>
                 moderating[m].action \in Actions /\ moderating[m].previous \in Statuses
           /\ moderating[m].pc = "record" =>
                 /\ moderating[m].action \in Actions
                 /\ moderating[m].previous \in Statuses
                 /\ moderating[m].replaced \in Statuses
           /\ moderating[m].pc = "override" => moderating[m].action \in Actions
           /\ moderating[m].pc \in {"restore", "mark"} =>
                 moderating[m].decision \in DOMAIN decisions
           /\ moderating[m].pc # "free" => moderating[m] # Free
BY DEF ModerationTypes, Requests, Free

LEMMA ModerationInvInit == ModerationInit => ModerationInv
<1> SUFFICES ASSUME ModerationInit PROVE ModerationInv
  OBVIOUS
<1>1. ModerationTypes
  BY FreeIsRequest DEF ModerationInit, ModerationTypes, Statuses
<1>2. StatusKnown
  BY FreeKnowsAll DEF ModerationInit, StatusKnown
<1> QED BY <1>1, <1>2 DEF ModerationInv

LEMMA ModerationInvStep == ModerationInv /\ [ModerationNext]_moderationVars => ModerationInv'
<1> SUFFICES ASSUME ModerationInv, [ModerationNext]_moderationVars PROVE ModerationInv'
  OBVIOUS
<1> USE DEF ModerationInv
<1>1. ASSUME NEW m \in Moderators, NEW action \in Actions, FindCandidate(m, action)
      PROVE  ModerationInv'
  <2> DEFINE r == [pc |-> "apply", action |-> action, previous |-> promptStatus]
  <2>1. r \in Requests /\ r.pc = "apply"
    BY DEF ModerationTypes, Requests
  <2>2. KnowsStatus(r)
    BY <1>1 DEF FindCandidate, Candidate, KnowsStatus
  <2>3. /\ Turns(m, r)
        /\ UNCHANGED <<promptStatus, decisions>>
        /\ crossed' = (crossed \/ InFlight)
    BY <1>1 DEF FindCandidate
  <2> HIDE DEF r
  <2>4. ModerationTypes'
    BY <2>1, <2>3, TurnTypes DEF ModerationTypes
  <2> QED BY <2>1, <2>2, <2>3, <2>4, BeginKnown
<1>2. ASSUME NEW m \in Moderators, NEW action \in Actions, ReadOverride(m, action)
      PROVE  ModerationInv'
  <2> DEFINE r == [pc |-> "override", action |-> action]
  <2>1. r \in Requests /\ r.pc = "override"
    BY DEF Requests
  <2>2. KnowsStatus(r)
    BY DEF KnowsStatus
  <2>3. /\ Turns(m, r)
        /\ UNCHANGED <<promptStatus, decisions>>
        /\ crossed' = (crossed \/ InFlight)
    BY <1>2 DEF ReadOverride
  <2> HIDE DEF r
  <2>4. ModerationTypes'
    BY <2>1, <2>3, TurnTypes DEF ModerationTypes
  <2> QED BY <2>1, <2>2, <2>3, <2>4, BeginKnown
<1>3. ASSUME NEW m \in Moderators, ApplyAction(m)
      PROVE  ModerationInv'
  <2>1. PICK r : r = [pc |-> "record", action |-> moderating[m].action,
                      previous |-> moderating[m].previous, replaced |-> promptStatus]
    OBVIOUS
  <2>2. /\ moderating[m].action \in Actions
        /\ moderating[m].previous \in Statuses
        /\ moderating[m] # Free
    BY <1>3, RequestFields DEF ApplyAction
  <2>3. r \in Requests /\ r.pc = "record"
    BY <2>1, <2>2 DEF Requests, ModerationTypes
  <2>4. /\ Turns(m, r)
        /\ UNCHANGED <<decisions, crossed>>
        /\ promptStatus' \in Statuses
    BY <1>3, <2>1, <2>2, ResultingIsStatus DEF ApplyAction
  <2>5. ~crossed => KnowsStatus(r)'
    BY <1>3, <2>1 DEF ApplyAction, StatusKnown, KnowsStatus
  <2>6. ~crossed => \A i \in DOMAIN decisions' : DecisionFaithful(i)'
    BY <1>3, <2>3, <2>4, MarksSame, FaithfulStay DEF StatusKnown, ApplyAction
  <2>7. ModerationTypes'
    BY <2>3, <2>4, TurnTypes
  <2> QED BY <2>2, <2>4, <2>5, <2>6, <2>7, ContinueKnown
<1>4. ASSUME NEW m \in Moderators, RecordDecision(m)
      PROVE  ModerationInv'
  <2> DEFINE d == [action |-> moderating[m].action, previous |-> moderating[m].previous,
                   replaced |-> moderating[m].replaced,
                   rolledBack |-> FALSE, restores |-> 0, unmarked |-> 0]
  <2>1. d \in Decisions /\ moderating[m] # Free
    BY <1>4, RequestFields DEF RecordDecision, Decisions
  <2>2. /\ Turns(m, Free)
        /\ UNCHANGED <<promptStatus, crossed>>
        /\ decisions' = Append(decisions, d)
    BY <1>4 DEF RecordDecision
  <2>3. /\ ~crossed => d.previous = d.replaced /\ d.replaced \in EligibleStatuses(d.action)
        /\ d.restores = 0 /\ d.unmarked = 0
    BY <1>4 DEF RecordDecision, StatusKnown, KnowsStatus
  <2> HIDE DEF d
  <2>4. /\ decisions' \in Seq(Decisions)
        /\ DOMAIN decisions \subseteq DOMAIN decisions'
        /\ \A i \in DOMAIN decisions' :
              decisions'[i] = d \/ (i \in DOMAIN decisions /\ decisions'[i] = decisions[i])
    BY <2>1, <2>2 DEF ModerationTypes
  <2>5. ModerationTypes'
    BY <2>2, <2>4, FreeIsRequest DEF ModerationTypes, Turns
  <2>6. ~crossed => \A i \in DOMAIN decisions' : DecisionFaithful(i)'
    <3>1. \A i : Marks(i)' <=> Marks(i)
      BY <1>4, <2>2, FreeIsRequest, MarksSame DEF RecordDecision
    <3> QED BY <2>3, <2>4, <3>1 DEF StatusKnown, DecisionFaithful
  <2> QED BY <2>1, <2>2, <2>5, <2>6, FreeKnowsAll, ContinueKnown
<1>5. ASSUME NEW m \in Moderators, NEW i \in DOMAIN decisions, FindDecision(m, i)
      PROVE  ModerationInv'
  <2> DEFINE r == [pc |-> "restore", decision |-> i]
  <2>1. r \in Requests /\ r.decision = i /\ r.pc = "restore"
    BY DEF Requests, ModerationTypes
  <2>2. KnowsStatus(r)
    BY <1>5 DEF FindDecision, MayRollBack, KnowsStatus
  <2>3. /\ Turns(m, r)
        /\ UNCHANGED <<promptStatus, decisions>>
        /\ crossed' = (crossed \/ InFlight)
    BY <1>5 DEF FindDecision
  <2> HIDE DEF r
  <2>4. ModerationTypes'
    BY <2>1, <2>3, TurnTypes DEF ModerationTypes
  <2> QED BY <2>1, <2>2, <2>3, <2>4, BeginKnown
<1>6. ASSUME NEW m \in Moderators, RestoreStatus(m)
      PROVE  ModerationInv'
  <2>1. PICK i : i = moderating[m].decision
    OBVIOUS
  <2>2. PICK r : r = [pc |-> "mark", decision |-> i]
    OBVIOUS
  <2>3. i \in DOMAIN decisions /\ moderating[m] # Free /\ moderating[m].pc = "restore"
    BY <1>6, <2>1, RequestFields DEF RestoreStatus
  <2>4. r \in Requests /\ r.decision = i /\ r.pc = "mark"
    BY <2>2, <2>3 DEF Requests, ModerationTypes
  <2>5. /\ decisions[i] \in Decisions /\ decisions[i].previous \in Statuses
        /\ decisions[i].rolledBack \in BOOLEAN /\ decisions[i].unmarked \in Nat
        /\ decisions[i].restores + 1 \in Nat
    BY <2>3, DecisionAt DEF Decisions
  <2>6. /\ Turns(m, r)
        /\ UNCHANGED crossed
        /\ promptStatus' \in Statuses
        /\ decisions' = [decisions EXCEPT ![i].restores = @ + 1]
    BY <1>6, <2>1, <2>2, <2>5 DEF RestoreStatus
  <2>7. PICK d \in Decisions :
           /\ decisions' = [decisions EXCEPT ![i] = d]
           /\ d.previous = decisions[i].previous /\ d.replaced = decisions[i].replaced
           /\ d.action = decisions[i].action /\ d.rolledBack = decisions[i].rolledBack
           /\ d.restores = decisions[i].restores + 1
           /\ d.unmarked = decisions[i].unmarked
    <3>1. PICK d : d = [decisions[i] EXCEPT !.restores = @ + 1]
      OBVIOUS
    <3>2. /\ d \in Decisions
          /\ d.previous = decisions[i].previous /\ d.replaced = decisions[i].replaced
          /\ d.action = decisions[i].action /\ d.rolledBack = decisions[i].rolledBack
          /\ d.restores = decisions[i].restores + 1
          /\ d.unmarked = decisions[i].unmarked
      BY <2>5, <3>1 DEF Decisions
    <3>3. decisions' = [decisions EXCEPT ![i] = d]
      BY <2>3, <2>6, <3>1
    <3> QED BY <3>2, <3>3
  <2>8. /\ decisions' \in Seq(Decisions)
        /\ DOMAIN decisions' = DOMAIN decisions
        /\ \A k \in DOMAIN decisions : k # i => decisions'[k] = decisions[k]
        /\ decisions'[i] = d
    BY <2>3, <2>7, DecisionChanges
  <2>10. ModerationTypes'
    BY <2>4, <2>3, <2>6, <2>7, <2>8 DEF ModerationTypes, Turns
  <2>11. ASSUME ~crossed PROVE ~decisions'[i].rolledBack
    <3>1. ~decisions[i].rolledBack
      BY <2>1, <2>3, <2>11 DEF StatusKnown, KnowsStatus
    <3>2. decisions[i].rolledBack = FALSE
      BY <2>5, <3>1
    <3> QED BY <2>7, <2>8, <3>2
  <2>12. ~crossed => KnowsStatus(r)'
    BY <2>4, <2>11 DEF KnowsStatus
  <2>13. ASSUME ~crossed, NEW k \in DOMAIN decisions'
         PROVE  DecisionFaithful(k)'
    <3>1. DecisionFaithful(k) /\ ~Marks(k)
      <4>1. \A n \in Moderators : n # m => moderating[n] = Free
        BY <2>3, <2>13 DEF StatusKnown
      <4> QED BY <2>3, <2>7, <2>8, <2>13, <4>1, FreeIsRequest DEF StatusKnown, Marks
    <3>2. CASE k # i
      BY <2>7, <2>8, <2>13, <3>1, <3>2 DEF DecisionFaithful
    <3>3. CASE k = i
      <4>1. Marks(i)'
        BY <2>4, <2>6 DEF Marks, Turns, ModerationTypes
      <4>2. ~decisions[i].rolledBack
        BY <2>1, <2>3, <2>13 DEF StatusKnown, KnowsStatus
      <4>3. decisions[i].restores <= decisions[i].unmarked
        BY <3>1, <3>3, <4>2 DEF DecisionFaithful
      <4>4. /\ decisions'[i].previous = decisions'[i].replaced
            /\ decisions'[i].replaced \in EligibleStatuses(decisions'[i].action)
        BY <2>7, <2>8, <3>1, <3>3 DEF DecisionFaithful
      <4>5. decisions'[i].restores <= decisions'[i].unmarked + 1
        BY <2>5, <2>7, <2>8, <4>3 DEF Decisions
      <4> QED BY <3>3, <4>1, <4>4, <4>5 DEF DecisionFaithful
    <3> QED BY <3>2, <3>3
  <2> QED BY <2>3, <2>6, <2>10, <2>12, <2>13, ContinueKnown
<1>7. ASSUME NEW m \in Moderators, MarkRolledBack(m) \/ MarkFails(m)
      PROVE  ModerationInv'
  <2>1. PICK i : i = moderating[m].decision
    OBVIOUS
  <2>2. i \in DOMAIN decisions /\ moderating[m] # Free /\ moderating[m].pc = "mark"
    BY <1>7, <2>1, RequestFields DEF MarkRolledBack, MarkFails
  <2>3. /\ decisions[i] \in Decisions
        /\ decisions[i].rolledBack \in BOOLEAN /\ decisions[i].restores \in Nat
        /\ decisions[i].unmarked \in Nat /\ decisions[i].unmarked + 1 \in Nat
    BY <2>2, DecisionAt DEF Decisions
  <2>4. /\ Turns(m, Free)
        /\ UNCHANGED <<promptStatus, crossed>>
        /\ \/ decisions' = [decisions EXCEPT ![i].rolledBack = TRUE]
           \/ decisions' = [decisions EXCEPT ![i].unmarked = @ + 1]
    BY <1>7, <2>1 DEF MarkRolledBack, MarkFails
  <2>5. PICK d \in Decisions :
           /\ decisions' = [decisions EXCEPT ![i] = d]
           /\ d.previous = decisions[i].previous /\ d.replaced = decisions[i].replaced
           /\ d.action = decisions[i].action /\ d.restores = decisions[i].restores
           /\ \/ d.rolledBack /\ d.unmarked = decisions[i].unmarked
              \/ d.unmarked = decisions[i].unmarked + 1
    <3>1. CASE decisions' = [decisions EXCEPT ![i].rolledBack = TRUE]
      <4>1. PICK d : d = [decisions[i] EXCEPT !.rolledBack = TRUE]
        OBVIOUS
      <4>2. /\ d \in Decisions
            /\ d.previous = decisions[i].previous /\ d.replaced = decisions[i].replaced
            /\ d.action = decisions[i].action /\ d.restores = decisions[i].restores
            /\ d.rolledBack = TRUE /\ d.unmarked = decisions[i].unmarked
        BY <2>3, <4>1 DEF Decisions
      <4>3. decisions' = [decisions EXCEPT ![i] = d]
        BY <2>2, <3>1, <4>1
      <4> QED BY <4>2, <4>3
    <3>2. CASE decisions' = [decisions EXCEPT ![i].unmarked = @ + 1]
      <4>1. PICK d : d = [decisions[i] EXCEPT !.unmarked = @ + 1]
        OBVIOUS
      <4>2. /\ d \in Decisions
            /\ d.previous = decisions[i].previous /\ d.replaced = decisions[i].replaced
            /\ d.action = decisions[i].action /\ d.restores = decisions[i].restores
            /\ d.unmarked = decisions[i].unmarked + 1
        BY <2>3, <4>1 DEF Decisions
      <4>3. decisions' = [decisions EXCEPT ![i] = d]
        BY <2>2, <3>2, <4>1
      <4> QED BY <4>2, <4>3
    <3> QED BY <2>4, <3>1, <3>2
  <2>6. /\ decisions' \in Seq(Decisions)
        /\ DOMAIN decisions' = DOMAIN decisions
        /\ \A k \in DOMAIN decisions : k # i => decisions'[k] = decisions[k]
        /\ decisions'[i] = d
    BY <2>2, <2>5, DecisionChanges
  <2>7. ModerationTypes'
    BY <2>4, <2>6, FreeIsRequest DEF ModerationTypes, Turns
  <2>8. ASSUME ~crossed, NEW k \in DOMAIN decisions'
        PROVE  DecisionFaithful(k)'
    <3>1. DecisionFaithful(k)
      BY <2>6, <2>8 DEF StatusKnown
    <3>2. CASE k # i
      <4>1. ~Marks(k)
        BY <2>1, <2>2, <2>8, <3>2, FreeIsRequest DEF StatusKnown, Marks
      <4> QED BY <2>6, <2>8, <3>1, <3>2, <4>1 DEF DecisionFaithful
    <3>3. CASE k = i
      BY <2>3, <2>5, <2>6, <3>1, <3>3 DEF DecisionFaithful, Decisions
    <3> QED BY <3>2, <3>3
  <2> QED BY <2>2, <2>4, <2>7, <2>8, FreeKnowsAll, ContinueKnown
<1>8. ASSUME NEW m \in Moderators, WriteOverride(m)
      PROVE  ModerationInv'
  <2>1. moderating[m].action \in Actions /\ moderating[m] # Free
    BY <1>8, RequestFields DEF WriteOverride
  <2>2. /\ Turns(m, Free)
        /\ UNCHANGED <<decisions, crossed>>
        /\ promptStatus' \in Statuses
    BY <1>8, <2>1, ResultingIsStatus DEF WriteOverride
  <2>3. ~crossed => \A i \in DOMAIN decisions' : DecisionFaithful(i)'
    BY <1>8, <2>2, FreeIsRequest, MarksSame, FaithfulStay DEF StatusKnown, WriteOverride
  <2>4. ModerationTypes'
    BY <2>2, FreeIsRequest, TurnTypes
  <2> QED BY <2>1, <2>2, <2>3, <2>4, FreeKnowsAll, ContinueKnown
<1>9. ASSUME NEW m \in Moderators, RequestFails(m)
      PROVE  ModerationInv'
  <2>1. /\ Turns(m, Free) /\ moderating[m] # Free
        /\ UNCHANGED <<promptStatus, decisions, crossed>>
    BY <1>9, FreeIsRequest DEF RequestFails
  <2>2. ~crossed => \A i \in DOMAIN decisions' : DecisionFaithful(i)'
    BY <1>9, <2>1, FreeIsRequest, MarksSame, FaithfulStay DEF StatusKnown, RequestFails
  <2>3. ModerationTypes'
    BY <2>1, FreeIsRequest, TurnTypes DEF ModerationTypes
  <2> QED BY <2>1, <2>2, <2>3, FreeKnowsAll, ContinueKnown
<1>10. ASSUME NEW verdict \in Verdicts, Scan(verdict)
       PROVE  ModerationInv'
  <2>1. ModerationTypes'
    BY <1>10 DEF Scan, ModerationTypes, Statuses
  <2>2. ASSUME ~crossed' PROVE StatusKnown'
    <3>1. /\ UNCHANGED <<decisions, moderating>> /\ ~crossed
          /\ \A m \in Moderators : moderating[m] = Free
      BY <1>10, <2>2 DEF Scan, InFlight
    <3> QED
      BY <3>1, FreeKnowsAll DEF StatusKnown, DecisionFaithful, Marks
  <2> QED BY <2>1, <2>2 DEF StatusKnown
<1>11. CASE UNCHANGED moderationVars
  BY <1>11
  DEF moderationVars, ModerationTypes, StatusKnown, KnowsStatus, DecisionFaithful, Marks
<1> QED
  BY <1>1, <1>2, <1>3, <1>4, <1>5, <1>6, <1>7, <1>8, <1>9, <1>10, <1>11
     DEF ModerationNext

(* A recorded decision was allowed on the status it replaced, names that   *)
(* status, and a rollback has restored it once, and once more for each one *)
(* that failed before the mark, as long as no two requests and no scan and *)
(* request were in flight at once (BulkModerationAction,                   *)
(* RollbackModerationDecision).                                            *)
THEOREM DecisionsAreFaithful == ModerationSpec => []DecisionsFaithful
<1>1. ModerationInv => DecisionsFaithful
  BY DEF ModerationInv, StatusKnown, DecisionsFaithful, DecisionFaithful
<1> QED
  BY ModerationInvInit, ModerationInvStep, <1>1, PTL DEF ModerationSpec

-----------------------------------------------------------------------------
(***************************************************************************)
(* Entitlements.  With one Purchase document, which no cleanup has closed  *)
(* behind the chain's back, the document follows the chain, and a repair   *)
(* that nothing has disturbed still knows what the document says.          *)
(***************************************************************************)

Outcomes == {"active", "refunded"}

Documents ==
    [tx : Nat, status : {"purchased", "disputed", "resolved"},
     resolution : {"none", "refunded", "rejected"}]

Tasks ==
    {AtRest} \cup [pc : {"cleanup"}, ids : SUBSET Nat]
             \cup [pc : {"lookup"}]
             \cup [pc : {"cache"}, status : Outcomes]
             \cup [pc : {"compare", "write"}, todo : Seq(Outcomes)]

EntitlementTypes ==
    /\ chain \in {"none", "held", "disputed", "refunded"}
    /\ txs \in Nat
    /\ purchases \in Seq(Documents)
    /\ asking \in [Askers -> Tasks]
    /\ solo \in Askers \cup {Nobody}
    /\ repaired \in BOOLEAN
    /\ overwritten \in BOOLEAN

Repairs(a) == asking[a].pc \in {"compare", "write"}

\* Every document that a repair goes through exists.
TodosShort ==
    \A a \in Askers : Repairs(a) =>
        asking[a].todo # <<>> /\ Len(asking[a].todo) <= Len(purchases)

\* A document is written for the next purchase only ahead of the first event.
TxsIndexed ==
    /\ chain = "none" => txs = 0
    /\ chain # "none" => purchases # <<>>
    /\ \A i \in DOMAIN purchases :
          purchases[i].tx <= IF chain = "none" THEN txs + 1 ELSE txs

DocumentFollowsChain ==
    Len(purchases) = 1 /\ ~overwritten =>
        /\ purchases[1].resolution = "refunded" <=> chain = "refunded"
        /\ purchases[1].status = "disputed" => chain = "disputed"

RepairKnown ==
    Len(purchases) = 1 =>
        /\ \A a \in Askers : solo = a /\ Repairs(a) =>
              Head(asking[a].todo) = Entitled(purchases[1])
        /\ repaired => access = Entitled(purchases[1])

EntitlementInv ==
    /\ EntitlementTypes /\ TodosShort
    /\ TxsIndexed /\ DocumentFollowsChain /\ RepairKnown

LEMMA EntitledType ==
    ASSUME NEW p PROVE Entitled(p) \in Outcomes
BY DEF Entitled, Outcomes

LEMMA OnePurchase ==
    ASSUME EntitlementTypes, Len(purchases) = 1
    PROVE  1 \in DOMAIN purchases /\ purchases[1] \in Documents /\ purchases # <<>>
<1>1. purchases \in Seq(Documents)
  BY DEF EntitlementTypes
<1> QED BY <1>1

LEMMA DocumentAt ==
    ASSUME EntitlementTypes, NEW i \in DOMAIN purchases
    PROVE  purchases[i] \in Documents /\ purchases[i].tx \in Nat
<1>1. purchases[i] \in Documents
  BY DEF EntitlementTypes
<1> QED BY <1>1 DEF Documents

LEMMA RestTask == AtRest \in Tasks /\ AtRest.pc = "rest"
BY DEF AtRest, Tasks

LEMMA TaskFields ==
    ASSUME EntitlementTypes, NEW a \in Askers
    PROVE  /\ asking[a].pc = "cleanup" => asking[a].ids \in SUBSET Nat
           /\ asking[a].pc = "cache" => asking[a].status \in Outcomes
           /\ Repairs(a) => asking[a].todo \in Seq(Outcomes)
BY DEF EntitlementTypes, Tasks, AtRest, Repairs

LEMMA DisturbedTypes ==
    ASSUME EntitlementTypes, Disturbed,
           chain' \in {"none", "held", "disputed", "refunded"},
           txs' \in Nat,
           purchases' \in Seq(Documents),
           asking' \in [Askers -> Tasks],
           overwritten' \in BOOLEAN
    PROVE  EntitlementTypes'
<1>1. solo' \in Askers \cup {Nobody} /\ repaired' \in BOOLEAN
  BY DEF Disturbed
<1> QED BY <1>1 DEF EntitlementTypes

LEMMA TypesOfState ==
    ASSUME EntitlementTypes
    PROVE  /\ chain \in {"none", "held", "disputed", "refunded"}
           /\ txs \in Nat
           /\ purchases \in Seq(Documents)
           /\ asking \in [Askers -> Tasks]
           /\ overwritten \in BOOLEAN
BY DEF EntitlementTypes

\* A step that disturbs the repairs.
LEMMA DisturbedSteps ==
    ASSUME EntitlementTypes, EntitlementTypes', TodosShort, Disturbed,
           Len(purchases) <= Len(purchases'),
           \A a \in Askers : Repairs(a)' => Repairs(a) /\ asking'[a] = asking[a]
    PROVE  TodosShort' /\ RepairKnown'
<1>1. Len(purchases) \in Nat /\ Len(purchases') \in Nat
  BY DEF EntitlementTypes
<1>2. ASSUME NEW a \in Askers, Repairs(a)'
      PROVE  asking'[a].todo # <<>> /\ Len(asking'[a].todo) <= Len(purchases')
  <2>1. Repairs(a) /\ asking'[a] = asking[a]
    BY <1>2
  <2>2. asking[a].todo # <<>> /\ Len(asking[a].todo) <= Len(purchases)
    BY <2>1 DEF TodosShort
  <2>3. Len(asking[a].todo) \in Nat
    BY <2>1, TaskFields
  <2> QED BY <1>1, <2>1, <2>2, <2>3
<1>3. TodosShort'
  BY <1>2 DEF TodosShort
<1>4. RepairKnown'
  BY AskerAssumption DEF Disturbed, RepairKnown
<1> QED BY <1>3, <1>4

\* A step that touches neither the chain nor the documents.
LEMMA SameDocuments ==
    ASSUME UNCHANGED <<chain, txs, purchases, overwritten>>
    PROVE  /\ TxsIndexed => TxsIndexed'
           /\ DocumentFollowsChain => DocumentFollowsChain'
BY DEF TxsIndexed, DocumentFollowsChain

\* A step that turns the task of one asker and leaves all else alone.
LEMMA TurnSteps ==
    ASSUME EntitlementInv, NEW a \in Askers, NEW r \in Tasks, Does(a, r),
           r.pc \notin {"compare", "write"},
           UNCHANGED <<chain, txs, purchases, access, repaired, overwritten>>,
           solo' \in {solo, Nobody}
    PROVE  EntitlementInv'
<1> USE DEF EntitlementInv
<1>1. EntitlementTypes'
  BY DEF EntitlementTypes, Does
<1>2. \A b \in Askers : Repairs(b)' => Repairs(b) /\ asking'[b] = asking[b]
  BY DEF EntitlementTypes, Does, Repairs
<1>3. TodosShort'
  BY <1>2 DEF TodosShort
<1>4. RepairKnown'
  BY <1>2, AskerAssumption DEF RepairKnown, Entitled
<1> QED BY <1>1, <1>3, <1>4, SameDocuments

LEMMA EntitlementInvInit == EntitlementInit => EntitlementInv
<1> SUFFICES ASSUME EntitlementInit PROVE EntitlementInv
  OBVIOUS
<1>1. EntitlementTypes
  <2>1. asking \in [Askers -> Tasks] /\ purchases \in Seq(Documents)
    BY RestTask DEF EntitlementInit
  <2> QED BY <2>1 DEF EntitlementInit, EntitlementTypes
<1>2. Len(purchases) = 0 /\ DOMAIN purchases = {}
  BY DEF EntitlementInit
<1>3. TodosShort
  BY RestTask DEF EntitlementInit, TodosShort, Repairs
<1>4. TxsIndexed /\ DocumentFollowsChain /\ RepairKnown
  BY <1>2 DEF EntitlementInit, TxsIndexed, DocumentFollowsChain, RepairKnown
<1> QED BY <1>1, <1>3, <1>4 DEF EntitlementInv

LEMMA EventPromptPurchased ==
    ASSUME EntitlementInv, PromptPurchased PROVE EntitlementInv'
<1> USE DEF EntitlementInv
<1>1. /\ purchases \in Seq(Documents) /\ txs \in Nat
      /\ txs' = txs + 1 /\ chain' = "held" /\ chain \in {"none", "refunded"}
      /\ Disturbed /\ UNCHANGED <<access, asking, overwritten>>
  BY DEF PromptPurchased, EntitlementTypes
<1>2. CASE UNCHANGED purchases /\ \E i \in DOMAIN purchases : purchases[i].tx = txs'
  <2>1. PICK i \in DOMAIN purchases : purchases[i].tx = txs + 1
    BY <1>1, <1>2
  <2>2. chain = "none"
    BY <1>1, <2>1 DEF TxsIndexed
  <2>3. purchases # <<>>
    BY <2>1
  <2>4. EntitlementTypes'
    BY <1>1, <1>2, DisturbedTypes, TypesOfState
  <2>5. TxsIndexed'
    BY <1>1, <1>2, <2>2, <2>3 DEF TxsIndexed
  <2>6. DocumentFollowsChain'
    BY <1>1, <1>2, <2>2 DEF DocumentFollowsChain
  <2>7. TodosShort' /\ RepairKnown'
    BY <1>1, <1>2, <2>4, DisturbedSteps DEF Repairs
  <2> QED BY <2>4, <2>5, <2>6, <2>7
<1>3. CASE purchases' = Append(purchases, NewPurchase(txs'))
  <2> DEFINE d == NewPurchase(txs + 1)
  <2>1. d \in Documents /\ d.tx = txs + 1 /\ d.resolution = "none" /\ d.status = "purchased"
    BY <1>1 DEF NewPurchase, Documents
  <2>2. purchases' = Append(purchases, d)
    BY <1>1, <1>3
  <2> HIDE DEF d
  <2>3. /\ purchases' \in Seq(Documents)
        /\ purchases' # <<>>
        /\ Len(purchases') = Len(purchases) + 1
        /\ Len(purchases) \in Nat
        /\ \A i \in DOMAIN purchases' :
              purchases'[i] = d \/ (i \in DOMAIN purchases /\ purchases'[i] = purchases[i])
        /\ Len(purchases') = 1 => purchases'[1] = d
    BY <1>1, <2>1, <2>2
  <2>4. EntitlementTypes'
    BY <1>1, <2>3, DisturbedTypes, TypesOfState
  <2>5. ASSUME NEW i \in DOMAIN purchases
        PROVE  purchases[i].tx <= txs + 1
    BY <1>1, DocumentAt DEF TxsIndexed
  <2>6. TxsIndexed'
    BY <1>1, <2>1, <2>3, <2>5 DEF TxsIndexed
  <2>7. DocumentFollowsChain'
    BY <1>1, <2>1, <2>3 DEF DocumentFollowsChain
  <2>8. TodosShort' /\ RepairKnown'
    BY <1>1, <2>3, <2>4, DisturbedSteps DEF Repairs
  <2> QED BY <2>4, <2>6, <2>7, <2>8
<1> QED BY <1>2, <1>3 DEF PromptPurchased

\* The two dispute events write the first document.
LEMMA EventsOnTheFirst ==
    ASSUME EntitlementInv, NEW d \in Documents, FirstPurchase(d), Disturbed,
           d.tx = purchases[1].tx,
           chain \in {"held", "disputed"},
           chain' \in {"held", "disputed", "refunded"},
           Len(purchases) = 1 /\ ~overwritten =>
              /\ d.resolution = "refunded" <=> chain' = "refunded"
              /\ d.status = "disputed" => chain' = "disputed",
           UNCHANGED <<txs, access, asking, overwritten>>
    PROVE  EntitlementInv'
<1> USE DEF EntitlementInv
<1>1. purchases \in Seq(Documents) /\ purchases # <<>> /\ 1 \in DOMAIN purchases
  BY DEF EntitlementTypes, TxsIndexed
<1>2. purchases' = [purchases EXCEPT ![1] = d]
  BY <1>1 DEF FirstPurchase
<1>3. /\ purchases' \in Seq(Documents)
      /\ Len(purchases') = Len(purchases) /\ Len(purchases) \in Nat
      /\ DOMAIN purchases' = DOMAIN purchases
      /\ purchases'[1] = d
      /\ \A i \in DOMAIN purchases : i # 1 => purchases'[i] = purchases[i]
  BY <1>1, <1>2
<1>4. EntitlementTypes'
  BY <1>3, DisturbedTypes, TypesOfState
<1>5. purchases' # <<>>
  BY <1>1, <1>3
<1>6. TxsIndexed'
  BY <1>1, <1>3, <1>5 DEF TxsIndexed
<1>7. DocumentFollowsChain'
  BY <1>3 DEF DocumentFollowsChain
<1>8. TodosShort' /\ RepairKnown'
  BY <1>3, <1>4, DisturbedSteps DEF Repairs
<1> QED BY <1>4, <1>6, <1>7, <1>8

LEMMA EventDisputeOpened ==
    ASSUME EntitlementInv, DisputeOpened PROVE EntitlementInv'
<1> DEFINE d == [purchases[1] EXCEPT !.status = "disputed"]
<1>1. purchases[1] \in Documents
  <2>1. purchases \in Seq(Documents) /\ purchases # <<>>
    BY TypesOfState DEF EntitlementInv, TxsIndexed, DisputeOpened
  <2> QED BY <2>1
<1>2. /\ d \in Documents
      /\ d.tx = purchases[1].tx
      /\ d.resolution = purchases[1].resolution /\ d.status = "disputed"
  BY <1>1 DEF Documents
<1>3. FirstPurchase(d) /\ Disturbed
  BY DEF DisputeOpened
<1> HIDE DEF d
<1>4. /\ chain = "held" /\ chain' = "disputed"
      /\ UNCHANGED <<txs, access, asking, overwritten>>
  BY DEF DisputeOpened
<1>5. Len(purchases) = 1 /\ ~overwritten => d.resolution # "refunded"
  BY <1>2, <1>4 DEF EntitlementInv, DocumentFollowsChain
<1> QED BY <1>2, <1>3, <1>4, <1>5, EventsOnTheFirst

LEMMA EventDisputeResolved ==
    ASSUME EntitlementInv, NEW resolution \in {"refunded", "rejected"},
           DisputeResolved(resolution)
    PROVE  EntitlementInv'
<1> DEFINE d == [purchases[1] EXCEPT !.status = "resolved", !.resolution = resolution]
<1>1. purchases[1] \in Documents
  <2>1. purchases \in Seq(Documents) /\ purchases # <<>>
    BY TypesOfState DEF EntitlementInv, TxsIndexed, DisputeResolved
  <2> QED BY <2>1
<1>2. /\ d \in Documents
      /\ d.tx = purchases[1].tx
      /\ d.resolution = resolution /\ d.status = "resolved"
  BY <1>1 DEF Documents
<1>3. FirstPurchase(d) /\ Disturbed
  BY DEF DisputeResolved
<1> HIDE DEF d
<1>4. /\ chain = "disputed" /\ chain' \in {"held", "refunded"}
      /\ resolution = "refunded" <=> chain' = "refunded"
      /\ UNCHANGED <<txs, access, asking, overwritten>>
  BY DEF DisputeResolved
<1> QED BY <1>2, <1>3, <1>4, EventsOnTheFirst

LEMMA PollStep == ASSUME EntitlementInv, SettlementPoll PROVE EntitlementInv'
<1> USE DEF EntitlementInv
<1> DEFINE d == NewPurchase(txs + 1)
<1>1. d \in Documents /\ d.tx = txs + 1 /\ d.resolution = "none" /\ d.status = "purchased"
  BY TypesOfState DEF NewPurchase, Documents
<1>2. /\ purchases = <<>> /\ purchases' = <<d>>
      /\ Disturbed /\ UNCHANGED <<chain, txs, access, asking, overwritten>>
  BY DEF SettlementPoll
<1>3. chain = "none"
  BY <1>2 DEF TxsIndexed
<1> HIDE DEF d
<1>4. /\ purchases' \in Seq(Documents) /\ purchases' # <<>>
      /\ Len(purchases) <= Len(purchases')
      /\ DOMAIN purchases' = {1} /\ purchases'[1] = d
  BY <1>1, <1>2
<1>5. EntitlementTypes'
  BY <1>2, <1>4, DisturbedTypes, TypesOfState
<1>6. txs \in Nat
  BY TypesOfState
<1>7. TxsIndexed'
  BY <1>1, <1>2, <1>3, <1>4, <1>6 DEF TxsIndexed
<1>8. DocumentFollowsChain'
  BY <1>1, <1>2, <1>3, <1>4 DEF DocumentFollowsChain
<1>9. TodosShort' /\ RepairKnown'
  BY <1>2, <1>4, <1>5, DisturbedSteps DEF Repairs
<1> QED BY <1>5, <1>7, <1>8, <1>9

\* Writes of the Entitlement record by others than the repairs.
LEMMA OtherWrites ==
    ASSUME EntitlementInv, Disturbed, asking' \in [Askers -> Tasks],
           UNCHANGED <<chain, txs, purchases, overwritten>>,
           \A a \in Askers : Repairs(a)' => Repairs(a) /\ asking'[a] = asking[a]
    PROVE  EntitlementInv'
<1> USE DEF EntitlementInv
<1>1. EntitlementTypes'
  BY DisturbedTypes, TypesOfState
<1>2. Len(purchases) <= Len(purchases')
  BY TypesOfState
<1>3. TodosShort' /\ RepairKnown'
  BY <1>1, <1>2, DisturbedSteps
<1> QED BY <1>1, <1>3, SameDocuments

LEMMA CleanupStep ==
    ASSUME EntitlementInv, NEW a \in Askers, CloseStaleDisputes(a)
    PROVE  EntitlementInv'
<1> USE DEF EntitlementInv
<1>1. PICK ids : ids = asking[a].ids
  OBVIOUS
<1>2. /\ purchases' = [i \in DOMAIN purchases |->
             IF i \in ids
             THEN [purchases[i] EXCEPT !.status = "resolved", !.resolution = "rejected"]
             ELSE purchases[i]]
      /\ overwritten' = (overwritten \/ \E i \in ids : purchases[i].status # "disputed")
      /\ Does(a, AtRest) /\ Disturbed
      /\ UNCHANGED <<chain, txs, access>>
  BY <1>1 DEF CloseStaleDisputes
<1>3. purchases \in Seq(Documents) /\ asking \in [Askers -> Tasks]
  BY TypesOfState
<1>4. ASSUME NEW i \in DOMAIN purchases
      PROVE  /\ purchases'[i] \in Documents
             /\ purchases'[i].tx = purchases[i].tx
             /\ i \notin ids => purchases'[i] = purchases[i]
             /\ i \in ids => /\ purchases'[i].status = "resolved"
                             /\ purchases'[i].resolution = "rejected"
  <2>1. purchases[i] \in Documents
    BY DocumentAt
  <2> QED BY <1>2, <2>1 DEF Documents
<1>5. /\ purchases' \in Seq(Documents)
      /\ Len(purchases') = Len(purchases) /\ Len(purchases) \in Nat
      /\ DOMAIN purchases' = DOMAIN purchases
  <2>1. purchases' = [i \in 1..Len(purchases) |-> purchases'[i]]
    <3>1. purchases' = [i \in DOMAIN purchases |-> purchases'[i]]
      BY <1>2
    <3>2. DOMAIN purchases = 1..Len(purchases)
      BY <1>3
    <3> QED BY <3>1, <3>2
  <2>2. \A i \in 1..Len(purchases) : purchases'[i] \in Documents
    BY <1>3, <1>4
  <2>3. Len(purchases) \in Nat
    BY <1>3
  <2> HIDE DEF EntitlementInv
  <2>4. purchases' \in Seq(Documents)
    BY <2>1, <2>2, <2>3
  <2> QED BY <1>3, <2>1, <2>3, <2>4
<1>6. overwritten' \in BOOLEAN
  BY <1>2
<1>7. asking' \in [Askers -> Tasks]
  BY <1>2, <1>3, RestTask DEF Does
<1>8. EntitlementTypes'
  BY <1>2, <1>5, <1>6, <1>7, DisturbedTypes, TypesOfState
<1>9. TxsIndexed'
  <2>1. chain # "none" => purchases' # <<>>
    BY <1>5 DEF TxsIndexed
  <2> QED BY <1>2, <1>4, <1>5, <2>1 DEF TxsIndexed
<1>10. DocumentFollowsChain'
  <2> SUFFICES ASSUME Len(purchases) = 1, ~overwritten'
               PROVE  /\ purchases'[1].resolution = "refunded" <=> chain = "refunded"
                      /\ purchases'[1].status = "disputed" => chain = "disputed"
    BY <1>2, <1>5 DEF DocumentFollowsChain
  <2>1. 1 \in DOMAIN purchases
    BY OnePurchase
  <2>2. /\ ~overwritten
        /\ \A i \in ids : purchases[i].status = "disputed"
    BY <1>2
  <2>3. /\ purchases[1].resolution = "refunded" <=> chain = "refunded"
        /\ purchases[1].status = "disputed" => chain = "disputed"
    BY <2>2 DEF DocumentFollowsChain
  <2>4. CASE 1 \in ids
    BY <1>4, <2>1, <2>2, <2>3, <2>4
  <2>5. CASE 1 \notin ids
    BY <1>4, <2>1, <2>3, <2>5
  <2> QED BY <2>4, <2>5
<1>11. \A b \in Askers : Repairs(b)' => Repairs(b) /\ asking'[b] = asking[b]
  BY <1>2, <1>3, RestTask DEF Does, Repairs
<1>12. Len(purchases) <= Len(purchases')
  BY <1>5
<1>13. Disturbed
  BY <1>2
<1>14. TodosShort' /\ RepairKnown'
  BY <1>8, <1>11, <1>12, <1>13, DisturbedSteps
<1> QED BY <1>8, <1>9, <1>10, <1>14

LEMMA CacheStep ==
    ASSUME EntitlementInv, NEW a \in Askers, CacheAccess(a)
    PROVE  EntitlementInv'
<1>1. /\ Does(a, AtRest) /\ Disturbed
      /\ UNCHANGED <<chain, txs, purchases, overwritten>>
  BY DEF CacheAccess
<1>2. asking \in [Askers -> Tasks]
  BY TypesOfState DEF EntitlementInv
<1>3. asking' \in [Askers -> Tasks]
  BY <1>1, <1>2, RestTask DEF Does
<1>4. \A b \in Askers : Repairs(b)' => Repairs(b) /\ asking'[b] = asking[b]
  BY <1>1, <1>2, RestTask DEF Does, Repairs
<1> QED BY <1>1, <1>3, <1>4, OtherWrites

LEMMA RepairBegins ==
    ASSUME EntitlementInv, NEW a \in Askers, NEW todo \in Seq(Outcomes),
           StartRepair(a, todo),
           todo # <<>>, Len(todo) <= Len(purchases),
           Len(purchases) = 1 => Head(todo) = Entitled(purchases[1])
    PROVE  EntitlementInv'
<1> USE DEF EntitlementInv
<1> DEFINE r == [pc |-> "compare", todo |-> todo]
<1>1. r \in Tasks /\ r.pc = "compare" /\ r.todo = todo
  BY DEF Tasks
<1>2. /\ asking' = [asking EXCEPT ![a] = r]
      /\ solo' = a
      /\ UNCHANGED <<chain, txs, purchases, access, repaired, overwritten>>
  BY DEF StartRepair, Does
<1> HIDE DEF r
<1>3. asking \in [Askers -> Tasks]
  BY TypesOfState
<1>4. asking' \in [Askers -> Tasks] /\ asking'[a] = r
  BY <1>1, <1>2, <1>3
<1>5. EntitlementTypes'
  BY <1>2, <1>4 DEF EntitlementTypes
<1>6. \A b \in Askers : b # a => asking'[b] = asking[b]
  BY <1>2, <1>3
<1>7. TodosShort'
  BY <1>1, <1>2, <1>4, <1>6 DEF TodosShort, Repairs
<1>8. RepairKnown'
  BY <1>1, <1>2, <1>4, <1>6 DEF RepairKnown, Entitled
<1> QED BY <1>2, <1>5, <1>7, <1>8, SameDocuments

LEMMA RepairOfAll ==
    ASSUME EntitlementInv, NEW a \in Askers, purchases # <<>>,
           StartRepair(a, AllPurchases)
    PROVE  EntitlementInv'
<1>1. purchases \in Seq(Documents)
  BY TypesOfState DEF EntitlementInv
<1>2. \A i \in 1..Len(purchases) : Entitled(purchases[i]) \in Outcomes
  BY EntitledType
<1>3. AllPurchases = [i \in 1..Len(purchases) |-> Entitled(purchases[i])]
  BY <1>1 DEF AllPurchases
<1>4. Len(purchases) \in Nat \ {0}
  BY <1>1
<1>5. /\ AllPurchases \in Seq(Outcomes)
      /\ Len(AllPurchases) = Len(purchases)
      /\ AllPurchases[1] = Entitled(purchases[1])
  BY <1>2, <1>3, <1>4
<1> DEFINE todo == AllPurchases
<1> HIDE DEF todo
<1>6. /\ todo \in Seq(Outcomes) /\ todo # <<>>
      /\ Len(todo) <= Len(purchases)
      /\ Head(todo) = Entitled(purchases[1])
      /\ StartRepair(a, todo)
  BY <1>4, <1>5 DEF todo
<1> QED BY <1>6, RepairBegins

LEMMA RepairOfOne ==
    ASSUME EntitlementInv, NEW a \in Askers, NEW i \in DOMAIN purchases,
           StartRepair(a, <<Entitled(purchases[i])>>)
    PROVE  EntitlementInv'
<1>1. purchases \in Seq(Documents)
  BY TypesOfState DEF EntitlementInv
<1>2. Len(purchases) \in Nat /\ Len(purchases) >= 1 /\ (Len(purchases) = 1 => i = 1)
  BY <1>1
<1> DEFINE todo == <<Entitled(purchases[i])>>
<1>3. /\ todo \in Seq(Outcomes) /\ todo # <<>> /\ Len(todo) = 1
      /\ Head(todo) = Entitled(purchases[i])
      /\ StartRepair(a, todo)
  BY EntitledType
<1> HIDE DEF todo
<1> QED BY <1>2, <1>3, RepairBegins

\* What a repair that compares or writes has got.
LEMMA RepairTask ==
    ASSUME EntitlementInv, NEW a \in Askers, Repairs(a),
           NEW todo, todo = asking[a].todo
    PROVE  /\ todo \in Seq(Outcomes)
           /\ todo # <<>> /\ Head(todo) \in Outcomes
           /\ Tail(todo) \in Seq(Outcomes)
           /\ Len(todo) <= Len(purchases) /\ Len(Tail(todo)) <= Len(purchases)
           /\ Len(purchases) = 1 => Tail(todo) = <<>>
           /\ Len(purchases) = 1 /\ solo = a => Head(todo) = Entitled(purchases[1])
<1>1. todo \in Seq(Outcomes)
  BY TaskFields DEF EntitlementInv
<1>2. todo # <<>> /\ Len(todo) <= Len(purchases)
  BY DEF EntitlementInv, TodosShort
<1>3. Len(purchases) \in Nat
  BY TypesOfState DEF EntitlementInv
<1>4. /\ Head(todo) \in Outcomes
      /\ Tail(todo) \in Seq(Outcomes)
      /\ Len(Tail(todo)) = Len(todo) - 1
      /\ Len(todo) \in Nat \ {0}
  BY <1>1, <1>2
<1>5. Len(Tail(todo)) <= Len(purchases)
  BY <1>2, <1>3, <1>4
<1>6. Len(purchases) = 1 => Tail(todo) = <<>>
  <2> SUFFICES ASSUME Len(purchases) = 1 PROVE Tail(todo) = <<>>
    OBVIOUS
  <2>1. \A n \in Nat \ {0} : n <= 1 => n - 1 = 0
    BY SMT
  <2>2. Len(Tail(todo)) = 0
    BY <1>2, <1>4, <2>1
  <2>3. Tail(todo) \in Seq(Outcomes)
    BY <1>4
  <2> QED BY <2>2, <2>3, EmptySeq
<1>7. Len(purchases) = 1 /\ solo = a => Head(todo) = Entitled(purchases[1])
  BY DEF EntitlementInv, RepairKnown
<1> QED BY <1>1, <1>2, <1>4, <1>5, <1>6, <1>7

\* A repair that is done with its first purchase: the record says so by now.
LEMMA RepairProceeds ==
    ASSUME EntitlementInv, NEW a \in Askers, Repairs(a), Proceed(a),
           access' = Head(asking[a].todo),
           solo' \in {solo, IF solo = a THEN a ELSE Nobody},
           UNCHANGED <<chain, txs, purchases, overwritten>>
    PROVE  EntitlementInv'
<1> USE DEF EntitlementInv
<1>1. PICK todo : todo = asking[a].todo
  OBVIOUS
<1>2. /\ todo \in Seq(Outcomes)
      /\ todo # <<>> /\ Head(todo) \in Outcomes
      /\ Tail(todo) \in Seq(Outcomes)
      /\ Len(todo) <= Len(purchases) /\ Len(Tail(todo)) <= Len(purchases)
      /\ Len(purchases) = 1 => Tail(todo) = <<>>
      /\ Len(purchases) = 1 /\ solo = a => Head(todo) = Entitled(purchases[1])
  BY <1>1, RepairTask
<1>3. asking \in [Askers -> Tasks] /\ solo \in Askers \cup {Nobody} /\ repaired \in BOOLEAN
  BY DEF EntitlementTypes
<1>4. PICK r : /\ asking' = [asking EXCEPT ![a] = r]
               /\ r \in Tasks
               /\ \/ Tail(todo) = <<>> /\ r = AtRest /\ repaired' = (solo = a)
                  \/ /\ Tail(todo) # <<>> /\ repaired' = repaired
                     /\ r = [pc |-> "compare", todo |-> Tail(todo)]
  <2>1. [pc |-> "compare", todo |-> Tail(todo)] \in Tasks
    BY <1>2 DEF Tasks
  <2> QED BY <1>1, <2>1, RestTask DEF Proceed, Does
<1>5. /\ asking' \in [Askers -> Tasks] /\ asking'[a] = r
      /\ \A b \in Askers : b # a => asking'[b] = asking[b]
  BY <1>3, <1>4
<1>6. /\ solo' \in Askers \cup {Nobody} /\ repaired' \in BOOLEAN
      /\ solo' \in {solo, Nobody}
  BY <1>3, <1>4
<1>7. EntitlementTypes'
  BY <1>5, <1>6 DEF EntitlementTypes
<1>8. TodosShort'
  <2> SUFFICES ASSUME NEW b \in Askers, Repairs(b)'
               PROVE  asking'[b].todo # <<>> /\ Len(asking'[b].todo) <= Len(purchases')
    BY DEF TodosShort
  <2>1. CASE b # a
    BY <1>5, <2>1 DEF TodosShort, Repairs
  <2>2. CASE b = a
    <3>1. r.todo = Tail(todo) /\ Tail(todo) # <<>>
      BY <1>4, <1>5, <2>2, RestTask DEF Repairs
    <3> QED BY <1>2, <1>5, <2>2, <3>1
  <2> QED BY <2>1, <2>2
<1>9. RepairKnown'
  <2> SUFFICES ASSUME Len(purchases) = 1
               PROVE  /\ \A b \in Askers : solo' = b /\ Repairs(b)' =>
                            Head(asking'[b].todo) = Entitled(purchases[1])
                      /\ repaired' => access' = Entitled(purchases[1])
    BY DEF RepairKnown, Entitled
  <2>1. r = AtRest /\ repaired' = (solo = a)
    BY <1>2, <1>4
  <2>2. ASSUME NEW b \in Askers, solo' = b, Repairs(b)'
        PROVE  Head(asking'[b].todo) = Entitled(purchases[1])
    <3>1. b # a
      BY <1>5, <2>1, <2>2, RestTask DEF Repairs
    <3>2. asking'[b] = asking[b] /\ solo = b
      BY <1>5, <1>6, <2>2, <3>1, AskerAssumption
    <3> QED BY <2>2, <3>2 DEF RepairKnown, Repairs
  <2>3. repaired' => access' = Entitled(purchases[1])
    BY <1>1, <1>2, <2>1
  <2> QED BY <2>2, <2>3
<1> QED BY <1>7, <1>8, <1>9, SameDocuments

LEMMA CompareStep ==
    ASSUME EntitlementInv, NEW a \in Askers, Compare(a)
    PROVE  EntitlementInv'
<1> USE DEF EntitlementInv
<1>1. /\ Repairs(a)
      /\ UNCHANGED <<chain, txs, purchases, access, solo, overwritten>>
  BY DEF Compare, Repairs
<1>2. CASE access = Head(asking[a].todo) /\ Proceed(a)
  BY <1>1, <1>2, RepairProceeds
<1>3. CASE /\ Does(a, [asking[a] EXCEPT !.pc = "write"])
           /\ UNCHANGED repaired
  <2>1. PICK todo : todo = asking[a].todo
    OBVIOUS
  <2>2. todo \in Seq(Outcomes)
    BY <1>1, <2>1, RepairTask
  <2> DEFINE r == [asking[a] EXCEPT !.pc = "write"]
  <2>3. r = [pc |-> "write", todo |-> todo]
    <3>1. asking[a] = [pc |-> "compare", todo |-> todo]
      <4>1. asking[a] \in Tasks /\ asking[a].pc = "compare"
        BY DEF Compare, EntitlementTypes
      <4> QED BY <2>1, <4>1 DEF Tasks, AtRest
    <3> QED BY <3>1
  <2>4. r \in Tasks /\ r.todo = todo
    BY <2>2, <2>3 DEF Tasks
  <2>5. asking' = [asking EXCEPT ![a] = r] /\ asking \in [Askers -> Tasks]
    BY <1>3 DEF Does, EntitlementTypes
  <2> HIDE DEF r
  <2>6. /\ asking' \in [Askers -> Tasks] /\ asking'[a].todo = asking[a].todo
        /\ \A b \in Askers : b # a => asking'[b] = asking[b]
    BY <2>1, <2>4, <2>5
  <2>7. EntitlementTypes'
    BY <1>1, <1>3, <2>6 DEF EntitlementTypes
  <2>8. \A b \in Askers : Repairs(b)' => Repairs(b) /\ asking'[b].todo = asking[b].todo
    BY <1>1, <2>6 DEF Repairs
  <2>9. TodosShort'
    BY <1>1, <2>8 DEF TodosShort
  <2>10. RepairKnown'
    BY <1>1, <1>3, <2>8 DEF RepairKnown, Entitled
  <2> QED BY <1>1, <2>7, <2>9, <2>10, SameDocuments
<1> QED BY <1>2, <1>3 DEF Compare

LEMMA WriteStep ==
    ASSUME EntitlementInv, NEW a \in Askers, WriteAccess(a)
    PROVE  EntitlementInv'
<1>1. /\ Repairs(a) /\ Proceed(a)
      /\ access' = Head(asking[a].todo)
      /\ solo' = IF solo = a THEN a ELSE Nobody
      /\ UNCHANGED <<chain, txs, purchases, overwritten>>
  BY DEF WriteAccess, Repairs
<1> QED BY <1>1, RepairProceeds

LEMMA EntitlementInvStep ==
    EntitlementInv /\ [EntitlementNext]_entitlementVars => EntitlementInv'
<1> SUFFICES ASSUME EntitlementInv, [EntitlementNext]_entitlementVars
             PROVE  EntitlementInv'
  OBVIOUS
<1>1. asking \in [Askers -> Tasks] /\ purchases \in Seq(Documents)
  BY TypesOfState DEF EntitlementInv
<1>2. CASE GrantBundleItem \/ ModeratorRevokes
  <2>1. /\ Disturbed
        /\ UNCHANGED <<chain, txs, purchases, asking, overwritten>>
    BY <1>2 DEF GrantBundleItem, ModeratorRevokes
  <2> QED BY <1>1, <2>1, OtherWrites DEF Repairs
<1>3. ASSUME NEW a \in Askers, FindStaleDisputes(a)
      PROVE  EntitlementInv'
  <2> DEFINE r == [pc |-> "cleanup",
                   ids |-> {i \in DOMAIN purchases : purchases[i].status = "disputed"}]
  <2>1. r \in Tasks /\ r.pc = "cleanup"
    BY <1>1 DEF Tasks
  <2>2. /\ Does(a, r)
        /\ UNCHANGED <<chain, txs, purchases, access, solo, repaired, overwritten>>
    BY <1>3 DEF FindStaleDisputes
  <2> HIDE DEF r
  <2> QED BY <2>1, <2>2, TurnSteps
<1>4. ASSUME NEW a \in Askers, LookUp(a)
      PROVE  EntitlementInv'
  <2> DEFINE r == [pc |-> "lookup"]
  <2>1. r \in Tasks /\ r.pc = "lookup"
    BY DEF Tasks
  <2>2. /\ Does(a, r)
        /\ UNCHANGED <<chain, txs, purchases, access, solo, repaired, overwritten>>
    BY <1>4 DEF LookUp
  <2> HIDE DEF r
  <2> QED BY <2>1, <2>2, TurnSteps
<1>5. ASSUME NEW a \in Askers, LookUpPurchase(a)
      PROVE  EntitlementInv'
  <2> DEFINE r == IF purchases = <<>> THEN AtRest
                  ELSE [pc |-> "cache", status |-> Entitled(purchases[1])]
  <2>1. r \in Tasks /\ r.pc \in {"rest", "cache"}
    BY RestTask, EntitledType DEF Tasks
  <2>2. /\ Does(a, r)
        /\ UNCHANGED <<chain, txs, purchases, access, solo, repaired, overwritten>>
    BY <1>5 DEF LookUpPurchase
  <2> HIDE DEF r
  <2> QED BY <2>1, <2>2, TurnSteps
<1>6. ASSUME NEW a \in Askers, AskerDies(a)
      PROVE  EntitlementInv'
  <2>1. /\ Does(a, AtRest)
        /\ solo' \in {solo, Nobody}
        /\ UNCHANGED <<chain, txs, purchases, access, repaired, overwritten>>
    BY <1>6 DEF AskerDies
  <2> QED BY <2>1, RestTask, TurnSteps
<1>7. CASE UNCHANGED entitlementVars
  BY <1>7 DEF entitlementVars, EntitlementInv, EntitlementTypes, TodosShort, TxsIndexed,
              DocumentFollowsChain, RepairKnown, Repairs, Entitled
<1> QED
  BY <1>2, <1>3, <1>4, <1>5, <1>6, <1>7, EventPromptPurchased, EventDisputeOpened,
     EventDisputeResolved, PollStep, CleanupStep, CacheStep, RepairOfAll, RepairOfOne,
     CompareStep, WriteStep
     DEF EntitlementNext

(* After a repair that nothing interfered with, the buyer has access unless *)
(* the chain has refunded the purchase, given one Purchase document for the *)
(* pair and no cleanup that closed a dispute the chain had settled          *)
(* (repairEntitlementState, entitlementService.ts).                         *)
THEOREM RepairsFollowTheChain == EntitlementSpec => []RepairFollowsChain
<1>1. EntitlementInv => RepairFollowsChain
  BY DEF EntitlementInv, DocumentFollowsChain, RepairKnown, RepairFollowsChain, Entitled
<1> QED
  BY EntitlementInvInit, EntitlementInvStep, <1>1, PTL DEF EntitlementSpec
=============================================================================
