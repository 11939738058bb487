-------------------------- MODULE OperationRecovery --------------------------
(***************************************************************************)
(* The recovery checkpoint of one operation                                *)
(* (server/src/services/operationRecoveryService.ts).  The operation's own *)
(* steps, its user and the maintainers each find the document, change it   *)
(* in memory and save it: save writes the fields whose value they changed. *)
(***************************************************************************)
EXTENDS Integers

CONSTANTS
    Users,       \* retry requests in flight
    Maintainers, \* maintainers' and the operation's own calls in flight
    MaxRetry,    \* maxRetries
    MaxGranted   \* bound on the retries granted

ASSUME RetryAssumption == MaxRetry \in Nat

VARIABLES
    checkpoint, \* the OperationCheckpoint: overall state and retry count
    retrying,   \* what each user's request has read
    saving,     \* what each other call has read and is going to save
    granted,    \* USER_RETRY steps pushed so far
    doubled     \* a retry was granted while another one was in flight

recoveryVars == <<checkpoint, retrying, saving, granted, doubled>>

StepStates == {"PENDING", "RETRYABLE", "FAILED", "RESOLVED", "MANUALLY_REVIEWED"}

NoCall == [pc |-> "none"]

\* initiateOperation
RecoveryInit ==
    /\ checkpoint = [state |-> "PENDING", retries |-> 0]
    /\ retrying = [u \in Users |-> NoCall]
    /\ saving = [m \in Maintainers |-> NoCall]
    /\ granted = 0
    /\ doubled = FALSE

\* save(): a field set to the value it was read with is not written.
SavedState(read, state) == IF read = state THEN checkpoint.state ELSE state

-----------------------------------------------------------------------------
(* recordStep and maintainerResolve *)

FindCheckpoint(m, state) ==
    /\ saving[m] = NoCall
    /\ saving' = [saving EXCEPT ![m] = [pc |-> "save", read |-> checkpoint.state,
                                        state |-> state]]
    /\ UNCHANGED <<checkpoint, retrying, granted, doubled>>

SaveState(m) ==
    /\ saving[m].pc = "save"
    /\ checkpoint' = [checkpoint EXCEPT !.state =
                         SavedState(saving[m].read, saving[m].state)]
    /\ saving' = [saving EXCEPT ![m] = NoCall]
    /\ UNCHANGED <<retrying, granted, doubled>>

-----------------------------------------------------------------------------
(* userRetry *)

FindForRetry(u) ==
    /\ retrying[u] = NoCall
    /\ retrying' = [retrying EXCEPT ![u] = [pc |-> "evaluate", read |-> checkpoint]]
    /\ UNCHANGED <<checkpoint, saving, granted, doubled>>

Settled(state) == state \in {"RESOLVED", "FAILED"}

\* Mutant: one retry too many.
CanResumeOneMore == ~Settled(checkpoint.state) /\ checkpoint.retries <= MaxRetry

CanResume == ~Settled(checkpoint.state) /\ checkpoint.retries < MaxRetry

\* evaluateRecovery reads the document a second time.
EvaluateRecovery(u) ==
    /\ retrying[u].pc = "evaluate"
    /\ retrying' = [retrying EXCEPT ![u] =
          IF CanResume THEN [pc |-> "resume", read |-> @.read]
          ELSE IF @.read.retries >= MaxRetry THEN [pc |-> "refuse", read |-> @.read]
          ELSE NoCall]
    /\ UNCHANGED <<checkpoint, saving, granted, doubled>>

\* The count that is saved is one more than the one that was read first.
SaveRetry(u) ==
    LET read == retrying[u].read
    IN /\ retrying[u].pc = "resume"
       /\ granted < MaxGranted
       /\ granted' = granted + 1
       /\ checkpoint' = [state |-> SavedState(read.state, "RETRYABLE"),
                         retries |-> read.retries + 1]
       /\ retrying' = [retrying EXCEPT ![u] = NoCall]
       /\ doubled' = (doubled \/ \E v \in Users \ {u} : retrying[v] # NoCall)
       /\ UNCHANGED saving

\* Out of retries: the operation goes to the maintainers.
SaveRefusal(u) ==
    /\ retrying[u].pc = "refuse"
    /\ checkpoint' = [checkpoint EXCEPT !.state =
                         SavedState(retrying[u].read.state, "MANUALLY_REVIEWED")]
    /\ retrying' = [retrying EXCEPT ![u] = NoCall]
    /\ UNCHANGED <<saving, granted, doubled>>

RecoveryNext ==
    \/ \E m \in Maintainers :
          \/ \E state \in StepStates : FindCheckpoint(m, state)
          \/ SaveState(m)
    \/ \E u \in Users :
          FindForRetry(u) \/ EvaluateRecovery(u) \/ SaveRetry(u) \/ SaveRefusal(u)

RecoverySpec == RecoveryInit /\ [][RecoveryNext]_recoveryVars

-----------------------------------------------------------------------------
(* Properties *)

\* maxRetries (operationRecoveryService.ts:202): whatever maintainers and the
\* operation's own steps save in between, the user is granted no more retries
\* than that, and every one is counted, unless two retry requests overlap.
RetriesBounded ==
    ~doubled => granted = checkpoint.retries /\ granted <= MaxRetry
=============================================================================
