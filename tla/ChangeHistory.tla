--------------------------- MODULE ChangeHistory ---------------------------
(***************************************************************************)
(* The tamper-evident history of one critical record                       *)
(* (server/src/services/changeHistory.ts): entries are numbered from 1 and *)
(* carry the hash of the entry before.  Unlike the audit log, a unique     *)
(* index on (recordType, recordId, sequence) stands between two recorders  *)
(* that read the same latest entry.                                        *)
(***************************************************************************)
EXTENDS Integers

CONSTANTS
    Mutators,   \* requests that record a mutation of the record
    MaxEntries, \* bound on the entries
    MaxInstant  \* bound on the clock

ASSUME HistoryAssumption == MaxEntries \in Nat /\ MaxInstant \in Nat

VARIABLES
    entries,  \* the record's ChangeHistoryEntry documents
    instant,  \* wall clock
    mutation  \* the recordMutation call of each request

historyVars == <<entries, instant, mutation>>

\* computeChangeHistoryHash is injective: who recorded, the number and the time
\* tell the entries of one history apart.  (It is taken over the actor and the
\* reason as the caller passed them, while they are stored trimmed; verifyChain
\* hashes what is stored, so the callers here pass them trimmed.)
Hashes == (Mutators \X Nat \X Nat) \cup {<<>>}

GenesisHash == <<>>

\* given, which is not stored, says that the caller supplied the timestamp.
Entry == [seq : Nat, at : Nat, given : BOOLEAN, prev : Hashes, hash : Hashes]

\* A call has either not begun, read the latest entry, stamped its own entry,
\* returned it, or thrown.
CallStates == {"none", "read", "stamped", "recorded", "failed"}

HistoryTypeOK ==
    /\ entries \in SUBSET Entry
    /\ instant \in Nat
    /\ mutation \in [Mutators -> [pc : CallStates, entry : Entry]]

NoEntry ==
    [seq |-> 0, at |-> 0, given |-> FALSE, prev |-> GenesisHash, hash |-> GenesisHash]

HistoryInit ==
    /\ entries = {}
    /\ instant = 0
    /\ mutation = [m \in Mutators |-> [pc |-> "none", entry |-> NoEntry]]

IsLatest(e) ==
    \/ /\ e \in entries
       /\ \A f \in entries : f.seq <= e.seq
    \/ /\ entries = {}
       /\ e = NoEntry

\* findOne().sort({ sequence: -1 })
ReadLatest(m) ==
    /\ mutation[m].pc \in {"none", "recorded", "failed"}
    /\ \E e \in entries \cup {NoEntry} :
          /\ IsLatest(e)
          /\ mutation' = [mutation EXCEPT ![m] = [pc |-> "read", entry |-> e]]
    /\ UNCHANGED <<entries, instant>>

\* The successor of the entry the call has read.
Successor(m, e, at, given) ==
    [seq |-> e.seq + 1, at |-> at, given |-> given, prev |-> e.hash,
     hash |-> <<m, e.seq + 1, at>>]

\* params.timestamp || new Date()
StampEntry(m) ==
    /\ mutation[m].pc = "read"
    /\ mutation[m].entry.seq < MaxEntries
    /\ \E at \in 0..MaxInstant, given \in BOOLEAN :
          /\ given \/ at = instant
          /\ mutation' = [mutation EXCEPT ![m] =
                [pc |-> "stamped", entry |-> Successor(m, mutation[m].entry, at, given)]]
    /\ UNCHANGED <<entries, instant>>

\* Mutant: nothing keeps the sequence unique.
NumberTakenNever(e) == FALSE

\* The unique index on the sequence.
NumberTaken(e) == \E f \in entries : f.seq = e.seq

CreateEntry(m) ==
    /\ mutation[m].pc = "stamped"
    /\ ~NumberTaken(mutation[m].entry)
    /\ entries' = entries \cup {mutation[m].entry}
    /\ mutation' = [mutation EXCEPT ![m].pc = "recorded"]
    /\ UNCHANGED instant

\* A duplicate number, or any other storage error: the caller gets the error.
CreateThrows(m) ==
    /\ mutation[m].pc = "stamped"
    /\ mutation' = [mutation EXCEPT ![m].pc = "failed"]
    /\ UNCHANGED <<entries, instant>>

HistoryClock ==
    /\ instant < MaxInstant
    /\ instant' = instant + 1
    /\ UNCHANGED <<entries, mutation>>

HistoryNext ==
    \/ \E m \in Mutators :
          ReadLatest(m) \/ StampEntry(m) \/ CreateEntry(m) \/ CreateThrows(m)
    \/ HistoryClock

HistorySpec == HistoryInit /\ [][HistoryNext]_historyVars

-----------------------------------------------------------------------------
\* What verifyChain (changeHistory.ts:179) checks of a history's shape holds of
\* one the server has written, however its recorders interleave and fail:
\* sequences without a gap or a repetition, every entry linked to the hash of
\* the one before, and timestamps that do not go back from an entry to the next
\* when the server's clock gave both.  (A caller's own timestamp, :128, may be
\* any; the states it compares as well are whatever the callers pass.)
ChainVerifies ==
    \A e \in entries :
        /\ \A f \in entries : f.seq = e.seq => f = e
        /\ \/ e.seq = 1 /\ e.prev = GenesisHash
           \/ \E f \in entries :
                 /\ f.seq + 1 = e.seq /\ e.prev = f.hash
                 /\ f.at <= e.at \/ f.given \/ e.given
=============================================================================
