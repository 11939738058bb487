----------------------------- MODULE AuditTrail -----------------------------
(***************************************************************************)
(* The audit log of the server (server/src/services/auditTrail.ts and      *)
(* models/AuditLog.ts): recordAuditEvent hashes every record together with *)
(* the hash of the record before it, and the whole trail can be walked     *)
(* again (verifyAuditTrail) or exported page by page (exportAuditBundle).  *)
(* Requests record their events concurrently; each one reads the newest    *)
(* record, stamps and hashes its own, and inserts it.  What is stored of a *)
(* record is what the schema of AuditLog declares: it has no field for     *)
(* either hash.                                                            *)
(***************************************************************************)
EXTENDS Integers, Sequences, FiniteSets

CONSTANTS
    Recorders,  \* requests that record an audit event
    PageSize,   \* limit of an export page
    MaxClock,   \* bound on the clock
    MaxRecords  \* bound on the records created

ASSUME ExportAssumption == PageSize \in Nat \ {0}

VARIABLES
    trail,      \* the AuditLog collection
    now,        \* wall clock of the server
    created,    \* ids given out by create()
    recording,  \* the event each request is recording
    export      \* the export an auditor is paging through

auditVars == <<trail, now, created, recording, export>>

\* The fields of the (strict) schema; by stands for action, result and the
\* other fields that describe the event and are kept.
SchemaFields == {"id", "at", "by"}

\* What create stores of a document.
StoredFields(doc) == [f \in SchemaFields |-> doc[f]]

Genesis == <<"genesis">>
Undefined == <<"undefined">>

\* A field of a row that was read without casting (lean).
Field(r, f) == IF f \in DOMAIN r THEN r[f] ELSE Undefined

\* computeRecordHash: the digest is injective, so it is the hashed fields.
RecordHash(at, by, prev) == <<at, by, prev>>

\* Sort order { createdAt: 1, _id: 1 }.
Before(r, s) == r.at < s.at \/ (r.at = s.at /\ r.id < s.id)

Newest(S) == CHOOSE r \in S : \A s \in S \ {r} : Before(s, r)

\* lastRecord?.recordHash || GENESIS_HASH
NewestHash ==
    IF trail = {} \/ Field(Newest(trail), "hash") = Undefined
    THEN Genesis
    ELSE Field(Newest(trail), "hash")

NotRecording == [pc |-> "idle"]

AuditInit ==
    /\ trail = {}
    /\ now = 0
    /\ created = 0
    /\ recording = [c \in Recorders |-> NotRecording]
    /\ export = [pc |-> "none"]

ReadNewest(c) ==
    /\ recording[c] = NotRecording
    /\ recording' = [recording EXCEPT ![c] = [pc |-> "read", prev |-> NewestHash]]
    /\ UNCHANGED <<trail, now, created, export>>

\* One synchronous piece: the timestamp, the hash over it, and the document
\* with its id.
NewRecord(c) ==
    LET prev == recording[c].prev
    IN [id |-> created, at |-> now, by |-> c, prev |-> prev,
        hash |-> RecordHash(now, c, prev)]

Stamp(c) ==
    /\ recording[c].pc = "read"
    /\ created < MaxRecords
    /\ created' = created + 1
    /\ recording' = [recording EXCEPT ![c] = [pc |-> "insert", row |-> NewRecord(c)]]
    /\ UNCHANGED <<trail, now, export>>

Insert(c) ==
    /\ recording[c].pc = "insert"
    /\ trail' = trail \cup {StoredFields(recording[c].row)}
    /\ recording' = [recording EXCEPT ![c] = NotRecording]
    /\ UNCHANGED <<now, created, export>>

\* A storage error: the event is not recorded, and most callers do not notice.
RecordingFails(c) ==
    /\ recording[c].pc \in {"read", "insert"}
    /\ recording' = [recording EXCEPT ![c] = NotRecording]
    /\ UNCHANGED <<trail, now, created, export>>

AuditClock ==
    /\ now < MaxClock
    /\ now' = now + 1
    /\ UNCHANGED <<trail, created, recording, export>>

\* Mutant: the cursor is a timestamp only.
AfterCursorByTime(last) == {r \in trail : r.at > last.at}

\* buildAuditExportQuery: the rows after the last one of the previous page.
AfterCursor(last) ==
    {r \in trail : r.at > last.at \/ (r.at = last.at /\ r.id > last.id)}

\* The first rows of the sort order.
Page(S) == {r \in S : Cardinality({s \in S : Before(s, r)}) < PageSize}

\* An unfiltered export; present is what the collection held when it began.
NextExport(S, done, present) ==
    [pc |-> IF Page(S) = S THEN "ended" ELSE "paging",
     pages |-> Append(done, Page(S)), present |-> present]

StartExport ==
    /\ export.pc = "none"
    /\ export' = NextExport(trail, <<>>, trail)
    /\ UNCHANGED <<trail, now, created, recording>>

\* The cursor is the last row of the page before.
ContinueExport ==
    LET last == Newest(export.pages[Len(export.pages)])
    IN /\ export.pc = "paging"
       /\ export' = NextExport(AfterCursor(last), export.pages, export.present)
       /\ UNCHANGED <<trail, now, created, recording>>

AuditNext ==
    \/ \E c \in Recorders :
          \/ ReadNewest(c)
          \/ Stamp(c)
          \/ Insert(c)
          \/ RecordingFails(c)
    \/ AuditClock
    \/ StartExport
    \/ ContinueExport

AuditSpec == AuditInit /\ [][AuditNext]_auditVars

-----------------------------------------------------------------------------
\* verifyAuditTrail walks the records in their order: every one points at the
\* one before it, and hashes to what it says.
Earlier(r) == {s \in trail : Before(s, r)}

Linked(r) ==
    Field(r, "prev") =
        IF Earlier(r) = {} THEN Genesis ELSE Field(Newest(Earlier(r)), "hash")

Intact(r) == Field(r, "hash") = RecordHash(r.at, r.by, Field(r, "prev"))

\* auditTrail.ts:363-365 "Verify the integrity of the audit trail hash chain.
\* [...] Can be run offline to detect tampering": a trail that nobody has
\* tampered with passes.
UntamperedVerifies == \A r \in trail : Linked(r) /\ Intact(r)

\* exportAuditBundle (auditTrail.ts:566), paged to its end while records keep
\* being inserted: no row twice, none out of order, and every row that existed
\* when the export began is in it.
ExportComplete ==
    export.pc # "none" =>
        /\ \A i, j \in DOMAIN export.pages : i < j =>
              \A r \in export.pages[i], s \in export.pages[j] : Before(r, s)
        /\ export.pc = "ended" =>
              \A r \in export.present : \E i \in DOMAIN export.pages : r \in export.pages[i]
=============================================================================
