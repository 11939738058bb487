----------------------- MODULE PurchaseDisputes_proofs -----------------------
(***************************************************************************)
(* Proofs about PurchaseDisputes, for any callers, keys and bounds: the    *)
(* record implements the dispute case of DisputeCase, a key that is still  *)
(* remembered is not applied again, and the sweep escalates only what      *)
(* nobody has touched for the whole timeout.                               *)
(***************************************************************************)
EXTENDS PurchaseDisputes, FiniteSetTheorems, TLAPS

LEMMA ToType == \A e \in Events : To(e) \in Statuses
BY DEF Events, To, Statuses

LEMMA FromType == \A e \in Events : From(e) \subseteq Statuses \ {"absent", "refunded"}
BY DEF Events, From, CanFail, Statuses

LEMMA PushedType ==
    ASSUME record \in Record, NEW key \in Keys
    PROVE  Pushed(key) \in Seq(Keys)
<1> DEFINE all == Append(record.keys, key)
<1>1. record.keys \in Seq(Keys) /\ all \in Seq(Keys) /\ all # <<>>
    BY DEF Record
<1>2. Tail(all) \in Seq(Keys)
    BY <1>1
<1> QED
    BY <1>1, <1>2 DEF Pushed

\* What a transition writes.
LEMMA MovedFields ==
    ASSUME record \in Record, date \in Nat, NEW e \in Events, NEW key \in Keys
    PROVE  /\ Moved(e, key) \in Record
           /\ Moved(e, key).status = To(e)
           /\ Moved(e, key).since = date
           /\ Moved(e, key).log =
                 Append(record.log, [event |-> e, key |-> key, at |-> date])
<1>1. [event |-> e, key |-> key, at |-> date] \in LogEntry
    BY DEF LogEntry
<1>2. Append(record.log, [event |-> e, key |-> key, at |-> date]) \in Seq(LogEntry)
    BY <1>1 DEF Record
<1>3. Pushed(key) \in Seq(Keys) /\ To(e) \in Statuses /\ date \in Int
    BY PushedType, ToType
<1> QED
    BY <1>2, <1>3 DEF Moved, Record

LEMMA KeysTypes ==
    /\ EventKeys \cup {NoKey} \subseteq Keys
    /\ \A status \in Statuses, since \in Int : <<"stale", status, since>> \in Keys
BY DEF Keys

LEMMA NewFulfillmentType ==
    ASSUME NEW status \in Statuses, NEW attempted \in Int
    PROVE  NewFulfillment(status, attempted) \in Record
<1>1. <<>> \in Seq(Keys) /\ <<>> \in Seq(LogEntry)
    OBVIOUS
<1>2. Never \in Int
    BY DEF Never
<1> QED
    BY <1>1, <1>2 DEF NewFulfillment, Record

-----------------------------------------------------------------------------
(* One step *)

\* What a step may do to the record: a transition, an upserted failure, the
\* first write of a record, the stamp of the first attempt, or nothing.  The
\* sweep's update only hits the record its scan has read.
Writes ==
    \/ \E e \in Events, key \in Keys :
          /\ Applies(e, key)
          /\ record' = Moved(e, key)
          /\ e = "escalated" => \E c \in Callers :
                call[c].pc = "escalate" /\ record.since = call[c].stamp
    \/ \E key \in Keys :
          record.status = "absent" /\ record' = Moved("unlock_failed", key)
    \/ \E status \in {"pending", "delivered"} :
          record.status = "absent" /\ record' = NewFulfillment(status, Never)
    \/ \E at \in Nat \cup {record.attemptedAt} :
          record' = [record EXCEPT !.attemptedAt = at]
    \/ UNCHANGED record

\* A sweep escalates with the stamp of the record it has scanned, if there was
\* one, and the record was stale by then.
ScannedStale(c) ==
    call[c].pc = "escalate" =>
        /\ call[c].stamp # Never => call[c].since = call[c].stamp
        /\ call[c].since <= date - Timeout

DisputeInv ==
    /\ DisputeTypeOK
    /\ DOMAIN call = Callers
    /\ \A c \in Callers : ScannedStale(c)

CallType(r) ==
    \/ r = Idle
    \/ r.pc \in {"insert", "refund", "deliver"} /\ r.key \in Keys
    \/ r.pc = "attempt" /\ r.at \in Nat
    \/ /\ r.pc = "escalate"
       /\ r.status \in Statuses /\ r.since \in Int /\ r.stamp \in Int
       /\ r.stamp # Never => r.since = r.stamp
       /\ r.since <= date - Timeout

\* The calls in flight, one by one.
LEMMA CallsTyped ==
    DisputeInv <=>
        /\ record \in Record /\ date \in Nat /\ DOMAIN call = Callers
        /\ \A c \in Callers : CallType(call[c])
BY DEF DisputeInv, DisputeTypeOK, CallType, ScannedStale, Idle

LEMMA CallGoes ==
    ASSUME DisputeInv, NEW c \in Callers, NEW r, CallType(r), Goes(c, r),
           date' = date
    PROVE  DOMAIN call' = Callers /\ \A d \in Callers : CallType(call[d])'
BY CallsTyped DEF Goes, CallType

LEMMA DisputeStep ==
    ASSUME DisputeInv, [DisputeNext]_disputeVars
    PROVE  Writes /\ DOMAIN call' = Callers /\ date' \in Nat
           /\ \A c \in Callers : CallType(call[c])'
<1>1. /\ record \in Record /\ date \in Nat /\ DOMAIN call = Callers
      /\ \A c \in Callers : CallType(call[c])
    BY CallsTyped
<1>i. CallType(Idle)
    BY DEF CallType
<1>2. ASSUME NEW e \in Events, NEW key \in EventKeys \cup {NoKey}, Act(e, key)
      PROVE  Writes /\ UNCHANGED <<date, call>>
    BY <1>2, KeysTypes DEF Act, Transition, Applies, Writes
<1>3. ASSUME NEW c \in Callers, NEW key \in EventKeys \cup {NoKey}, UnlockFailed(c, key)
      PROVE  Writes /\ date' = date /\ \E r : CallType(r) /\ Goes(c, r)
  <2>1. CASE Transition("unlock_failed", key) /\ Goes(c, [pc |-> "attempt", at |-> date])
    <3>1. Writes
      BY <2>1, KeysTypes DEF Transition, Applies, Writes, Events
    <3>2. CallType([pc |-> "attempt", at |-> date])
      BY <1>1 DEF CallType
    <3> QED
      BY <1>3, <2>1, <3>1, <3>2 DEF UnlockFailed
  <2>2. CASE Goes(c, [pc |-> "insert", key |-> key]) /\ UNCHANGED record
    <3>1. CallType([pc |-> "insert", key |-> key])
      BY KeysTypes DEF CallType
    <3> QED
      BY <1>3, <2>2, <3>1 DEF UnlockFailed, Writes
  <2> QED
    BY <1>3, <2>1, <2>2 DEF UnlockFailed
<1>4. ASSUME NEW c \in Callers, InsertFailed(c)
      PROVE  Writes /\ date' = date /\ \E r : CallType(r) /\ Goes(c, r)
  <2>1. call[c].key \in Keys
    BY <1>1, <1>4 DEF InsertFailed, CallType, Idle
  <2>2. CallType([pc |-> "attempt", at |-> date])
    BY <1>1 DEF CallType
  <2> QED
    BY <1>4, <1>i, <2>1, <2>2 DEF InsertFailed, Writes
<1>5. ASSUME NEW c \in Callers, StampAttempt(c)
      PROVE  Writes /\ date' = date /\ \E r : CallType(r) /\ Goes(c, r)
  <2>1. call[c].at \in Nat
    BY <1>1, <1>5 DEF StampAttempt, CallType, Idle
  <2> QED
    BY <1>5, <1>i, <2>1 DEF StampAttempt, Writes
<1>6. ASSUME NEW c \in Callers, NEW status \in {"pending", "delivered"},
             NEW key \in EventKeys \cup {NoKey}, ReportPurchase(c, status, key)
      PROVE  Writes /\ date' = date /\ \E r : CallType(r) /\ Goes(c, r)
  <2>1. CallType([pc |-> "deliver", key |-> key])
    BY KeysTypes DEF CallType
  <2> QED
    BY <1>6, <1>i, <2>1 DEF ReportPurchase, Writes
<1>7. ASSUME NEW c \in Callers, ReportDelivered(c)
      PROVE  Writes /\ date' = date /\ \E r : CallType(r) /\ Goes(c, r)
  <2>1. call[c].key \in Keys
    BY <1>1, <1>7 DEF ReportDelivered, CallType, Idle
  <2> QED
    BY <1>7, <1>i, <2>1 DEF ReportDelivered, Transition, Applies, Writes, Events
<1>8. ASSUME NEW c \in Callers, NEW key \in EventKeys \cup {NoKey}, RequestRefund(c, key)
      PROVE  Writes /\ date' = date /\ \E r : CallType(r) /\ Goes(c, r)
  <2>1. CallType([pc |-> "refund", key |-> key])
    BY KeysTypes DEF CallType
  <2> QED
    BY <1>8, <2>1 DEF RequestRefund, Writes
<1>9. ASSUME NEW c \in Callers, SubmitRefund(c)
      PROVE  Writes /\ date' = date /\ \E r : CallType(r) /\ Goes(c, r)
  <2>1. call[c].key \in Keys
    BY <1>1, <1>9 DEF SubmitRefund, CallType, Idle
  <2> QED
    BY <1>9, <1>i, <2>1 DEF SubmitRefund, Transition, Applies, Writes, Events
<1>10. ASSUME NEW c \in Callers, ScanStale(c)
       PROVE  Writes /\ date' = date /\ \E r : CallType(r) /\ Goes(c, r)
  <2> DEFINE r == [pc |-> "escalate", status |-> record.status, since |-> Since,
                   stamp |-> record.since]
  <2>1. Since \in Int /\ record.status \in Statuses /\ record.since \in Int
        /\ (record.since # Never => Since = record.since)
    BY <1>1 DEF Since, Record
  <2>2. CallType(r)
    BY <1>10, <2>1 DEF ScanStale, CallType
  <2> QED
    BY <1>10, <2>2 DEF ScanStale, Writes
<1>11. ASSUME NEW c \in Callers, Escalate(c)
       PROVE  Writes /\ date' = date /\ \E r : CallType(r) /\ Goes(c, r)
  <2>1. StaleKey(c) \in Keys
    BY <1>1, <1>11, KeysTypes DEF Escalate, CallType, Idle, StaleKey
  <2> QED
    BY <1>11, <1>i, <2>1
    DEF Escalate, Untouched, Transition, Applies, Writes, Events
<1>12. ASSUME NEW c \in Callers, CallDies(c)
       PROVE  Writes /\ date' = date /\ \E r : CallType(r) /\ Goes(c, r)
    BY <1>12, <1>i DEF CallDies, Writes
<1>13. CASE DisputeClock
  <2>1. Writes /\ call' = call /\ date' = date + 1
    BY <1>13 DEF DisputeClock, Writes
  <2> QED
    BY <1>1, <2>1, DisputeAssumption DEF CallType, Idle
<1>14. CASE UNCHANGED disputeVars
    BY <1>1, <1>14 DEF disputeVars, Writes, CallType
<1>15. ASSUME UNCHANGED <<date, call>>, Writes
       PROVE  Writes /\ DOMAIN call' = Callers /\ date' \in Nat
              /\ \A c \in Callers : CallType(call[c])'
    BY <1>1, <1>15 DEF CallType
<1>16. ASSUME NEW c \in Callers, NEW r, CallType(r), Goes(c, r), Writes, date' = date
       PROVE  Writes /\ DOMAIN call' = Callers /\ date' \in Nat
              /\ \A d \in Callers : CallType(call[d])'
    BY <1>1, <1>16, CallGoes
<1> QED
    BY <1>2, <1>3, <1>4, <1>5, <1>6, <1>7, <1>8, <1>9, <1>10, <1>11, <1>12, <1>13,
       <1>14, <1>15, <1>16 DEF DisputeNext

LEMMA RecordStep ==
    ASSUME DisputeInv, Writes
    PROVE  record' \in Record
<1>1. record \in Record /\ date \in Nat
    BY CallsTyped
<1>2. "unlock_failed" \in Events /\ {"pending", "delivered"} \subseteq Statuses
    BY DEF Events, Statuses
<1>3. Never \in Int
    BY DEF Never
<1>4. ASSUME NEW at \in Nat \cup {record.attemptedAt},
             record' = [record EXCEPT !.attemptedAt = at]
      PROVE  record' \in Record
    BY <1>1, <1>4 DEF Record
<1> QED
    BY <1>1, <1>2, <1>3, <1>4, MovedFields, NewFulfillmentType DEF Writes

LEMMA DisputeInvStep == DisputeInv /\ [DisputeNext]_disputeVars => DisputeInv'
<1> SUFFICES ASSUME DisputeInv, [DisputeNext]_disputeVars PROVE DisputeInv'
    OBVIOUS
<1>1. Writes /\ DOMAIN call' = Callers /\ date' \in Nat
      /\ \A c \in Callers : CallType(call[c])'
    BY DisputeStep
<1>2. record' \in Record
    BY <1>1, RecordStep
<1>3. ASSUME NEW c \in Callers
      PROVE  /\ \/ call'[c] = Idle
                \/ call'[c].pc \in {"insert", "refund", "deliver"} /\ call'[c].key \in Keys
                \/ call'[c].pc = "attempt" /\ call'[c].at \in Nat
                \/ /\ call'[c].pc = "escalate"
                   /\ call'[c].status \in Statuses /\ call'[c].since \in Int
                   /\ call'[c].stamp \in Int
             /\ ScannedStale(c)'
    BY <1>1 DEF CallType, ScannedStale, Idle
<1> QED
    BY <1>1, <1>2, <1>3 DEF DisputeInv, DisputeTypeOK

LEMMA DisputeInvInit == DisputeInit => DisputeInv
<1> SUFFICES ASSUME DisputeInit PROVE DisputeInv
    OBVIOUS
<1>1. record \in Record
    BY NewFulfillmentType DEF DisputeInit, Statuses, Never
<1> QED
    BY <1>1 DEF DisputeInit, DisputeInv, DisputeTypeOK, ScannedStale, Idle

\* Every reachable record and call is well typed.
THEOREM DisputesTyped == DisputeSpec => []DisputeTypeOK
<1>1. DisputeInv => DisputeTypeOK
    BY DEF DisputeInv
<1> QED
    BY <1>1, DisputeInvInit, DisputeInvStep, PTL DEF DisputeSpec

-----------------------------------------------------------------------------
(* The record implements the case *)

LEMMA CaseStep ==
    ASSUME DisputeInv, [DisputeNext]_disputeVars
    PROVE  [Case!CaseNext]_(Standing(record.status))
<1>1. Writes /\ record \in Record /\ date \in Nat
    BY DisputeStep, CallsTyped
<1> USE DEF Case!CaseNext, Case!Report, Case!Open, Case!Close, Case!Refund
<1>2. ASSUME NEW e \in Events, NEW key \in Keys, record.status \in From(e),
             record' = Moved(e, key)
      PROVE  [Case!CaseNext]_(Standing(record.status))
  <2>1. record'.status = To(e)
    BY <1>1, <1>2, MovedFields
  <2>2. CASE e = "unlock_failed"
    BY <1>2, <2>1, <2>2 DEF From, To, CanFail, Standing
  <2>3. CASE e \in {"unlock_succeeded", "refund_requested", "escalated"}
    BY <1>2, <2>1, <2>3 DEF From, To, Standing
  <2>4. CASE e \in {"retry_scheduled", "refund_rejected"}
    BY <1>2, <2>1, <2>4 DEF From, To, Standing
  <2>5. CASE e \in {"refund_approved", "refund_settled"}
    BY <1>2, <2>1, <2>5 DEF From, To, Standing
  <2>6. CASE e = "resolved"
    BY <1>2, <2>1, <2>6 DEF From, To, Standing
  <2> QED
    BY <2>2, <2>3, <2>4, <2>5, <2>6 DEF Events
<1>3. ASSUME NEW key \in Keys, record.status = "absent",
             record' = Moved("unlock_failed", key)
      PROVE  [Case!CaseNext]_(Standing(record.status))
  <2>1. record'.status = "failed"
    BY <1>1, <1>3, MovedFields DEF Events, To
  <2> QED
    BY <1>3, <2>1 DEF Standing
<1>4. ASSUME NEW status \in {"pending", "delivered"}, record.status = "absent",
             record' = NewFulfillment(status, Never)
      PROVE  [Case!CaseNext]_(Standing(record.status))
    BY <1>4 DEF NewFulfillment, Standing
<1>5. ASSUME NEW at, record' = [record EXCEPT !.attemptedAt = at]
      PROVE  [Case!CaseNext]_(Standing(record.status))
  <2>1. record'.status = record.status
    BY <1>1, <1>5 DEF Record
  <2> QED
    BY <2>1 DEF Standing
<1>6. CASE UNCHANGED record
    BY <1>6 DEF Standing
<1> QED
    BY <1>1, <1>2, <1>3, <1>4, <1>5, <1>6 DEF Writes, Applies

\* The fulfillment record implements the dispute case, whichever calls of the
\* buyer, the maintainers, the indexer and the sweep race or break off: refunds
\* are granted out of open cases only, and are final.
THEOREM RecordImplementsCase == DisputeSpec => ImplementsCase
<1>1. DisputeInit => Case!CaseInit
    BY DEF DisputeInit, NewFulfillment, Standing, Case!CaseInit
<1>2. DisputeInv /\ [DisputeNext]_disputeVars
          => [Case!CaseNext]_(Standing(record.status))
    BY CaseStep
<1> QED
    BY <1>1, <1>2, DisputeInvInit, DisputeInvStep, PTL
    DEF DisputeSpec, ImplementsCase, Case!CaseSpec

-----------------------------------------------------------------------------
(* Escalations *)

\* The stamp of the record is the time of its last transition.
StampedByLog ==
    LET log == record.log
    IN Len(log) > 0 => record.since = log[Len(log)].at

LEMMA EscalationStep ==
    ASSUME DisputeInv, StampedByLog, EscalatedOnlyWhenIdle, Writes
    PROVE  StampedByLog' /\ EscalatedOnlyWhenIdle'
<1>1. /\ record \in Record /\ date \in Nat
      /\ \A c \in Callers : CallType(call[c])
      /\ record.log \in Seq(LogEntry)
    BY CallsTyped DEF Record
<1>2. ASSUME NEW e \in Events, NEW key \in Keys, record' = Moved(e, key),
             e = "escalated" => \E c \in Callers :
                call[c].pc = "escalate" /\ record.since = call[c].stamp
      PROVE  StampedByLog' /\ EscalatedOnlyWhenIdle'
  <2> DEFINE entry == [event |-> e, key |-> key, at |-> date]
             n == Len(record.log)
  <2>1. record'.since = date /\ record'.log = Append(record.log, entry)
    BY <1>1, <1>2, MovedFields
  <2>2. /\ n \in Nat /\ Len(record'.log) = n + 1
        /\ DOMAIN record'.log = 1..(n + 1)
        /\ DOMAIN record.log = 1..n
        /\ \A i \in 1..n : record'.log[i] = record.log[i]
        /\ record'.log[n + 1] = entry
    BY <1>1, <2>1
  <2>3. StampedByLog'
    BY <2>1, <2>2 DEF StampedByLog
  <2>4. ASSUME e = "escalated", n > 0
        PROVE  date - record.log[n].at >= Timeout
    <3>1. PICK c \in Callers : call[c].pc = "escalate" /\ record.since = call[c].stamp
      BY <1>2, <2>4
    <3>2. record.log[n] \in LogEntry /\ record.since = record.log[n].at
      BY <1>1, <2>2, <2>4 DEF StampedByLog
    <3>3. record.since \in Nat /\ record.since # Never
      BY <3>2 DEF LogEntry, Never
    <3>4. call[c].since = record.since /\ call[c].since <= date - Timeout
      BY <1>1, <3>1, <3>3 DEF CallType, Idle
    <3> QED
      BY <1>1, <3>2, <3>3, <3>4, DisputeAssumption
  <2>5. EscalatedOnlyWhenIdle'
    <3> SUFFICES ASSUME NEW i \in 1..(n + 1), record'.log[i].event = "escalated", i > 1
                 PROVE  record'.log[i].at - record'.log[i - 1].at >= Timeout
      BY <2>2 DEF EscalatedOnlyWhenIdle
    <3>1. CASE i = n + 1
      BY <2>2, <2>4, <3>1
    <3>2. CASE i \in 1..n
      <4>1. i - 1 \in 1..n
        BY <2>2, <3>2
      <4> QED
        BY <2>2, <3>2, <4>1 DEF EscalatedOnlyWhenIdle
    <3> QED
      BY <2>2, <3>1, <3>2
  <2> QED
    BY <2>3, <2>5
<1>3. ASSUME NEW key \in Keys, record' = Moved("unlock_failed", key)
      PROVE  StampedByLog' /\ EscalatedOnlyWhenIdle'
    BY <1>2, <1>3 DEF Events
<1>4. ASSUME NEW status, record' = NewFulfillment(status, Never)
      PROVE  StampedByLog' /\ EscalatedOnlyWhenIdle'
    BY <1>4 DEF NewFulfillment, StampedByLog, EscalatedOnlyWhenIdle
<1>5. ASSUME NEW at, record' = [record EXCEPT !.attemptedAt = at]
      PROVE  StampedByLog' /\ EscalatedOnlyWhenIdle'
  <2>1. record'.log = record.log /\ record'.since = record.since
    BY <1>1, <1>5 DEF Record
  <2> QED
    BY <2>1 DEF StampedByLog, EscalatedOnlyWhenIdle
<1>6. CASE UNCHANGED record
    BY <1>6 DEF StampedByLog, EscalatedOnlyWhenIdle
<1> QED
    BY <1>2, <1>3, <1>4, <1>5, <1>6 DEF Writes

\* The sweep escalates only what nobody has touched for the whole timeout,
\* whatever happens between its scan and its update.
THEOREM SweepEscalatesIdleOnly == DisputeSpec => []EscalatedOnlyWhenIdle
<1> DEFINE Inv == DisputeInv /\ StampedByLog /\ EscalatedOnlyWhenIdle
<1>1. DisputeInit => Inv
    BY DisputeInvInit
    DEF DisputeInit, NewFulfillment, StampedByLog, EscalatedOnlyWhenIdle
<1>2. Inv /\ [DisputeNext]_disputeVars => Inv'
    BY DisputeInvStep, DisputeStep, EscalationStep
<1>3. Inv => EscalatedOnlyWhenIdle
    OBVIOUS
<1> QED
    BY <1>1, <1>2, <1>3, PTL DEF DisputeSpec

-----------------------------------------------------------------------------
(***************************************************************************)
(* Idempotency keys.  The record remembers the keys of its newest keyed    *)
(* transitions, MaxKeys of them at most, in their order: a transition that *)
(* fewer than MaxKeys keyed ones have followed is found that far from the  *)
(* end of the keys.                                                        *)
(***************************************************************************)

\* The keyed transitions after the i-th one.
Later(log, i) == {n \in (i + 1)..Len(log) : log[n].key # NoKey}

Remembered(log, keys, i) ==
    (log[i].key # NoKey /\ Cardinality(Later(log, i)) < MaxKeys) =>
        /\ Cardinality(Later(log, i)) < Len(keys)
        /\ keys[Len(keys) - Cardinality(Later(log, i))] = log[i].key

KeysRemembered ==
    /\ Len(record.keys) <= MaxKeys
    /\ record.status = "absent" => record.log = <<>> /\ record.keys = <<>>
    /\ \A i \in DOMAIN record.log : Remembered(record.log, record.keys, i)

LEMMA LaterFinite ==
    ASSUME NEW log \in Seq(LogEntry), NEW i \in Nat
    PROVE  IsFiniteSet(Later(log, i)) /\ Cardinality(Later(log, i)) \in Nat
<1>1. IsFiniteSet((i + 1)..Len(log))
    BY FS_Interval
<1>2. Later(log, i) \in SUBSET ((i + 1)..Len(log))
    BY DEF Later
<1> QED
    BY <1>1, <1>2, FS_Subset, FS_CardinalityType

\* One more transition is one more later one, if it has a key.
LEMMA LaterAppend ==
    ASSUME NEW log \in Seq(LogEntry), NEW entry \in LogEntry, NEW i \in 1..Len(log)
    PROVE  Cardinality(Later(Append(log, entry), i)) =
              Cardinality(Later(log, i)) + (IF entry.key # NoKey THEN 1 ELSE 0)
<1> DEFINE n == Len(log)
           longer == Append(log, entry)
<1>1. /\ n \in Nat /\ Len(longer) = n + 1 /\ longer[n + 1] = entry
      /\ \A m \in 1..n : longer[m] = log[m]
    OBVIOUS
<1>2. CASE entry.key # NoKey
  <2>1. Later(longer, i) = Later(log, i) \cup {n + 1}
    BY <1>1, <1>2 DEF Later
  <2>2. n + 1 \notin Later(log, i)
    BY <1>1 DEF Later
  <2>3. IsFiniteSet(Later(log, i))
    BY LaterFinite
  <2>4. Cardinality(Later(log, i) \cup {n + 1}) = Cardinality(Later(log, i)) + 1
    BY <2>2, <2>3, FS_AddElement
  <2> QED
    BY <1>2, <2>1, <2>4
<1>3. CASE entry.key = NoKey
  <2>1. Later(longer, i) = Later(log, i)
    BY <1>1, <1>3 DEF Later
  <2> QED
    BY <1>3, <2>1, LaterFinite
<1> QED
    BY <1>2, <1>3

\* A pushed key is the newest one, and of the others at most the oldest goes.
LEMMA PushedKeepsNewest ==
    ASSUME record.keys \in Seq(Keys), Len(record.keys) <= MaxKeys,
           NEW key \in Keys, key # NoKey, NEW p, p = Pushed(key)
    PROVE  /\ Len(p) \in 1..MaxKeys
           /\ p[Len(p)] = key
           /\ \A k \in Nat : (k < Len(record.keys) /\ k + 1 < MaxKeys) =>
                 /\ k + 1 < Len(p)
                 /\ p[Len(p) - (k + 1)] = record.keys[Len(record.keys) - k]
<1> DEFINE keys == record.keys
           all == Append(keys, key)
           n == Len(keys)
<1>1. /\ n \in Nat /\ all \in Seq(Keys) /\ Len(all) = n + 1 /\ all[n + 1] = key
      /\ \A m \in 1..n : all[m] = keys[m]
    OBVIOUS
<1>2. CASE n + 1 <= MaxKeys
  <2>1. p = all
    BY <1>1, <1>2 DEF Pushed
  <2>2. \A k \in Nat : k < n => /\ n - k \in 1..n /\ (n + 1) - (k + 1) = n - k
                               /\ all[n - k] = keys[n - k] /\ k + 1 < n + 1
    BY <1>1
  <2> HIDE DEF all
  <2> QED
    BY <1>1, <1>2, <2>1, <2>2, DisputeAssumption
<1>3. CASE ~(n + 1 <= MaxKeys)
  <2>1. p = Tail(all) /\ n = MaxKeys
    BY <1>1, <1>3, DisputeAssumption DEF Pushed
  <2>2. Len(Tail(all)) = n /\ (\A m \in 1..n : Tail(all)[m] = all[m + 1])
    BY <1>1
  <2>3. \A k \in Nat : (k < n /\ k + 1 < n) =>
           /\ n - (k + 1) \in 1..n /\ n - k \in 1..n
           /\ Tail(all)[n - (k + 1)] = keys[n - k]
    BY <1>1, <2>2
  <2> HIDE DEF all
  <2> QED
    BY <1>1, <2>1, <2>2, <2>3, DisputeAssumption
<1> QED
    BY <1>2, <1>3

\* A transition whose key is not remembered keeps the property and the memory.
LEMMA KeysTransition ==
    ASSUME DisputeInv, KeysRemembered, KeyAppliedOnce,
           NEW e \in Events, NEW key \in Keys, record' = Moved(e, key),
           \A i \in DOMAIN record.keys : record.keys[i] # key
    PROVE  KeysRemembered' /\ KeyAppliedOnce'
<1>1. record \in Record /\ date \in Nat
    BY CallsTyped
<1> DEFINE entry == [event |-> e, key |-> key, at |-> date]
           log == record.log
           n == Len(log)
           keys == record.keys
           count(i) == Cardinality(Later(log, i))
           later(i) == Cardinality(Later(record'.log, i))
<1>2. /\ record'.status = To(e) /\ record'.log = Append(log, entry)
      /\ record'.keys = Pushed(key)
    BY <1>1, MovedFields DEF Moved, Record
<1>3. log \in Seq(LogEntry) /\ entry \in LogEntry /\ keys \in Seq(Keys)
    BY <1>1 DEF Record, LogEntry
<1>4. /\ n \in Nat /\ DOMAIN log = 1..n /\ DOMAIN record'.log = 1..(n + 1)
      /\ \A i \in 1..n : record'.log[i] = log[i]
      /\ record'.log[n + 1] = entry /\ Len(record'.log) = n + 1
    BY <1>2, <1>3
<1>5. record'.status # "absent"
    BY <1>2 DEF To, Events
<1>6. \A i \in 1..n : /\ count(i) \in Nat
                      /\ later(i) = count(i) + (IF key # NoKey THEN 1 ELSE 0)
  <2> SUFFICES ASSUME NEW i \in 1..n
               PROVE  /\ count(i) \in Nat
                      /\ later(i) = count(i) + (IF key # NoKey THEN 1 ELSE 0)
    OBVIOUS
  <2>1. later(i) = count(i) + (IF entry.key # NoKey THEN 1 ELSE 0)
    BY <1>2, <1>3, LaterAppend
  <2> QED
    BY <1>3, <2>1, LaterFinite
<1>7. later(n + 1) = 0
  <2>1. Later(record'.log, n + 1) = {}
    BY <1>4 DEF Later
  <2> QED
    BY <2>1, FS_EmptySet
<1>8. \A i \in 1..n : Remembered(log, keys, i)
    BY <1>4 DEF KeysRemembered
<1>9. Len(keys) \in Nat /\ Len(keys) <= MaxKeys /\ DOMAIN keys = 1..Len(keys)
    BY <1>3 DEF KeysRemembered
<1> HIDE DEF entry
<1>10. KeysRemembered'
  <2>1. CASE key = NoKey
    <3>1. record'.keys = keys
      BY <1>2, <2>1 DEF Pushed
    <3>2. \A i \in 1..(n + 1) : Remembered(record'.log, record'.keys, i)
      <4>1. Remembered(record'.log, record'.keys, n + 1)
        BY <1>4, <2>1 DEF Remembered, entry
      <4>2. ASSUME NEW i \in 1..n PROVE Remembered(record'.log, record'.keys, i)
        BY <1>4, <1>6, <1>8, <2>1, <3>1 DEF Remembered
      <4> QED
        BY <1>4, <4>1, <4>2
    <3> QED
      BY <1>4, <1>5, <1>9, <3>1, <3>2 DEF KeysRemembered
  <2>2. CASE key # NoKey
    <3> DEFINE p == record'.keys
    <3>1. /\ Len(p) \in 1..MaxKeys /\ p[Len(p)] = key
          /\ \A k \in Nat : (k < Len(keys) /\ k + 1 < MaxKeys) =>
                /\ k + 1 < Len(p) /\ p[Len(p) - (k + 1)] = keys[Len(keys) - k]
      BY <1>2, <1>3, <1>9, <2>2, PushedKeepsNewest
    <3>2. \A i \in 1..(n + 1) : Remembered(record'.log, p, i)
      <4>1. Remembered(record'.log, p, n + 1)
        BY <1>4, <1>7, <3>1, DisputeAssumption DEF Remembered, entry
      <4>2. ASSUME NEW i \in 1..n, log[i].key # NoKey, later(i) < MaxKeys
            PROVE  later(i) < Len(p) /\ p[Len(p) - later(i)] = log[i].key
        <5>1. count(i) \in Nat /\ later(i) = count(i) + 1 /\ count(i) < MaxKeys
          BY <1>6, <2>2, <4>2, DisputeAssumption
        <5>2. count(i) < Len(keys) /\ keys[Len(keys) - count(i)] = log[i].key
          BY <1>8, <4>2, <5>1 DEF Remembered
        <5> QED
          BY <3>1, <4>2, <5>1, <5>2
      <4>3. ASSUME NEW i \in 1..n PROVE Remembered(record'.log, p, i)
        BY <1>4, <4>2 DEF Remembered
      <4> QED
        BY <1>4, <4>1, <4>3
    <3> QED
      BY <1>4, <1>5, <3>1, <3>2, DisputeAssumption DEF KeysRemembered
  <2> QED
    BY <2>1, <2>2
<1>11. KeyAppliedOnce'
  <2> SUFFICES ASSUME NEW i \in 1..(n + 1), NEW j \in 1..(n + 1), i < j,
                      record'.log[i].key = record'.log[j].key,
                      record'.log[i].key # NoKey
               PROVE  Cardinality({m \in (i + 1)..(j - 1) : record'.log[m].key # NoKey})
                         >= MaxKeys
    BY <1>4 DEF KeyAppliedOnce
  <2>1. i \in 1..n
    BY <1>4
  <2>2. CASE j = n + 1
    <3>1. log[i].key = key /\ key # NoKey
      BY <1>4, <2>1, <2>2 DEF entry
    <3>2. {m \in (i + 1)..(j - 1) : record'.log[m].key # NoKey} = Later(log, i)
      BY <1>4, <2>1, <2>2 DEF Later
    <3>3. count(i) \in Nat
      BY <1>6, <2>1
    <3>4. ASSUME count(i) < MaxKeys PROVE FALSE
      <4>1. count(i) < Len(keys) /\ keys[Len(keys) - count(i)] = key
        BY <1>8, <2>1, <3>1, <3>4 DEF Remembered
      <4>2. Len(keys) - count(i) \in DOMAIN keys
        BY <1>9, <3>3, <4>1
      <4> QED
        BY <4>1, <4>2
    <3>5. count(i) >= MaxKeys
      BY <3>3, <3>4, DisputeAssumption
    <3> QED
      BY <3>2, <3>5
  <2>3. CASE j \in 1..n
    <3>1. {m \in (i + 1)..(j - 1) : record'.log[m].key # NoKey}
            = {m \in (i + 1)..(j - 1) : log[m].key # NoKey}
      <4>1. \A m \in (i + 1)..(j - 1) : record'.log[m] = log[m]
        BY <1>4, <2>1, <2>3
      <4> QED
        BY <4>1
    <3>2. log[i].key = log[j].key /\ log[i].key # NoKey
      BY <1>4, <2>1, <2>3
    <3> QED
      BY <1>4, <2>1, <2>3, <3>1, <3>2 DEF KeyAppliedOnce
  <2> QED
    BY <1>4, <2>2, <2>3
<1> QED
    BY <1>10, <1>11

LEMMA KeysStep ==
    ASSUME DisputeInv, KeysRemembered, KeyAppliedOnce, Writes
    PROVE  KeysRemembered' /\ KeyAppliedOnce'
<1>1. record \in Record
    BY CallsTyped
<1>2. ASSUME NEW e \in Events, NEW key \in Keys, Applies(e, key), record' = Moved(e, key)
      PROVE  KeysRemembered' /\ KeyAppliedOnce'
    BY <1>2, KeysTransition DEF Applies
<1>3. ASSUME NEW key \in Keys, record.status = "absent",
             record' = Moved("unlock_failed", key)
      PROVE  KeysRemembered' /\ KeyAppliedOnce'
  <2>1. record.keys = <<>> /\ "unlock_failed" \in Events
    BY <1>3 DEF KeysRemembered, Events
  <2> QED
    BY <1>3, <2>1, KeysTransition
<1>4. ASSUME NEW status \in {"pending", "delivered"}, record' = NewFulfillment(status, Never)
      PROVE  KeysRemembered' /\ KeyAppliedOnce'
    BY <1>4, DisputeAssumption DEF NewFulfillment, KeysRemembered, KeyAppliedOnce
<1>5. ASSUME NEW at, record' = [record EXCEPT !.attemptedAt = at]
      PROVE  KeysRemembered' /\ KeyAppliedOnce'
  <2>1. record'.log = record.log /\ record'.keys = record.keys
        /\ record'.status = record.status
    BY <1>1, <1>5 DEF Record
  <2> QED
    BY <2>1 DEF KeysRemembered, KeyAppliedOnce
<1>6. CASE UNCHANGED record
    BY <1>6 DEF KeysRemembered, KeyAppliedOnce
<1> QED
    BY <1>2, <1>3, <1>4, <1>5, <1>6 DEF Writes

\* A redelivered event or a retried request moves a record once: the same key
\* is applied again only after MaxKeys other keyed transitions pushed it out.
THEOREM KeysApplyOnce == DisputeSpec => []KeyAppliedOnce
<1> DEFINE Inv == DisputeInv /\ KeysRemembered /\ KeyAppliedOnce
<1>1. DisputeInit => Inv
  <2> SUFFICES ASSUME DisputeInit PROVE KeysRemembered /\ KeyAppliedOnce
    BY DisputeInvInit
  <2>1. record.log = <<>> /\ record.keys = <<>>
    BY DEF DisputeInit, NewFulfillment
  <2> QED
    BY <2>1, DisputeAssumption DEF KeysRemembered, KeyAppliedOnce
<1>2. Inv /\ [DisputeNext]_disputeVars => Inv'
    BY DisputeInvStep, DisputeStep, KeysStep
<1>3. Inv => KeyAppliedOnce
    OBVIOUS
<1> QED
    BY <1>1, <1>2, <1>3, PTL DEF DisputeSpec
=============================================================================
