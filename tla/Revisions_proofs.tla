-------------------------- MODULE Revisions_proofs --------------------------
(***************************************************************************)
(* Proofs about the three records whose writers continue each other: the   *)
(* change history, the drafts of a listing and the audit trail, for any    *)
(* writers and bounds.  History: what a recorder has read is an entry of   *)
(* the history, or there was none; its own entry continues that one; and   *)
(* since entries are only ever added, and none with a number that is       *)
(* taken, it still does when it is stored.  Drafts: a form only holds      *)
(* edits of the wallet its session is bound to, and while no guard is      *)
(* shown that is the connected wallet, whose slot is the only one the tab  *)
(* writes.  Audit trail: ids are never given out twice, and what an export *)
(* has not returned yet comes after its cursor.                            *)
(***************************************************************************)
EXTENDS ChangeHistory, DraftAutoSave, AuditTrail, Sums_proofs, TLAPS

\* Entry e continues an entry of the history, or begins it.
Continues(e) ==
    \/ e.seq = 1 /\ e.prev = GenesisHash
    \/ \E f \in entries :
          /\ f.seq + 1 = e.seq /\ e.prev = f.hash
          /\ f.at <= e.at \/ f.given \/ e.given

Unique == \A e, f \in entries : f.seq = e.seq => f = e

Chained == \A e \in entries : Continues(e)

\* A time the clock gave has come.
Past(e) == e.given \/ e.at <= instant

NoneFromFuture == \A e \in entries : Past(e)

ReadEntries ==
    \A m \in Mutators : mutation[m].pc = "read" =>
        mutation[m].entry = NoEntry \/ mutation[m].entry \in entries

StampedContinue ==
    \A m \in Mutators : mutation[m].pc = "stamped" =>
        /\ Continues(mutation[m].entry)
        /\ Past(mutation[m].entry)

HistoryInv ==
    /\ HistoryTypeOK
    /\ Unique /\ Chained
    /\ NoneFromFuture
    /\ ReadEntries /\ StampedContinue

LEMMA NoEntryType == NoEntry \in Entry
BY DEF NoEntry, Entry, Hashes, GenesisHash

LEMMA SuccessorType ==
    ASSUME NEW m \in Mutators, NEW e \in Entry, NEW at \in Nat, NEW given \in BOOLEAN
    PROVE  Successor(m, e, at, given) \in Entry
<1>1. <<m, e.seq + 1, at>> \in Hashes
    BY DEF Entry, Hashes
<1> QED
    BY <1>1 DEF Successor, Entry

LEMMA HistoryTypeStep == HistoryTypeOK /\ [HistoryNext]_historyVars => HistoryTypeOK'
<1> SUFFICES ASSUME HistoryTypeOK, [HistoryNext]_historyVars PROVE HistoryTypeOK'
    OBVIOUS
<1> USE DEF HistoryTypeOK, CallStates
<1>1. ASSUME NEW m \in Mutators, ReadLatest(m) PROVE HistoryTypeOK'
    BY <1>1, NoEntryType DEF ReadLatest
<1>2. ASSUME NEW m \in Mutators, StampEntry(m) PROVE HistoryTypeOK'
  <2>1. PICK at \in 0..MaxInstant, given \in BOOLEAN :
           mutation' = [mutation EXCEPT ![m] =
              [pc |-> "stamped", entry |-> Successor(m, mutation[m].entry, at, given)]]
    BY <1>2 DEF StampEntry
  <2>2. Successor(m, mutation[m].entry, at, given) \in Entry
    BY SuccessorType, HistoryAssumption
  <2> QED
    BY <1>2, <2>1, <2>2 DEF StampEntry
<1>3. ASSUME NEW m \in Mutators, CreateEntry(m) PROVE HistoryTypeOK'
    BY <1>3 DEF CreateEntry
<1>4. ASSUME NEW m \in Mutators, CreateThrows(m) PROVE HistoryTypeOK'
    BY <1>4 DEF CreateThrows
<1>5. CASE HistoryClock
    BY <1>5 DEF HistoryClock
<1>6. CASE UNCHANGED historyVars
    BY <1>6 DEF historyVars
<1> QED
    BY <1>1, <1>2, <1>3, <1>4, <1>5, <1>6 DEF HistoryNext

LEMMA StampedSuccessor ==
    ASSUME HistoryInv, NEW m \in Mutators, mutation[m].pc = "read",
           NEW at, NEW given \in BOOLEAN, given \/ at = instant
    PROVE  LET e == Successor(m, mutation[m].entry, at, given)
           IN Continues(e) /\ Past(e)
<1> DEFINE r == mutation[m].entry
           e == Successor(m, r, at, given)
<1>1. /\ r = NoEntry \/ r \in entries
      /\ r \in Entry /\ instant \in Nat
    BY DEF HistoryInv, HistoryTypeOK, ReadEntries
<1>2. e.seq = r.seq + 1 /\ e.at = at /\ e.given = given /\ e.prev = r.hash
    BY DEF Successor
<1>3. Past(e)
    BY <1>1, <1>2 DEF Past
<1>4. CASE r = NoEntry
    BY <1>2, <1>3, <1>4 DEF Continues, NoEntry
<1>5. CASE r \in entries
  <2>1. r.at <= e.at \/ r.given \/ e.given
    BY <1>2, <1>5 DEF HistoryInv, NoneFromFuture, Past
  <2> QED
    BY <1>2, <1>3, <1>5, <2>1 DEF Continues
<1> QED
    BY <1>1, <1>4, <1>5

LEMMA HistoryInvStep == HistoryInv /\ [HistoryNext]_historyVars => HistoryInv'
<1> SUFFICES ASSUME HistoryInv, [HistoryNext]_historyVars PROVE HistoryInv'
    OBVIOUS
<1>1. HistoryTypeOK /\ HistoryTypeOK'
    BY HistoryTypeStep DEF HistoryInv
<1>2. ASSUME NEW m \in Mutators, ReadLatest(m) PROVE HistoryInv'
  <2>1. UNCHANGED <<entries, instant>>
    BY <1>2 DEF ReadLatest
  <2>2. PICK e \in entries \cup {NoEntry} :
           mutation' = [mutation EXCEPT ![m] = [pc |-> "read", entry |-> e]]
    BY <1>2 DEF ReadLatest
  <2>3. ReadEntries'
    BY <1>1, <2>1, <2>2 DEF HistoryInv, HistoryTypeOK, ReadEntries
  <2>4. StampedContinue'
    BY <1>1, <2>1, <2>2 DEF HistoryInv, HistoryTypeOK, StampedContinue, Continues, Past
  <2> QED
    BY <1>1, <2>1, <2>3, <2>4
    DEF HistoryInv, Unique, Chained, NoneFromFuture, Continues, Past
<1>3. ASSUME NEW m \in Mutators, StampEntry(m) PROVE HistoryInv'
  <2>1. PICK at \in 0..MaxInstant, given \in BOOLEAN :
           /\ given \/ at = instant
           /\ mutation' = [mutation EXCEPT ![m] =
              [pc |-> "stamped", entry |-> Successor(m, mutation[m].entry, at, given)]]
    BY <1>3 DEF StampEntry
  <2> DEFINE e == Successor(m, mutation[m].entry, at, given)
  <2>2. /\ UNCHANGED <<entries, instant>> /\ Continues(e) /\ Past(e)
        /\ mutation' = [mutation EXCEPT ![m] = [pc |-> "stamped", entry |-> e]]
    BY <1>3, <2>1, StampedSuccessor DEF StampEntry
  <2> HIDE DEF e
  <2>3. ReadEntries'
    BY <1>1, <2>2 DEF HistoryInv, HistoryTypeOK, ReadEntries
  <2>4. StampedContinue'
    BY <1>1, <2>2 DEF HistoryInv, HistoryTypeOK, StampedContinue, Continues, Past
  <2> QED
    BY <1>1, <2>2, <2>3, <2>4
    DEF HistoryInv, Unique, Chained, NoneFromFuture, Continues, Past
<1>4. ASSUME NEW m \in Mutators, CreateEntry(m) PROVE HistoryInv'
  <2> DEFINE e == mutation[m].entry
  <2>1. /\ mutation[m].pc = "stamped" /\ ~NumberTaken(e)
        /\ entries' = entries \cup {e} /\ instant' = instant
        /\ mutation' = [mutation EXCEPT ![m].pc = "recorded"]
    BY <1>4 DEF CreateEntry
  <2>2. Continues(e) /\ Past(e)
    BY <2>1 DEF HistoryInv, StampedContinue
  <2>3. \A d \in Mutators :
           /\ mutation'[d].entry = mutation[d].entry
           /\ mutation'[d].pc = IF d = m THEN "recorded" ELSE mutation[d].pc
    BY <1>1, <2>1 DEF HistoryTypeOK
  <2>4. Unique'
    BY <2>1 DEF HistoryInv, Unique, NumberTaken
  <2>5. Chained'
    BY <2>1, <2>2 DEF HistoryInv, Chained, Continues
  <2>6. NoneFromFuture'
    BY <2>1, <2>2 DEF HistoryInv, NoneFromFuture, Past
  <2>7. ReadEntries'
    BY <2>1, <2>3 DEF HistoryInv, ReadEntries
  <2>8. StampedContinue'
    BY <2>1, <2>3 DEF HistoryInv, StampedContinue, Continues, Past
  <2> QED
    BY <1>1, <2>4, <2>5, <2>6, <2>7, <2>8 DEF HistoryInv
<1>5. ASSUME NEW m \in Mutators, CreateThrows(m) PROVE HistoryInv'
  <2>1. UNCHANGED <<entries, instant>>
    BY <1>5 DEF CreateThrows
  <2>2. \A d \in Mutators :
           /\ mutation'[d].entry = mutation[d].entry
           /\ mutation'[d].pc = IF d = m THEN "failed" ELSE mutation[d].pc
    BY <1>1, <1>5 DEF CreateThrows, HistoryTypeOK
  <2>3. ReadEntries' /\ StampedContinue'
    BY <2>1, <2>2 DEF HistoryInv, ReadEntries, StampedContinue, Continues, Past
  <2> QED
    BY <1>1, <2>1, <2>3 DEF HistoryInv, Unique, Chained, NoneFromFuture, Continues, Past
<1>6. CASE HistoryClock
  <2>1. UNCHANGED <<entries, mutation>> /\ instant' = instant + 1 /\ instant \in Nat
    BY <1>1, <1>6 DEF HistoryClock, HistoryTypeOK
  <2>2. \A e \in Entry : e.at \in Nat
    BY DEF Entry
  <2>3. NoneFromFuture'
    BY <1>1, <2>1, <2>2 DEF HistoryInv, NoneFromFuture, Past, HistoryTypeOK
  <2>4. StampedContinue'
    BY <1>1, <2>1, <2>2 DEF HistoryInv, StampedContinue, Continues, Past, HistoryTypeOK
  <2> QED
    BY <1>1, <2>1, <2>3, <2>4 DEF HistoryInv, Unique, Chained, ReadEntries, Continues
<1>7. CASE UNCHANGED historyVars
    BY <1>1, <1>7
    DEF historyVars, HistoryInv, Unique, Chained, NoneFromFuture, ReadEntries,
        StampedContinue, Continues, Past
<1> QED
    BY <1>2, <1>3, <1>4, <1>5, <1>6, <1>7 DEF HistoryNext

LEMMA HistoryInvInit == HistoryInit => HistoryInv
BY NoEntryType
DEF HistoryInit, HistoryInv, HistoryTypeOK, CallStates, Unique, Chained,
    NoneFromFuture, ReadEntries, StampedContinue

\* Every history the server has written has the shape verifyChain checks:
\* numbers without a gap or a repetition, every entry linked to the one before,
\* and times of the server's clock that never go back from one to the next,
\* however many recorders interleave and fail.
THEOREM HistoryVerifies == HistorySpec => []ChainVerifies
<1>1. HistoryInv => ChainVerifies
    BY DEF HistoryInv, ChainVerifies, Unique, Chained, Continues
<1> QED
    BY <1>1, HistoryInvInit, HistoryInvStep, PTL DEF HistorySpec

----------------------------------------------------------------------------

Wallet == Wallets \cup {Nothing}
NetworkOrNone == Networks \cup {Nothing}

TabState ==
    [address : Wallet, network : Networks, form : SUBSET Wallet, dirty : BOOLEAN,
     owner : Wallet, on : NetworkOrNone, draftOwner : Wallet, loadedKey : Wallet,
     known : Nat, conflict : Nat, pending : SUBSET Wallet, guard : Wallet]

Draft ==
    [revision : Nat, form : SUBSET Wallet, owner : Wallet, on : NetworkOrNone]

DraftTypeOK ==
    /\ slot \in [Wallets -> Draft]
    /\ tab \in [Tabs -> TabState]
    /\ writes \in Nat

\* The form of a session holds no edits but its own, and counts as dirty.
OwnSession(d) ==
    /\ d.form \cup d.pending \subseteq {Nothing, d.owner}
    /\ d.form \cup d.pending # {} => d.dirty = TRUE

\* The session is the connected wallet's, or autosave rests.
BoundSession(d) ==
    /\ d.guard = Nothing /\ d.address # Nothing => d.owner = d.address
    /\ d.guard # Nothing => d.loadedKey = Nothing
    /\ d.conflict # 0 => /\ d.guard = Nothing /\ d.address # Nothing
                         /\ d.dirty = TRUE

OwnDraft(w, s) == s.form \subseteq {Nothing, w} /\ s.owner \in {Nothing, w}

DraftInv ==
    /\ DraftTypeOK
    /\ \A t \in Tabs : OwnSession(tab[t]) /\ BoundSession(tab[t])
    /\ \A w \in Wallets : OwnDraft(w, slot[w])

LEMMA NewTabType ==
    ASSUME NEW n \in Networks
    PROVE  NewTab(n) \in TabState
BY DEF NewTab, TabState, EmptyForm, Wallet, NetworkOrNone

LEMMA NoDraftType == NoDraft \in Draft /\ \A w \in Wallets : OwnDraft(w, NoDraft)
BY DEF NoDraft, Draft, EmptyForm, Wallet, NetworkOrNone, OwnDraft

\* A tab moves to a sound state and the slots stay sound.
LEMMA BecomesKeeps ==
    ASSUME DraftInv, NEW t \in Tabs, NEW d \in TabState, Becomes(t, d),
           OwnSession(d), BoundSession(d),
           slot' \in [Wallets -> Draft], \A w \in Wallets : OwnDraft(w, slot'[w]),
           writes' \in Nat
    PROVE  DraftInv'
<1>1. \A u \in Tabs : tab'[u] = IF u = t THEN d ELSE tab[u]
    BY DEF DraftInv, DraftTypeOK, Becomes
<1>2. tab' \in [Tabs -> TabState]
    BY DEF DraftInv, DraftTypeOK, Becomes
<1>3. \A u \in Tabs : OwnSession(tab[u])' /\ BoundSession(tab[u])'
    BY <1>1 DEF DraftInv, OwnSession, BoundSession
<1> QED
    BY <1>2, <1>3 DEF DraftInv, DraftTypeOK, OwnDraft

\* Writing the connected wallet's own edits to its own slot keeps the slots
\* sound.
LEMMA StoredKeeps ==
    ASSUME DraftInv, NEW w \in Wallets, NEW form \in SUBSET Wallet,
           form \subseteq {Nothing, w}, NEW n \in NetworkOrNone, Stored(w, form, w, n)
    PROVE  /\ slot' \in [Wallets -> Draft]
           /\ \A v \in Wallets : OwnDraft(v, slot'[v])
           /\ writes' \in Nat
<1> DEFINE s == [revision |-> writes + 1, form |-> form, owner |-> w, on |-> n]
<1>1. s \in Draft /\ OwnDraft(w, s)
    BY DEF DraftInv, DraftTypeOK, Draft, Wallet, OwnDraft
<1>2. slot' = [slot EXCEPT ![w] = s] /\ writes' = writes + 1
    BY DEF Stored
<1> QED
    BY <1>1, <1>2 DEF DraftInv, DraftTypeOK

LEMMA FlushedKeeps ==
    ASSUME DraftInv, NEW t \in Tabs, NEW d \in TabState, Flushed(t, d),
           d.address \in Wallets, OwnSession(d), BoundSession(d), d.guard = Nothing
    PROVE  DraftInv'
<1>1. CASE d.form = EmptyForm
  <2>1. Becomes(t, d) /\ Unwritten
    BY <1>1 DEF Flushed
  <2> QED
    BY <2>1, BecomesKeeps DEF Unwritten, DraftInv, DraftTypeOK
<1>2. CASE d.form # EmptyForm
  <2> DEFINE e == [d EXCEPT !.known = writes + 1]
  <2>1. Stored(d.address, d.form, d.address, d.network) /\ Becomes(t, e)
    BY <1>2 DEF Flushed
  <2>2. /\ d.form \in SUBSET Wallet /\ d.network \in NetworkOrNone
        /\ d.form \subseteq {Nothing, d.address}
    BY DraftAssumption DEF TabState, NetworkOrNone, OwnSession, BoundSession
  <2>3. e \in TabState /\ OwnSession(e) /\ BoundSession(e)
    BY DEF DraftInv, DraftTypeOK, TabState, OwnSession, BoundSession
  <2> HIDE DEF e
  <2> QED
    BY <2>1, <2>2, <2>3, StoredKeeps, BecomesKeeps
<1> QED
    BY <1>1, <1>2

LEMMA ReconciledKeeps ==
    ASSUME DraftInv, NEW t \in Tabs, NEW d \in TabState, Reconciled(t, d),
           OwnSession(d), d.conflict = 0
    PROVE  DraftInv'
<1>1. CASE d.address = Nothing
  <2> DEFINE e == Guarded(d, IF d.dirty THEN d.owner ELSE Nothing)
  <2>1. Becomes(t, e) /\ Unwritten
    BY <1>1 DEF Reconciled
  <2>2. /\ e \in TabState /\ e.loadedKey = Nothing /\ e.conflict = 0
        /\ e.address = d.address /\ e.owner = d.owner /\ e.dirty = d.dirty
        /\ e.form = d.form /\ e.pending = d.pending
    BY DEF Guarded, TabState, Wallet
  <2>3. OwnSession(e) /\ BoundSession(e)
    BY <1>1, <2>2 DEF OwnSession, BoundSession
  <2> HIDE DEF e
  <2> QED
    BY <2>1, <2>2, <2>3, BecomesKeeps DEF Unwritten, DraftInv, DraftTypeOK
<1>2. CASE d.address # Nothing /\ ForeignEdits(d)
  <2> DEFINE e == Guarded([d EXCEPT !.pending = EmptyForm], d.owner)
  <2>1. Becomes(t, e) /\ Unwritten
    BY <1>2 DEF Reconciled
  <2>2. e \in TabState /\ OwnSession(e) /\ BoundSession(e)
    BY <1>2 DEF Guarded, TabState, Wallet, OwnSession, BoundSession, ForeignEdits, EmptyForm
  <2> HIDE DEF e
  <2> QED
    BY <2>1, <2>2, BecomesKeeps DEF Unwritten, DraftInv, DraftTypeOK
<1>3. CASE d.address # Nothing /\ ~ForeignEdits(d) /\ ForeignDraft(d)
  <2> DEFINE e == Guarded(d, d.address)
  <2>1. Becomes(t, e) /\ Unwritten
    BY <1>3 DEF Reconciled
  <2>2. e \in TabState /\ OwnSession(e) /\ BoundSession(e)
    BY <1>3 DEF Guarded, TabState, Wallet, OwnSession, BoundSession
  <2> HIDE DEF e
  <2> QED
    BY <2>1, <2>2, BecomesKeeps DEF Unwritten, DraftInv, DraftTypeOK
<1>4. CASE d.address # Nothing /\ ~ForeignEdits(d) /\ ~ForeignDraft(d)
  <2> DEFINE s == slot[d.address]
  <2>1. d.address \in Wallets /\ s \in Draft /\ OwnDraft(d.address, s)
    BY <1>4 DEF TabState, Wallet, DraftInv, DraftTypeOK
  <2>2. CASE d.dirty /\ d.owner = d.address
    <3> DEFINE e == [Bound(d) EXCEPT !.known = s.revision]
    <3>1. Flushed(t, e)
      BY <1>4, <2>2 DEF Reconciled
    <3>2. /\ e \in TabState /\ OwnSession(e) /\ BoundSession(e)
          /\ e.guard = Nothing /\ e.address = d.address
      BY <2>1, <2>2
      DEF Bound, TabState, Wallet, NetworkOrNone, OwnSession, BoundSession, Draft
    <3> HIDE DEF e
    <3> QED
      BY <2>1, <3>1, <3>2, FlushedKeeps
  <2>3. CASE ~(d.dirty /\ d.owner = d.address)
    <3> DEFINE e == IF s.form # EmptyForm
                    THEN [Bound(d) EXCEPT !.form = s.form, !.dirty = TRUE,
                                          !.known = s.revision]
                    ELSE Bound(d)
    <3>1. Becomes(t, e) /\ Unwritten
      BY <1>4, <2>3 DEF Reconciled
    <3>2. d.form \cup d.pending \subseteq {Nothing}
      BY <1>4, <2>3 DEF ForeignEdits, OwnSession
    <3>3. CASE s.form # EmptyForm
      <4>1. e \in TabState /\ OwnSession(e) /\ BoundSession(e)
        BY <2>1, <3>2, <3>3
        DEF Bound, TabState, Wallet, NetworkOrNone, OwnSession, BoundSession, Draft,
            OwnDraft
      <4> HIDE DEF e
      <4> QED
        BY <3>1, <4>1, BecomesKeeps DEF Unwritten, DraftInv, DraftTypeOK
    <3>4. CASE s.form = EmptyForm
      <4>1. e \in TabState /\ OwnSession(e) /\ BoundSession(e)
        BY <2>1, <3>2, <3>4
        DEF Bound, TabState, Wallet, NetworkOrNone, OwnSession, BoundSession
      <4> HIDE DEF e
      <4> QED
        BY <3>1, <4>1, BecomesKeeps DEF Unwritten, DraftInv, DraftTypeOK
    <3> QED
      BY <3>3, <3>4
  <2> QED
    BY <2>2, <2>3
<1> QED
    BY <1>1, <1>2, <1>3, <1>4

LEMMA DraftInvStep == DraftInv /\ [DraftNext]_draftVars => DraftInv'
<1> SUFFICES ASSUME DraftInv, [DraftNext]_draftVars PROVE DraftInv'
    OBVIOUS
<1>0. \A t \in Tabs : tab[t] \in TabState /\ OwnSession(tab[t]) /\ BoundSession(tab[t])
    BY DEF DraftInv, DraftTypeOK
<1>1. ASSUME NEW t \in Tabs, Edit(t) PROVE DraftInv'
  <2> DEFINE d == tab[t]
             author == IF d.guard = Nothing THEN d.address ELSE Nothing
             e == [d EXCEPT !.form = @ \cup {author}, !.dirty = TRUE]
  <2>1. Becomes(t, e) /\ Unwritten
    BY <1>1 DEF Edit
  <2>2. /\ e \in TabState /\ e.form = d.form \cup {author} /\ e.dirty = TRUE
        /\ e.pending = d.pending /\ e.owner = d.owner /\ e.address = d.address
        /\ e.guard = d.guard /\ e.conflict = d.conflict /\ e.loadedKey = d.loadedKey
    BY <1>0 DEF TabState, Wallet
  <2>3. author \in {Nothing, d.owner}
    BY <1>0 DEF BoundSession
  <2>4. OwnSession(e) /\ BoundSession(e)
    BY <1>0, <2>2, <2>3 DEF OwnSession, BoundSession
  <2> HIDE DEF e
  <2> QED
    BY <2>1, <2>2, <2>4, BecomesKeeps DEF Unwritten, DraftInv, DraftTypeOK
<1>2. ASSUME NEW t \in Tabs, Save(t) PROVE DraftInv'
  <2> DEFINE d == tab[t]
             s == slot[d.address]
             e == [d EXCEPT !.pending = d.form, !.conflict = s.revision]
  <2>1. /\ d.address \in Wallets /\ d.guard = Nothing /\ d.form # EmptyForm
        /\ s.revision \in Nat
    BY <1>0, <1>2 DEF Save, TabState, Wallet, BoundSession, DraftInv, DraftTypeOK, Draft
  <2>2. \/ Becomes(t, e) /\ Unwritten
        \/ Flushed(t, d)
    BY <1>2 DEF Save
  <2>3. /\ e \in TabState /\ e.form = d.form /\ e.pending = d.form
        /\ e.dirty = d.dirty /\ e.owner = d.owner /\ e.address = d.address
        /\ e.guard = d.guard /\ e.loadedKey = d.loadedKey
    BY <1>0, <2>1 DEF TabState
  <2>4. OwnSession(e) /\ BoundSession(e)
    BY <1>0, <2>1, <2>3, DraftAssumption DEF OwnSession, BoundSession, EmptyForm
  <2>5. CASE Becomes(t, e) /\ Unwritten
    <3> HIDE DEF e
    <3> QED
      BY <2>3, <2>5, <2>4, BecomesKeeps DEF Unwritten, DraftInv, DraftTypeOK
  <2>6. CASE Flushed(t, d)
    BY <1>0, <2>1, <2>6, FlushedKeeps
  <2> QED
    BY <2>2, <2>5, <2>6
<1>3. ASSUME NEW t \in Tabs, NEW w \in Wallets \cup {Nothing}, NEW n \in Networks,
             Switch(t, w, n)
      PROVE  DraftInv'
  <2> DEFINE e == [tab[t] EXCEPT !.address = w, !.network = n, !.conflict = 0, !.known = 0]
  <2>1. Reconciled(t, e)
    BY <1>3 DEF Switch
  <2>2. e \in TabState /\ OwnSession(e) /\ e.conflict = 0
    BY <1>0 DEF TabState, Wallet, OwnSession
  <2> HIDE DEF e
  <2> QED
    BY <2>1, <2>2, ReconciledKeeps
<1>4. ASSUME NEW t \in Tabs, NEW keep \in SUBSET Wallets,
             slot' = [w \in Wallets |-> IF w \in keep THEN slot[w] ELSE NoDraft],
             Becomes(t, [NewTab(tab[t].network) EXCEPT
                           !.address = tab[t].address, !.owner = tab[t].address,
                           !.on = tab[t].network, !.loadedKey = tab[t].address]),
             UNCHANGED writes
      PROVE  DraftInv'
  <2> DEFINE d == tab[t]
             e == [NewTab(d.network) EXCEPT
                     !.address = d.address, !.owner = d.address, !.on = d.network,
                     !.loadedKey = d.address]
  <2>1. NewTab(d.network) \in TabState
    BY <1>0, NewTabType DEF TabState
  <2>2. e \in TabState /\ OwnSession(e) /\ BoundSession(e)
    BY <1>0, <2>1 DEF NewTab, EmptyForm, TabState, NetworkOrNone, OwnSession, BoundSession
  <2>3. /\ slot' \in [Wallets -> Draft] /\ writes' \in Nat
        /\ \A w \in Wallets : OwnDraft(w, slot'[w])
    BY <1>4, NoDraftType DEF DraftInv, DraftTypeOK
  <2>4. Becomes(t, e)
    BY <1>4
  <2> HIDE DEF e
  <2> QED
    BY <2>2, <2>3, <2>4, BecomesKeeps
<1>5. ASSUME NEW t \in Tabs, DiscardDraft(t) PROVE DraftInv'
  <2>1. slot' = [w \in Wallets |-> IF w \in Wallets \ {tab[t].address}
                                   THEN slot[w] ELSE NoDraft]
    BY <1>5 DEF DiscardDraft
  <2> QED
    BY <1>4, <1>5, <2>1 DEF DiscardDraft
<1>6. ASSUME NEW t \in Tabs, DiscardGuarded(t) PROVE DraftInv'
  <2>1. slot' = [w \in Wallets |-> IF w \in Wallets \ {tab[t].guard}
                                   THEN slot[w] ELSE NoDraft]
    BY <1>6 DEF DiscardGuarded, DraftInv, DraftTypeOK
  <2> QED
    BY <1>4, <1>6, <2>1 DEF DiscardGuarded
<1>7. ASSUME NEW t \in Tabs, KeepRemote(t) PROVE DraftInv'
  <2> DEFINE d == tab[t]
             s == slot[d.address]
             e == [d EXCEPT !.form = IF s.form # EmptyForm THEN s.form ELSE @,
                            !.known = d.conflict, !.conflict = 0,
                            !.pending = EmptyForm]
  <2>1. /\ d.address \in Wallets /\ d.guard = Nothing /\ d.owner = d.address
        /\ d.conflict # 0 /\ d.conflict \in Nat /\ d.dirty = TRUE
        /\ s \in Draft /\ OwnDraft(d.address, s)
    BY <1>0, <1>7 DEF KeepRemote, TabState, Wallet, BoundSession, DraftInv, DraftTypeOK
  <2>2. Becomes(t, e) /\ UNCHANGED writes
    BY <1>7 DEF KeepRemote
  <2>3. /\ e \in TabState /\ e.owner = d.owner /\ e.guard = d.guard /\ e.conflict = 0
        /\ e.address = d.address /\ e.dirty = d.dirty /\ e.loadedKey = d.loadedKey
        /\ e.form = IF s.form # EmptyForm THEN s.form ELSE d.form
        /\ e.pending = EmptyForm
    BY <1>0, <2>1 DEF TabState, Draft, EmptyForm
  <2>4. OwnSession(e) /\ BoundSession(e)
    BY <1>0, <2>1, <2>3 DEF OwnSession, BoundSession, OwnDraft, EmptyForm
  <2>5. slot' = [slot EXCEPT ![d.address].revision = d.conflict]
    BY <1>7 DEF KeepRemote
  <2>6. slot' \in [Wallets -> Draft] /\ \A w \in Wallets : OwnDraft(w, slot'[w])
    BY <2>1, <2>5 DEF DraftInv, DraftTypeOK, Draft, OwnDraft
  <2>7. writes' \in Nat
    BY <2>2 DEF DraftInv, DraftTypeOK
  <2> HIDE DEF e
  <2> QED
    BY <2>2, <2>3, <2>4, <2>6, <2>7, BecomesKeeps
<1>8. ASSUME NEW t \in Tabs, KeepLocal(t) PROVE DraftInv'
  <2> DEFINE d == tab[t]
             form == IF d.pending # EmptyForm THEN d.pending ELSE d.form
             n == IF d.on # Nothing THEN d.on ELSE d.network
             e == [d EXCEPT !.known = writes + 1, !.conflict = 0, !.pending = EmptyForm]
  <2>1. /\ d.address \in Wallets /\ d.guard = Nothing /\ d.owner = d.address
        /\ d.address # Nothing
    BY <1>0, <1>8 DEF KeepLocal, TabState, Wallet, BoundSession
  <2>2. Becomes(t, e)
    BY <1>8 DEF KeepLocal
  <2>3. Stored(d.address, form, d.address, n)
    BY <1>8, <2>1 DEF KeepLocal
  <2>4. form \in SUBSET Wallet /\ n \in NetworkOrNone /\ form \subseteq {Nothing, d.address}
    BY <1>0, <2>1 DEF TabState, NetworkOrNone, OwnSession
  <2>5. writes + 1 \in Nat
    BY DEF DraftInv, DraftTypeOK
  <2>6. /\ e \in TabState /\ e.form = d.form /\ e.pending = EmptyForm
        /\ e.dirty = d.dirty /\ e.owner = d.owner /\ e.address = d.address
        /\ e.guard = d.guard /\ e.loadedKey = d.loadedKey /\ e.conflict = 0
    BY <1>0, <2>5 DEF TabState, EmptyForm
  <2>7. OwnSession(e) /\ BoundSession(e)
    BY <1>0, <2>6 DEF OwnSession, BoundSession, EmptyForm
  <2> HIDE DEF e, form, n
  <2> QED
    BY <2>1, <2>2, <2>3, <2>4, <2>6, <2>7, StoredKeeps, BecomesKeeps
<1>9. ASSUME NEW t \in Tabs, Adopt(t) PROVE DraftInv'
  <2> DEFINE d == tab[t]
             form == IF d.form = EmptyForm THEN EmptyForm ELSE {d.address}
             e == [Bound(d) EXCEPT !.form = form, !.known = slot[d.address].revision,
                                   !.conflict = 0, !.pending = EmptyForm]
  <2>1. d.address \in Wallets /\ slot[d.address].revision \in Nat
    BY <1>0, <1>9 DEF Adopt, TabState, Wallet, DraftInv, DraftTypeOK, Draft
  <2>2. Bound(d).form = d.form
    BY <1>0 DEF Bound, TabState
  <2>3. Flushed(t, e)
    BY <1>9, <2>2 DEF Adopt
  <2>4. /\ e \in TabState /\ e.owner = d.address /\ e.guard = Nothing
        /\ e.conflict = 0 /\ e.address = d.address /\ e.dirty = d.dirty
        /\ e.form = form /\ e.pending = EmptyForm
    BY <1>0, <2>1 DEF Bound, TabState, Wallet, NetworkOrNone, EmptyForm
  <2>5. OwnSession(e) /\ BoundSession(e)
    BY <1>0, <2>1, <2>4 DEF OwnSession, BoundSession, EmptyForm
  <2> HIDE DEF e
  <2> QED
    BY <2>1, <2>3, <2>4, <2>5, FlushedKeeps
<1>10. CASE UNCHANGED draftVars
    BY <1>10 DEF draftVars, DraftInv, DraftTypeOK, OwnSession, BoundSession, OwnDraft
<1> QED
    BY <1>1, <1>2, <1>3, <1>5, <1>6, <1>7, <1>8, <1>9, <1>10 DEF DraftNext

LEMMA DraftInvInit == DraftInit => DraftInv
<1> SUFFICES ASSUME DraftInit PROVE DraftInv
    OBVIOUS
<1>1. DraftTypeOK
    BY NewTabType, NoDraftType DEF DraftInit, DraftTypeOK
<1>2. \A t \in Tabs : OwnSession(tab[t]) /\ BoundSession(tab[t])
    BY DEF DraftInit, NewTab, EmptyForm, OwnSession, BoundSession
<1> QED
    BY <1>1, <1>2, NoDraftType DEF DraftInit, DraftInv

\* For any tabs, wallets and networks, and however often drafts are written, no
\* edits pass to another wallet's draft or listing unless they are adopted,
\* those typed under a guard excepted.
THEOREM DraftsStayOwn == DraftSpec => []OwnEditsOnly
<1>1. DraftInv => OwnEditsOnly
  <2> SUFFICES ASSUME DraftInv PROVE OwnEditsOnly
    OBVIOUS
  <2>1. ASSUME NEW t \in Tabs, CanPublish(tab[t])
        PROVE  tab[t].form \subseteq {Nothing, tab[t].address}
    BY <2>1 DEF DraftInv, OwnSession, BoundSession, CanPublish
  <2> QED
    BY <2>1 DEF DraftInv, OwnDraft, OwnEditsOnly
<1> QED
    BY <1>1, DraftInvInit, DraftInvStep, PTL DEF DraftSpec

-----------------------------------------------------------------------------
(***************************************************************************)
(* The order of audit records.  Timestamps may be equal, ids are not.      *)
(***************************************************************************)

Rows(S) ==
    /\ IsFiniteSet(S)
    /\ \A r \in S : r.id \in Nat /\ r.at \in Nat
    /\ \A r, s \in S : r.id = s.id => r = s

Below(S, r) == {s \in S : Before(s, r)}

LEMMA BeforeIsOrder ==
    ASSUME NEW S, Rows(S), NEW r \in S, NEW s \in S
    PROVE  /\ ~Before(r, r)
           /\ r = s \/ Before(r, s) \/ Before(s, r)
           /\ Before(r, s) => ~Before(s, r)
           /\ \A q \in S : Before(q, r) /\ Before(r, s) => Before(q, s)
BY DEF Rows, Before

LEMMA SubsetOfRows ==
    ASSUME NEW S, Rows(S), NEW P, P \subseteq S
    PROVE  Rows(P)
BY FS_Subset DEF Rows

LEMMA BelowType ==
    ASSUME NEW S, Rows(S), NEW r
    PROVE  /\ IsFiniteSet(Below(S, r))
           /\ Cardinality(Below(S, r)) \in Nat
           /\ Cardinality(Below(S, r)) <= Cardinality(S)
           /\ Cardinality(S) \in Nat
<1>1. IsFiniteSet(S) /\ Below(S, r) \subseteq S
  BY DEF Rows, Below
<1> QED BY <1>1, FS_Subset, FS_CardinalityType

\* More rows are below a later one.
LEMMA BelowGrows ==
    ASSUME NEW S, Rows(S), NEW r \in S, NEW s \in S, Before(r, s)
    PROVE  Cardinality(Below(S, r)) < Cardinality(Below(S, s))
<1>1. Below(S, r) \subseteq Below(S, s) /\ r \in Below(S, s) /\ r \notin Below(S, r)
  BY BeforeIsOrder DEF Below
<1>2. IsFiniteSet(Below(S, s))
  BY BelowType
<1>3. Below(S, r) # Below(S, s)
  BY <1>1
<1>4. /\ Cardinality(Below(S, r)) <= Cardinality(Below(S, s))
      /\ Cardinality(Below(S, r)) # Cardinality(Below(S, s))
  <2> DEFINE P == Below(S, r)
             Q == Below(S, s)
  <2>1. IsFiniteSet(Q) /\ P \in SUBSET Q /\ P # Q
    BY <1>1, <1>2, <1>3
  <2> HIDE DEF P, Q
  <2>2. Cardinality(P) <= Cardinality(Q) /\ Cardinality(P) # Cardinality(Q)
    BY <2>1, FS_Subset
  <2> QED BY <2>2 DEF P, Q
<1>5. Cardinality(Below(S, r)) \in Nat /\ Cardinality(Below(S, s)) \in Nat
  BY BelowType
<1> QED BY <1>4, <1>5

\* A nonempty set of rows has one that all others are before.
LEMMA NewestIsNewest ==
    ASSUME NEW S, Rows(S), S # {}
    PROVE  /\ Newest(S) \in S
           /\ \A s \in S : s = Newest(S) \/ Before(s, Newest(S))
<1> DEFINE Card(r) == Cardinality(Below(S, r))
           Bounds == {n \in Nat : \A s \in S : Card(s) <= n}
<1>1. \A s \in S : Card(s) \in Nat /\ Card(s) <= Cardinality(S)
  BY BelowType
<1>2. Cardinality(S) \in Nat
  BY BelowType
<1>3. Cardinality(S) \in Bounds
  BY <1>1, <1>2
<1>4. Bounds \subseteq Nat /\ Bounds # {}
  BY <1>3
<1>5. PICK n \in Bounds : \A k \in Bounds : n <= k
  <2> HIDE DEF Bounds
  <2> QED BY <1>4, LeastNatural
<1>6. PICK r \in S : Card(r) = n
  <2>1. SUFFICES ASSUME \A s \in S : Card(s) # n PROVE FALSE
    OBVIOUS
  <2> HIDE DEF Card
  <2>2. \A s \in S : Card(s) \in Nat /\ Card(s) <= n /\ n \in Nat
    BY <1>1, <1>5
  <2>3. \A s \in S : Card(s) <= n - 1
    BY <2>1, <2>2
  <2>4. n - 1 \in Nat
    <3>1. PICK s \in S : TRUE
      OBVIOUS
    <3> QED BY <2>2, <2>3, <3>1
  <2>5. n - 1 \in Bounds
    BY <2>3, <2>4
  <2>6. n <= n - 1
    BY <1>5, <2>5
  <2> QED BY <2>4, <2>6
<1>7. \A s \in S : s = r \/ Before(s, r)
  <2> SUFFICES ASSUME NEW s \in S, s # r PROVE Before(s, r)
    OBVIOUS
  <2>1. ~Before(r, s)
    <3>1. Before(r, s) => Card(r) < Card(s)
      BY BelowGrows
    <3> HIDE DEF Card
    <3>2. Card(s) <= Card(r)
      BY <1>5, <1>6
    <3> QED BY <1>1, <3>1, <3>2
  <2> QED BY <2>1, BeforeIsOrder
<1>8. \E q \in S : \A s \in S \ {q} : Before(s, q)
  BY <1>7
<1>9. Newest(S) \in S /\ \A s \in S \ {Newest(S)} : Before(s, Newest(S))
  BY <1>8 DEF Newest
<1> QED BY <1>9

\* A page of a nonempty set has a row, and all others come after it.
LEMMA PageIsFirst ==
    ASSUME NEW S, Rows(S)
    PROVE  /\ Page(S) \subseteq S
           /\ S # {} => Page(S) # {}
           /\ \A p \in Page(S), r \in S \ Page(S) : Before(p, r)
<1> DEFINE Card(r) == Cardinality(Below(S, r))
<1>1. \A r \in S : Card(r) \in Nat
  BY BelowType
<1>2. \A r \in S : r \in Page(S) <=> Card(r) < PageSize
  BY DEF Page, Below
<1>3. \A r, s \in S : Before(r, s) => Card(r) < Card(s)
  BY BelowGrows
<1>4. ASSUME S # {} PROVE Page(S) # {}
  <2> DEFINE Cards == {Card(r) : r \in S}
  <2>1. Cards \subseteq Nat /\ Cards # {}
    BY <1>1, <1>4
  <2>2. PICK n \in Cards : \A k \in Cards : n <= k
    <3> HIDE DEF Cards
    <3> QED BY <2>1, LeastNatural
  <2>3. PICK r \in S : Card(r) = n
    BY <2>2
  <2>4. Below(S, r) = {}
    <3> SUFFICES ASSUME NEW s \in Below(S, r) PROVE FALSE
      OBVIOUS
    <3>1. s \in S /\ Before(s, r)
      BY DEF Below
    <3>2. Card(s) < Card(r) /\ Card(s) \in Nat /\ Card(r) \in Nat
      BY <1>1, <1>3, <3>1
    <3>3. Card(r) <= Card(s)
      BY <2>2, <2>3, <3>1
    <3> HIDE DEF Card
    <3> QED BY <3>2, <3>3
  <2>5. Card(r) = 0
    BY <2>4, FS_EmptySet
  <2>6. r \in Page(S)
    <3> HIDE DEF Card
    <3> QED BY <1>2, <2>5, ExportAssumption
  <2> QED BY <2>6
<1>5. ASSUME NEW p \in Page(S), NEW r \in S \ Page(S)
      PROVE  Before(p, r)
  <2>1. p \in S /\ p # r
    BY <1>5 DEF Page
  <2>2. Card(p) < PageSize /\ ~(Card(r) < PageSize)
    BY <1>2, <2>1
  <2>3. ~Before(r, p)
    <3>1. Card(p) \in Nat /\ Card(r) \in Nat /\ (Before(r, p) => Card(r) < Card(p))
      BY <1>1, <1>3, <2>1
    <3> HIDE DEF Card
    <3> QED BY <2>2, <3>1, ExportAssumption
  <2> QED BY <2>1, <2>3, BeforeIsOrder
<1>6. Page(S) \subseteq S
  BY DEF Page
<1> QED BY <1>4, <1>5, <1>6

-----------------------------------------------------------------------------
(***************************************************************************)
(* The audit trail: the ids of its records, and of those on their way, are *)
(* all different, so that the sort order of the export is a total one.     *)
(***************************************************************************)

\* A record with an id that has been given out.
Stamped(r) ==
    /\ r.id \in Nat /\ r.id < created
    /\ r.at \in Nat

Inserts(c) == recording[c].pc = "insert"

TrailSound ==
    /\ now \in Nat /\ created \in Nat
    /\ Rows(trail)
    /\ \A r \in trail : Stamped(r)

RecordersSound ==
    /\ DOMAIN recording = Recorders
    /\ \A c \in Recorders : Inserts(c) =>
          /\ Stamped(recording[c].row)
          /\ \A r \in trail : r.id # recording[c].row.id
    /\ \A c, d \in Recorders :
          Inserts(c) /\ Inserts(d) /\ recording[c].row.id = recording[d].row.id => c = d

AuditInv == TrailSound /\ RecordersSound

LEMMA StoredKeepsOrder ==
    ASSUME NEW doc
    PROVE  StoredFields(doc).id = doc.id /\ StoredFields(doc).at = doc.at
BY DEF StoredFields, SchemaFields

LEMMA AuditInvInit == AuditInit => AuditInv
BY FS_EmptySet DEF AuditInit, AuditInv, TrailSound, RecordersSound, Rows, Inserts, NotRecording

\* A recorder that goes to r, with nothing stored and no id given out.
LEMMA RecorderGoes ==
    ASSUME AuditInv, NEW c \in Recorders, NEW r, r.pc # "insert",
           recording' = [recording EXCEPT ![c] = r],
           UNCHANGED <<trail, now, created>>
    PROVE  AuditInv'
<1>1. \A d \in Recorders : Inserts(d)' => d # c /\ Inserts(d) /\ recording'[d] = recording[d]
  BY DEF Inserts, AuditInv, RecordersSound
<1>2. TrailSound'
  BY DEF AuditInv, TrailSound, Stamped
<1>3. RecordersSound'
  BY <1>1 DEF AuditInv, RecordersSound, Stamped
<1> QED BY <1>2, <1>3 DEF AuditInv

LEMMA StampStep ==
    ASSUME AuditInv, NEW c \in Recorders, Stamp(c)
    PROVE  AuditInv'
<1> USE DEF AuditInv
<1>1. PICK row : row = NewRecord(c)
  OBVIOUS
<1>2. PICK r : r = [pc |-> "insert", row |-> row]
  OBVIOUS
<1>3. /\ recording' = [recording EXCEPT ![c] = r]
      /\ DOMAIN recording = Recorders
      /\ created' = created + 1
      /\ UNCHANGED <<trail, now>>
      /\ r.pc = "insert" /\ r.row = row
  BY <1>1, <1>2 DEF Stamp, RecordersSound
<1>4. /\ DOMAIN recording' = Recorders /\ recording'[c] = r
      /\ \A d \in Recorders : d # c => recording'[d] = recording[d]
  BY <1>3
<1>5. /\ now \in Nat /\ created \in Nat
      /\ row.id = created /\ row.at = now
  BY <1>1 DEF TrailSound, NewRecord
<1>6. Stamped(row)'
  BY <1>3, <1>5 DEF Stamped
<1>7. \A q : Stamped(q) => Stamped(q)'
  BY <1>3, <1>5 DEF Stamped
<1>8. TrailSound'
  BY <1>3, <1>5, <1>7 DEF TrailSound, Rows
<1>9. ASSUME NEW d \in Recorders, Inserts(d)'
      PROVE  /\ Stamped(recording[d].row)'
             /\ \A s \in trail : s.id # recording'[d].row.id
  <2>1. CASE d = c
    BY <1>3, <1>4, <1>5, <1>6, <2>1 DEF TrailSound, Stamped
  <2>2. CASE d # c
    <3>1. recording'[d] = recording[d] /\ Inserts(d)
      BY <1>4, <1>9, <2>2 DEF Inserts
    <3>2. Stamped(recording[d].row)
      BY <3>1 DEF RecordersSound
    <3> QED BY <1>7, <3>1, <3>2 DEF RecordersSound, Stamped
  <2> QED BY <2>1, <2>2
<1>10. ASSUME NEW d \in Recorders, NEW e \in Recorders, Inserts(d)', Inserts(e)',
              recording'[d].row.id = recording'[e].row.id
       PROVE  d = e
  <2>1. \A f \in Recorders : f # c /\ Inserts(f)' =>
           /\ recording'[f] = recording[f] /\ Inserts(f)
           /\ recording[f].row.id < created
           /\ recording[f].row.id \in Nat
    BY <1>4 DEF Inserts, RecordersSound, Stamped
  <2>2. recording'[c].row.id = created
    BY <1>3, <1>4, <1>5
  <2> QED BY <1>5, <1>10, <2>1, <2>2 DEF RecordersSound
<1>11. RecordersSound'
  BY <1>3, <1>4, <1>9, <1>10 DEF RecordersSound
<1> QED BY <1>8, <1>11

LEMMA InsertStep ==
    ASSUME AuditInv, NEW c \in Recorders, Insert(c)
    PROVE  AuditInv'
<1> USE DEF AuditInv
<1>1. PICK row : row = StoredFields(recording[c].row)
  OBVIOUS
<1>2. /\ recording' = [recording EXCEPT ![c] = NotRecording]
      /\ DOMAIN recording = Recorders
      /\ trail' = trail \cup {row}
      /\ UNCHANGED <<now, created>>
      /\ Inserts(c)
  BY <1>1 DEF Insert, Inserts, RecordersSound
<1>3. row.id = recording[c].row.id /\ row.at = recording[c].row.at
  BY <1>1, StoredKeepsOrder
<1>4. Stamped(row) /\ \A r \in trail : r.id # row.id
  BY <1>2, <1>3 DEF RecordersSound, Stamped
<1>5. \A q : Stamped(q) => Stamped(q)'
  BY <1>2 DEF Stamped
<1>6. Rows(trail \cup {row})
  <2>1. IsFiniteSet(trail \cup {row})
    BY FS_AddElement DEF TrailSound, Rows
  <2> QED BY <1>4, <2>1 DEF TrailSound, Rows, Stamped
<1>7. TrailSound'
  BY <1>2, <1>4, <1>5, <1>6 DEF TrailSound
<1>8. \A d \in Recorders : Inserts(d)' =>
         d # c /\ Inserts(d) /\ recording'[d] = recording[d]
  BY <1>2 DEF Inserts, NotRecording
<1>9. ASSUME NEW d \in Recorders, Inserts(d)'
      PROVE  /\ Stamped(recording[d].row)'
             /\ \A r \in trail' : r.id # recording'[d].row.id
  <2>1. d # c /\ Inserts(d) /\ recording'[d] = recording[d]
    BY <1>8, <1>9
  <2>2. Stamped(recording[d].row) /\ \A r \in trail : r.id # recording[d].row.id
    BY <2>1 DEF RecordersSound
  <2>3. row.id # recording[d].row.id
    BY <1>2, <1>3, <2>1 DEF RecordersSound
  <2>4. Stamped(recording[d].row)'
    BY <1>2, <2>1, <2>2 DEF Stamped
  <2> QED BY <1>2, <2>1, <2>2, <2>3, <2>4
<1>10. RecordersSound'
  BY <1>2, <1>8, <1>9 DEF RecordersSound
<1> QED BY <1>7, <1>10

\* Steps that leave the trail and the recorders alone.
LEMMA RecordersRest ==
    ASSUME AuditInv, now' \in Nat, UNCHANGED <<trail, created, recording>>
    PROVE  AuditInv'
<1>1. \A r : Stamped(r)' <=> Stamped(r)
  BY DEF Stamped
<1>2. TrailSound'
  BY <1>1 DEF AuditInv, TrailSound
<1>3. RecordersSound'
  BY DEF AuditInv, RecordersSound, Inserts, Stamped
<1> QED BY <1>2, <1>3 DEF AuditInv

LEMMA AuditInvStep == AuditInv /\ [AuditNext]_auditVars => AuditInv'
<1> SUFFICES ASSUME AuditInv, [AuditNext]_auditVars PROVE AuditInv'
  OBVIOUS
<1>1. now \in Nat
  BY DEF AuditInv, TrailSound
<1>2. CASE AuditClock
  BY <1>1, <1>2, RecordersRest DEF AuditClock
<1>3. CASE StartExport \/ ContinueExport
  BY <1>1, <1>3, RecordersRest DEF StartExport, ContinueExport
<1>4. CASE UNCHANGED auditVars
  BY <1>1, <1>4, RecordersRest DEF auditVars
<1>5. ASSUME NEW c \in Recorders, ReadNewest(c) \/ RecordingFails(c) PROVE AuditInv'
  <2>1. PICK r : r.pc # "insert" /\ recording' = [recording EXCEPT ![c] = r]
    BY <1>5 DEF ReadNewest, RecordingFails, NotRecording
  <2> QED BY <1>5, <2>1, RecorderGoes DEF ReadNewest, RecordingFails
<1> QED
  BY <1>2, <1>3, <1>4, <1>5, StampStep, InsertStep DEF AuditNext

-----------------------------------------------------------------------------
(***************************************************************************)
(* The export.  Every page comes after the cursor of the one before, and   *)
(* of the records there were at the beginning those not exported yet come  *)
(* after the last cursor.                                                  *)
(***************************************************************************)

LastPage == export.pages[Len(export.pages)]

Exported(r) == \E i \in DOMAIN export.pages : r \in export.pages[i]

ExportSound ==
    export.pc # "none" =>
        /\ export.pages \in Seq(SUBSET trail) /\ export.pages # <<>>
        /\ export.present \subseteq trail
        /\ \A i, j \in DOMAIN export.pages : i < j =>
              \A r \in export.pages[i], s \in export.pages[j] : Before(r, s)
        /\ export.pc = "ended" => \A r \in export.present : Exported(r)
        /\ export.pc = "paging" =>
              /\ LastPage # {}
              /\ \A r \in export.present : Exported(r) \/ Before(Newest(LastPage), r)

\* Adding the first page of the records S that come after all exported ones.
LEMMA PageAdded ==
    ASSUME Rows(trail), UNCHANGED trail,
           NEW S, S \subseteq trail,
           NEW done \in Seq(SUBSET trail), NEW present, present \subseteq trail,
           export' = NextExport(S, done, present),
           \A i, j \in DOMAIN done : i < j =>
              \A r \in done[i], s \in done[j] : Before(r, s),
           \A i \in DOMAIN done : \A r \in done[i], s \in S : Before(r, s),
           \A r \in present : r \in S \/ \E i \in DOMAIN done : r \in done[i]
    PROVE  ExportSound'
<1> DEFINE page == Page(S)
           pages == Append(done, page)
<1>1. Rows(S)
  BY SubsetOfRows
<1>2. /\ page \subseteq S
      /\ S # {} => page # {}
      /\ \A p \in page, r \in S \ page : Before(p, r)
  BY <1>1, PageIsFirst
<1>3. /\ export'.pages = pages /\ export'.present = present
      /\ export'.pc = IF page = S THEN "ended" ELSE "paging"
  BY DEF NextExport
<1> HIDE DEF page
<1>4. Len(done) \in Nat /\ DOMAIN done = 1..Len(done)
  OBVIOUS
<1>5. /\ pages \in Seq(SUBSET trail) /\ pages # <<>>
      /\ Len(pages) = Len(done) + 1
      /\ DOMAIN pages = 1..(Len(done) + 1)
      /\ pages[Len(done) + 1] = page
      /\ \A i \in DOMAIN done : i \in DOMAIN pages /\ pages[i] = done[i]
  BY <1>2, <1>4
<1> HIDE DEF pages
<1>6. \A i \in DOMAIN pages : i \in DOMAIN done \/ i = Len(done) + 1
  BY <1>4, <1>5
<1>7. ASSUME NEW i \in DOMAIN pages, NEW j \in DOMAIN pages, i < j,
             NEW r \in pages[i], NEW s \in pages[j]
      PROVE  Before(r, s)
  <2>1. i \in DOMAIN done /\ pages[i] = done[i]
    BY <1>4, <1>5, <1>7
  <2>2. CASE j \in DOMAIN done
    BY <1>5, <1>7, <2>1, <2>2
  <2>3. CASE j = Len(done) + 1
    BY <1>2, <1>5, <1>7, <2>1, <2>3
  <2> QED BY <1>6, <2>2, <2>3
<1>8. \A r \in page : \E i \in DOMAIN pages : r \in pages[i]
  BY <1>4, <1>5
<1>9. \A i \in DOMAIN done : \A r \in done[i] : \E k \in DOMAIN pages : r \in pages[k]
  BY <1>5
<1>10. ASSUME page = S, NEW r \in present
       PROVE  \E i \in DOMAIN pages : r \in pages[i]
  BY <1>8, <1>9, <1>10
<1>11. ASSUME page # S
       PROVE  /\ page # {}
              /\ \A r \in present :
                    (\E i \in DOMAIN pages : r \in pages[i]) \/ Before(Newest(page), r)
  <2>1. page # {}
    BY <1>2, <1>11
  <2>2. Newest(page) \in page
    BY <1>1, <1>2, <2>1, SubsetOfRows, NewestIsNewest
  <2>3. ASSUME NEW r \in present, r \in S, r \notin page
        PROVE  Before(Newest(page), r)
    BY <1>2, <2>2, <2>3
  <2> QED BY <1>8, <1>9, <2>1, <2>3
<1>12. LastPage' = page
  BY <1>3, <1>5 DEF LastPage
<1>13. \A r : Exported(r)' <=> \E i \in DOMAIN pages : r \in pages[i]
  BY <1>3 DEF Exported
<1> QED
  BY <1>3, <1>5, <1>7, <1>10, <1>11, <1>12, <1>13 DEF ExportSound

LEMMA StartExportStep ==
    ASSUME AuditInv, ExportSound, StartExport
    PROVE  ExportSound'
<1>1. /\ Rows(trail) /\ UNCHANGED trail
      /\ export' = NextExport(trail, <<>>, trail)
  BY DEF AuditInv, TrailSound, StartExport
<1> DEFINE done == << >>
<1>2. done \in Seq(SUBSET trail) /\ DOMAIN done = {}
  OBVIOUS
<1> HIDE DEF done
<1>3. export' = NextExport(trail, done, trail)
  BY <1>1 DEF done
<1> QED BY <1>1, <1>2, <1>3, PageAdded

LEMMA ContinueExportStep ==
    ASSUME AuditInv, ExportSound, ContinueExport
    PROVE  ExportSound'
<1>1. PICK done : done = export.pages
  OBVIOUS
<1>2. PICK present : present = export.present
  OBVIOUS
<1>3. PICK last : last = Newest(LastPage)
  OBVIOUS
<1>4. PICK S : S = AfterCursor(last)
  OBVIOUS
<1>5. /\ Rows(trail) /\ UNCHANGED trail
      /\ export.pc = "paging"
      /\ export' = NextExport(S, done, present)
  BY <1>1, <1>2, <1>3, <1>4 DEF AuditInv, TrailSound, ContinueExport, LastPage
<1>6. /\ done \in Seq(SUBSET trail) /\ done # <<>>
      /\ present \subseteq trail
      /\ \A i, j \in DOMAIN done : i < j =>
            \A r \in done[i], s \in done[j] : Before(r, s)
      /\ LastPage # {}
      /\ \A r \in present : (\E i \in DOMAIN done : r \in done[i]) \/ Before(last, r)
  BY <1>1, <1>2, <1>3, <1>5 DEF ExportSound, Exported
<1>7. /\ S \subseteq trail
      /\ \A r \in trail : r \in S <=> Before(last, r)
  BY <1>4 DEF AfterCursor, Before
<1>8. /\ Len(done) \in DOMAIN done
      /\ \A i \in DOMAIN done : i < Len(done) \/ i = Len(done)
      /\ LastPage = done[Len(done)] /\ LastPage \subseteq trail
      /\ \A i \in DOMAIN done : done[i] \subseteq trail
  BY <1>1, <1>6 DEF LastPage
<1>9. last \in LastPage /\ \A s \in LastPage : s = last \/ Before(s, last)
  BY <1>3, <1>5, <1>6, <1>8, SubsetOfRows, NewestIsNewest
<1>10. ASSUME NEW i \in DOMAIN done, NEW r \in done[i], NEW s \in S
       PROVE  Before(r, s)
  <2>1. r \in trail /\ s \in trail /\ last \in trail /\ Before(last, s)
    BY <1>7, <1>8, <1>9
  <2>2. r = last \/ Before(r, last)
    <3>1. CASE i < Len(done)
      BY <1>6, <1>8, <1>9, <3>1
    <3>2. CASE i = Len(done)
      BY <1>8, <1>9, <3>2
    <3> QED BY <1>8, <3>1, <3>2
  <2> QED BY <1>5, <2>1, <2>2, BeforeIsOrder
<1>11. \A r \in present : r \in S \/ \E i \in DOMAIN done : r \in done[i]
  BY <1>6, <1>7
<1> QED BY <1>5, <1>6, <1>7, <1>10, <1>11, PageAdded

LEMMA ExportStep ==
    AuditInv /\ ExportSound /\ [AuditNext]_auditVars => ExportSound'
<1> SUFFICES ASSUME AuditInv, ExportSound, [AuditNext]_auditVars
             PROVE  ExportSound'
  OBVIOUS
<1>1. CASE UNCHANGED export /\ trail \subseteq trail'
  <2>1. Seq(SUBSET trail) \subseteq Seq(SUBSET trail')
    BY <1>1
  <2>2. UNCHANGED LastPage /\ \A r : Exported(r)' <=> Exported(r)
    BY <1>1 DEF LastPage, Exported
  <2> QED BY <1>1, <2>1, <2>2 DEF ExportSound
<1>2. ASSUME NEW c \in Recorders,
             ReadNewest(c) \/ Stamp(c) \/ RecordingFails(c) \/ Insert(c)
      PROVE  ExportSound'
  BY <1>1, <1>2 DEF ReadNewest, Stamp, RecordingFails, Insert
<1>3. CASE AuditClock \/ UNCHANGED auditVars
  BY <1>1, <1>3 DEF AuditClock, auditVars
<1> QED
  BY <1>2, <1>3, StartExportStep, ContinueExportStep DEF AuditNext

(* An export that is paged to its end while records are inserted has no    *)
(* row twice, none out of order, and every row that existed when it began  *)
(* (exportAuditBundle, auditTrail.ts).                                     *)
THEOREM ExportsAreComplete == AuditSpec => []ExportComplete
<1>1. AuditInit => AuditInv /\ ExportSound
  BY AuditInvInit DEF AuditInit, ExportSound
<1>2. AuditInv /\ ExportSound /\ [AuditNext]_auditVars => AuditInv' /\ ExportSound'
  BY AuditInvStep, ExportStep
<1>3. ExportSound => ExportComplete
  BY DEF ExportSound, ExportComplete, Exported
<1> QED
  BY <1>1, <1>2, <1>3, PTL DEF AuditSpec
=============================================================================
