--------------------------- MODULE DraftAutoSave ---------------------------
(***************************************************************************)
(* The drafts of the create-listing form (src/hooks/useDraftAutoSave.ts).  *)
(* Every tab edits its own form and saves it to the slot of its wallet in  *)
(* the localStorage all tabs share; revision tokens detect another tab's   *)
(* writes, and a session guard keeps edits from passing silently to another *)
(* wallet or network.  A render and its effects are one step, as are the   *)
(* synchronous handlers.  A form is the set of wallets that edited it.     *)
(***************************************************************************)
EXTENDS Integers

CONSTANTS
    Tabs,
    Wallets,
    Networks,
    Nothing,  \* undefined or null
    MaxWrites \* bound on the writes of drafts

ASSUME DraftAssumption ==
    /\ Nothing \notin Wallets /\ Nothing \notin Networks
    /\ MaxWrites \in Nat

VARIABLES
    slot,  \* the draft stored for each wallet
    tab,   \* form, connection and refs of each tab
    writes \* drafts written, from which revision tokens are taken

draftVars == <<slot, tab, writes>>

EmptyForm == {}

NoDraft == [revision |-> 0, form |-> EmptyForm, owner |-> Nothing, on |-> Nothing]

\* owner, on: the session's wallet and network; draftOwner: the wallet shown as
\* the draft's; loadedKey: the slot the tab may write; known: the revision it
\* last saw, 0 for null; conflict: the revision found instead; guard: the slot
\* the session guard protects.
NewTab(n) ==
    [address |-> Nothing, network |-> n, form |-> EmptyForm, dirty |-> FALSE,
     owner |-> Nothing, on |-> Nothing, draftOwner |-> Nothing,
     loadedKey |-> Nothing, known |-> 0, conflict |-> 0, pending |-> EmptyForm,
     guard |-> Nothing]

DraftInit ==
    /\ slot = [w \in Wallets |-> NoDraft]
    /\ tab \in [Tabs -> {NewTab(n) : n \in Networks}]
    /\ writes = 0

Becomes(t, state) == tab' = [tab EXCEPT ![t] = state]

Unwritten == UNCHANGED <<slot, writes>>

\* A draft written to slot w gets a new revision token.
Stored(w, form, owner, network) ==
    /\ writes < MaxWrites
    /\ writes' = writes + 1
    /\ slot' = [slot EXCEPT ![w] =
                  [revision |-> writes + 1, form |-> form, owner |-> owner, on |-> network]]

\* persist(force) of the form of the state d, and what follows for the tab.
Flushed(t, d) ==
    IF d.form = EmptyForm
    THEN Becomes(t, d) /\ Unwritten
    ELSE /\ Stored(d.address, d.form, d.address, d.network)
         /\ Becomes(t, [d EXCEPT !.known = writes + 1])

\* The author types.  What is typed with no wallet connected or under a guard
\* counts as nobody's.
Edit(t) ==
    LET author == IF tab[t].guard = Nothing THEN tab[t].address ELSE Nothing IN
    /\ Becomes(t, [tab[t] EXCEPT !.form = @ \cup {author}, !.dirty = TRUE])
    /\ Unwritten

\* persist, by the debounce timer or saveNow: a write of another tab since this
\* one loaded or saved raises a conflict.
Save(t) ==
    LET d == tab[t]
        s == slot[d.address] IN
    /\ d.address # Nothing
    /\ d.loadedKey = d.address
    /\ d.form # EmptyForm
    /\ IF s # NoDraft /\ d.known \notin {0, s.revision}
       THEN /\ Becomes(t, [d EXCEPT !.pending = d.form, !.conflict = s.revision])
            /\ Unwritten
       ELSE Flushed(t, d)

\* Mutant: only edits that were saved before are protected.
ForeignSavedEdits(d) ==
    /\ d.dirty
    /\ d.owner \notin {Nothing, d.address}
    /\ slot[d.owner] # NoDraft

\* (1) The form holds edits of another wallet's session.
ForeignEdits(d) == d.dirty /\ d.owner \notin {Nothing, d.address}

\* (2), (3) The stored draft belongs to another wallet or network.
ForeignDraft(d) ==
    \/ slot[d.address].owner \notin {Nothing, d.address}
    \/ slot[d.address].on \notin {Nothing, d.network}

Guarded(d, key) == [d EXCEPT !.guard = key, !.loadedKey = Nothing]

Bound(d) ==
    [d EXCEPT !.owner = d.address, !.on = d.network, !.draftOwner = d.address,
              !.loadedKey = d.address, !.guard = Nothing]

\* The load effect: the form and the stored draft meet the connected wallet and
\* network of d.
Reconciled(t, d) ==
    IF d.address = Nothing
    THEN /\ Becomes(t, Guarded(d, IF d.dirty THEN d.owner ELSE Nothing))
         /\ Unwritten
    ELSE IF ForeignEdits(d)
    THEN Becomes(t, Guarded([d EXCEPT !.pending = EmptyForm], d.owner)) /\ Unwritten
    ELSE IF ForeignDraft(d)
    THEN Becomes(t, Guarded(d, d.address)) /\ Unwritten
    ELSE LET s == slot[d.address] IN
         \* (4) edits of the same wallet's session are flushed
         IF d.dirty /\ d.owner = d.address
         THEN Flushed(t, [Bound(d) EXCEPT !.known = s.revision])
         \* (5) the stored draft is loaded, or a session starts
         ELSE /\ Becomes(t, IF s.form # EmptyForm
                            THEN [Bound(d) EXCEPT !.form = s.form, !.dirty = TRUE,
                                                  !.known = s.revision]
                            ELSE Bound(d))
              /\ Unwritten

\* The wallet or the network of a tab changes.
Switch(t, w, n) ==
    /\ <<w, n>> # <<tab[t].address, tab[t].network>>
    /\ Reconciled(t, [tab[t] EXCEPT !.address = w, !.network = n,
                                    !.conflict = 0, !.known = 0])

\* discardDraft.
DiscardDraft(t) ==
    LET d == tab[t] IN
    /\ slot' = [w \in Wallets |-> IF w = d.address THEN NoDraft ELSE slot[w]]
    /\ Becomes(t, [NewTab(d.network) EXCEPT
                     !.address = d.address, !.owner = d.address, !.on = d.network,
                     !.loadedKey = d.address])
    /\ UNCHANGED writes

\* resolveConflict("keep-remote"): the stored draft is taken over and written
\* back under the revision the conflict had found.
KeepRemote(t) ==
    LET d == tab[t]
        s == slot[d.address] IN
    /\ d.conflict # 0
    /\ Becomes(t, [d EXCEPT !.form = IF s.form # EmptyForm THEN s.form ELSE @,
                            !.known = d.conflict, !.conflict = 0, !.pending = EmptyForm])
    /\ slot' = [slot EXCEPT ![d.address].revision = d.conflict]
    /\ UNCHANGED writes

\* resolveConflict("keep-local"): the form at the time of the conflict is
\* written over the stored draft.
KeepLocal(t) ==
    LET d == tab[t] IN
    /\ d.conflict # 0
    /\ Stored(d.address, IF d.pending # EmptyForm THEN d.pending ELSE d.form,
              IF d.owner # Nothing THEN d.owner ELSE d.address,
              IF d.on # Nothing THEN d.on ELSE d.network)
    /\ Becomes(t, [d EXCEPT !.known = writes + 1, !.conflict = 0, !.pending = EmptyForm])

\* resolveSessionGuard("adopt"): the edits become the connected wallet's, by the
\* user's choice.
Adopt(t) ==
    LET d == tab[t] IN
    /\ d.guard # Nothing /\ d.address # Nothing
    /\ Flushed(t, [Bound(d) EXCEPT
                     !.form = IF @ = EmptyForm THEN @ ELSE {d.address},
                     !.known = slot[d.address].revision,
                     !.conflict = 0, !.pending = EmptyForm])

\* resolveSessionGuard("discard"): the protected draft is removed.
DiscardGuarded(t) ==
    LET d == tab[t] IN
    /\ d.guard # Nothing
    /\ slot' = [slot EXCEPT ![d.guard] = NoDraft]
    /\ Becomes(t, [NewTab(d.network) EXCEPT
                     !.address = d.address, !.owner = d.address, !.on = d.network,
                     !.loadedKey = d.address])
    /\ UNCHANGED writes

\* canPublish.
CanPublish(d) ==
    /\ d.address # Nothing
    /\ d.guard = Nothing
    /\ d.conflict = 0
    /\ d.draftOwner \in {Nothing, d.address}

DraftNext ==
    \E t \in Tabs :
        \/ Edit(t)
        \/ Save(t)
        \/ \E w \in Wallets \cup {Nothing}, n \in Networks : Switch(t, w, n)
        \/ DiscardDraft(t)
        \/ KeepRemote(t)
        \/ KeepLocal(t)
        \/ Adopt(t)
        \/ DiscardGuarded(t)

DraftSpec == DraftInit /\ [][DraftNext]_draftVars

\* However wallets and networks are switched and tabs write over each other, a
\* form that may be published, and a draft stored for a wallet, holds no edits
\* made under another wallet that its user has not adopted (useDraftAutoSave:
\* "never bind those edits to the new wallet implicitly").  Edits typed while a
\* guard is shown are not covered: on a switch back they pass to the session
\* the form was bound to before.
OwnEditsOnly ==
    /\ \A t \in Tabs : CanPublish(tab[t]) => tab[t].form \subseteq {Nothing, tab[t].address}
    /\ \A w \in Wallets : slot[w].form \subseteq {Nothing, w}
=============================================================================
