--------------------------- MODULE UnlockRequest ---------------------------
(***************************************************************************)
(* The unlock endpoint (api/prompts/unlock.ts) that hands a buyer the      *)
(* plaintext of a prompt for a signed challenge, with what it keeps in the *)
(* shared Redis store: the answers under idempotency keys, the nonces of   *)
(* challenges and the hashes of signatures, each with a time to live.      *)
(* Requests run concurrently and wait at every step; the checks follow one *)
(* another on what was true when they were made.  All requests that carry  *)
(* an idempotency key carry the same one.  A signed challenge has several  *)
(* spellings, token and signature in text, that pass the verification      *)
(* alike; the replay protection hashes the spelling.                       *)
(***************************************************************************)
EXTENDS Integers

CONSTANTS
    Challenges,  \* challenge tokens, for one prompt and buyer each
    Spellings,   \* of a challenge's token and signature
    Requests,    \* requests in flight
    TokenLife,   \* DEFAULT_TTL_MS of a challenge, 5 minutes
    NonceFloor,  \* the least time a nonce is kept, 60 s
    ReplayLife,  \* ttlMs of the replay protection, 10 minutes
    AnswerLife,  \* time to live of a stored answer, 1 hour
    MaxSecond    \* bound on the clock

ASSUME UnlockAssumption ==
    /\ TokenLife \in Nat /\ NonceFloor \in Nat
    /\ ReplayLife \in Nat /\ AnswerLife \in Nat

VARIABLES
    second,      \* wall clock
    expiresAt,   \* of each challenge, NotIssued before it is issued
    nonceUntil,  \* until when the nonce of each challenge is kept
    replayUntil, \* until when the hash of each of its spellings is kept
    answer,      \* the record under the idempotency key
    unlock,      \* what each request is doing
    opened,      \* how often each spelling was answered with a fresh plaintext
    late,        \* challenges whose nonce was consumed when they had expired
    stalled      \* spellings that a request let past the replay protection
                 \* ReplayLife - TokenLife or longer after it was verified

unlockVars ==
    <<second, expiresAt, nonceUntil, replayUntil, answer, unlock, opened, late, stalled>>

Signatures == Challenges \X Spellings

NotIssued == -1
NoAnswer == [until |-> 0]
NotServed == [pc |-> "free"]

UnlockInit ==
    /\ second = 0
    /\ expiresAt = [c \in Challenges |-> NotIssued]
    /\ nonceUntil = [c \in Challenges |-> 0]
    /\ replayUntil = [p \in Signatures |-> 0]
    /\ answer = NoAnswer
    /\ unlock = [r \in Requests |-> NotServed]
    /\ opened = [p \in Signatures |-> 0]
    /\ late = {}
    /\ stalled = {}

\* createChallengeToken.
IssueChallenge(c) ==
    /\ expiresAt[c] = NotIssued
    /\ expiresAt' = [expiresAt EXCEPT ![c] = second + TokenLife]
    /\ UNCHANGED <<second, nonceUntil, replayUntil, answer, unlock, opened, late, stalled>>

\* A request that has passed the rate limits; at is when it is verified.
StartUnlock(r, c, s, keyed) ==
    /\ unlock[r] = NotServed
    /\ expiresAt[c] # NotIssued
    /\ unlock' = [unlock EXCEPT ![r] =
                    [pc |-> IF keyed THEN "lookup" ELSE "verify",
                     challenge |-> c, spelling |-> s, keyed |-> keyed, at |-> 0]]
    /\ UNCHANGED <<second, expiresAt, nonceUntil, replayUntil, answer, opened, late, stalled>>

Signed(r) == <<unlock[r].challenge, unlock[r].spelling>>

GoTo(r, step) == unlock' = [unlock EXCEPT ![r].pc = step]

\* The request is answered without anything stored.
Refuse(r) == unlock' = [unlock EXCEPT ![r] = NotServed]

\* The request is answered, and storeIdempotencyResult is not waited for.
Answer(r, code) ==
    unlock' = [unlock EXCEPT ![r] =
                 IF @.keyed THEN [pc |-> "store", challenge |-> @.challenge, code |-> code]
                            ELSE NotServed]

\* checkIdempotency: a stored answer is replayed, or in conflict with the
\* request.  What the consumption of the key itself returns changes nothing.
LookUpAnswer(r) ==
    /\ unlock[r].pc = "lookup"
    /\ IF second < answer.until THEN Refuse(r) ELSE GoTo(r, "verify")
    /\ UNCHANGED <<second, expiresAt, nonceUntil, replayUntil, answer, opened, late, stalled>>

\* verifyChallengeToken and verifyChallengeSignature: the token's first two
\* parts, and whatever text decodes to the signature.
VerifyChallenge(r) ==
    /\ unlock[r].pc = "verify"
    /\ IF expiresAt[unlock[r].challenge] < second
       THEN Answer(r, "expired")
       ELSE unlock' = [unlock EXCEPT ![r].pc = "nonce", ![r].at = second]
    /\ UNCHANGED <<second, expiresAt, nonceUntil, replayUntil, answer, opened, late, stalled>>

NonceLife(c) ==
    IF expiresAt[c] - second > NonceFloor THEN expiresAt[c] - second ELSE NonceFloor

\* NonceLedger.consume.
ConsumeNonce(r) ==
    LET c == unlock[r].challenge IN
    /\ unlock[r].pc = "nonce"
    /\ IF second < nonceUntil[c]
       THEN Refuse(r) /\ UNCHANGED <<nonceUntil, late>>
       ELSE /\ nonceUntil' = [nonceUntil EXCEPT ![c] = second + NonceLife(c)]
            /\ late' = IF expiresAt[c] <= second THEN late \cup {c} ELSE late
            /\ GoTo(r, "replay")
    /\ UNCHANGED <<second, expiresAt, replayUntil, answer, opened, stalled>>

\* Mutant: the hash is kept as long as the challenge is valid.
KeptWhileValid(p) == expiresAt[p[1]]

KeptUntil(p) == second + ReplayLife

\* checkReplayProtection.
ConsumeSignature(r) ==
    LET p == Signed(r) IN
    /\ unlock[r].pc = "replay"
    /\ IF second < replayUntil[p]
       THEN Refuse(r) /\ UNCHANGED <<replayUntil, stalled>>
       ELSE /\ replayUntil' = [replayUntil EXCEPT ![p] = KeptUntil(p)]
            /\ stalled' = IF second - unlock[r].at >= ReplayLife - TokenLife
                          THEN stalled \cup {p} ELSE stalled
            /\ GoTo(r, "open")
    /\ UNCHANGED <<second, expiresAt, nonceUntil, answer, opened, late>>

\* verifyEntitlement against the ledger, the terms of the listing, the wrapped
\* key, the ciphertext and its hash: the plaintext is handed out, or refused.
OpenPrompt(r) ==
    /\ unlock[r].pc = "open"
    /\ \/ opened' = [opened EXCEPT ![Signed(r)] = @ + 1] /\ Answer(r, "plaintext")
       \/ Refuse(r) /\ UNCHANGED opened
    /\ UNCHANGED <<second, expiresAt, nonceUntil, replayUntil, answer, late, stalled>>

\* The catch at the end of the handler: the token does not match, Redis, the
\* chain or the decryption fails.
FailUnlock(r) ==
    /\ unlock[r].pc \in {"verify", "nonce", "replay", "open"}
    /\ Answer(r, "failed")
    /\ UNCHANGED <<second, expiresAt, nonceUntil, replayUntil, answer, opened, late, stalled>>

\* storeIdempotencyResult overwrites what another request has stored.
StoreAnswer(r) ==
    /\ unlock[r].pc = "store"
    /\ answer' = [challenge |-> unlock[r].challenge, code |-> unlock[r].code,
                  until |-> second + AnswerLife]
    /\ unlock' = [unlock EXCEPT ![r] = NotServed]
    /\ UNCHANGED <<second, expiresAt, nonceUntil, replayUntil, opened, late, stalled>>

\* The function is stopped, or the answer could not be stored.
LoseRequest(r) ==
    /\ unlock[r] # NotServed
    /\ Refuse(r)
    /\ UNCHANGED <<second, expiresAt, nonceUntil, replayUntil, answer, opened, late, stalled>>

SecondPasses ==
    /\ second < MaxSecond
    /\ second' = second + 1
    /\ UNCHANGED <<expiresAt, nonceUntil, replayUntil, answer, unlock, opened, late, stalled>>

UnlockNext ==
    \/ \E c \in Challenges : IssueChallenge(c)
    \/ \E r \in Requests :
          \/ \E c \in Challenges, s \in Spellings, keyed \in BOOLEAN :
                StartUnlock(r, c, s, keyed)
          \/ LookUpAnswer(r)
          \/ VerifyChallenge(r)
          \/ ConsumeNonce(r)
          \/ ConsumeSignature(r)
          \/ OpenPrompt(r)
          \/ FailUnlock(r)
          \/ StoreAnswer(r)
          \/ LoseRequest(r)
    \/ SecondPasses

UnlockSpec == UnlockInit /\ [][UnlockNext]_unlockVars

-----------------------------------------------------------------------------
\* "Ensure this nonce is consumed only once" (unlock.ts:459): however requests
\* wait between the checks, and whatever has expired in the meantime, a signed
\* challenge opens its prompt at most once, in one spelling, unless a request
\* consumed its nonce after it had expired (the nonce is kept no longer, but for
\* the floor); and one spelling of it does so at most once even then, unless a
\* request stood longer between the verification and the replay protection than
\* that outlives the token.
OpenedOnce ==
    /\ \A c \in Challenges \ late : \A s, t \in Spellings :
          /\ opened[<<c, s>>] <= 1
          /\ opened[<<c, s>>] > 0 /\ opened[<<c, t>>] > 0 => s = t
    /\ \A p \in Signatures \ stalled : opened[p] <= 1
=============================================================================
