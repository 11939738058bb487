---------------------------- MODULE Claims_proofs ----------------------------
(***************************************************************************)
(* Proofs about work that is claimed before it is done: the rows of the    *)
(* webhook outbox (DeliveryLease), the migrations (MigrationRunner) and    *)
(* the background jobs (JobQueue), for any number of rows, files, jobs and *)
(* workers and any times and limits.                                       *)
(*                                                                         *)
(* Rows: a replica that has neither outlived its lease nor had it taken    *)
(* away by a write of somebody else still finds the lease it claimed on    *)
(* the row; and no tick that finds this lease there, with a reading of the *)
(* clock that is never later than the clock, may claim the row.            *)
(*                                                                         *)
(* Migrations: the lease is not what keeps the order, it may be overrun.   *)
(* Runs of one direction only add versions, or only take them away, and    *)
(* what a run found recorded or planned for itself stays one or the other. *)
(*                                                                         *)
(* Jobs: a job is claimed only while it is pending, and it stays in        *)
(* processing for as long as somebody runs it, unless it is requeued in    *)
(* between; and a dead letter that is requeued was not running, unless two *)
(* administrators have read it before either of them wrote.                *)
(***************************************************************************)
EXTENDS DeliveryLease, MigrationRunner, JobQueue, TLAPS

(* Rows of the outbox *)

\* A step that claims no row leaves to whoever delivers one what the invariant
\* needs: its tick, and row and lease unless it is marked as having lost them.
LeasesKept ==
    /\ clock <= clock'
    /\ \A w \in Replicas, r \in Rows : Delivers(w, r)' =>
          /\ Delivers(w, r) /\ tick'[w] = tick[w]
          /\ w \in lost => w \in lost'
          /\ w \notin lost' => status'[r] = status[r] /\ expiry'[r] = expiry[r]

LeaseInv ==
    /\ LeaseTypeOK
    /\ \A w \in Replicas : tick[w] <= clock
    /\ LeaseHeld
    /\ BothDeliverOnlyPastLease

\* Continue ends the delivery of the replica, and of no other one.
LEMMA ContinueEnds ==
    ASSUME LeaseTypeOK, NEW v \in Replicas, NEW s \in Steps \ {"deliver"}, Continue(v, s)
    PROVE  \A w \in Replicas, r \in Rows : Delivers(w, r)' => w # v /\ Delivers(w, r)
BY DEF LeaseTypeOK, Continue, Delivers, Steps

LEMMA ContinueType ==
    ASSUME LeaseTypeOK, NEW v \in Replicas, NEW s \in Steps \ {"deliver"},
           step[v] # "idle" \/ s = "idle", Continue(v, s),
           lost' \subseteq {w \in Replicas \ {v} : step[w] = "deliver"}
    PROVE  /\ step' \in [Replicas -> Steps]
           /\ posting' \in [Replicas -> Rows \cup {NoRow}]
           /\ \A w \in Replicas : step'[w] = "idle" <=> posting'[w] = NoRow
           /\ lost' \subseteq {w \in Replicas : step'[w] = "deliver"}
BY DEF LeaseTypeOK, Continue, Steps

LEMMA LeaseTypeStep ==
    LeaseTypeOK /\ [LeaseNext]_leaseVars =>
        /\ LeaseTypeOK'
        /\ (\A w \in Replicas : tick[w] <= clock) => \A w \in Replicas : tick'[w] <= clock'
<1> DEFINE Ticks == \A w \in Replicas : tick[w] <= clock
           Goal == LeaseTypeOK' /\ (Ticks => Ticks')
<1> SUFFICES ASSUME LeaseTypeOK, [LeaseNext]_leaseVars PROVE Goal
    OBVIOUS
<1> USE LeaseAssumption DEF LeaseTypeOK, Idle, Busy, Room, Steps, NoRow, NoLease
<1>1. ASSUME NEW w \in Replicas, StartTick(w) PROVE Goal
    BY <1>1 DEF StartTick
<1>2. ASSUME NEW w \in Replicas, NEW r \in Rows, ClaimRow(w, r) PROVE Goal
    BY <1>2 DEF ClaimRow
<1>3. ASSUME NEW w \in Replicas, NEW r \in Rows, NEW STATE s, Write(r, s, {w})
      PROVE  lost' \subseteq {v \in Replicas \ {w} : step[v] = "deliver"}
    BY <1>3 DEF Write, Delivers
<1>4. ASSUME NEW w \in Replicas, MarkDelivered(w) PROVE Goal
  <2>1. posting[w] \in Rows /\ Continue(w, "follow") /\ Write(posting[w], "delivered", {w})
    BY <1>4 DEF MarkDelivered
  <2>2. lost' \subseteq {v \in Replicas \ {w} : step[v] = "deliver"}
    BY <1>3, <2>1
  <2> QED
    BY <1>4, <2>1, <2>2, ContinueType DEF MarkDelivered, Write
<1>5. ASSUME NEW w \in Replicas, DeliveredWriteLate(w) PROVE Goal
  <2>1. posting[w] \in Rows /\ Continue(w, "catch") /\ lost' = lost \ {w}
    BY <1>5 DEF DeliveredWriteLate
  <2> QED
    BY <1>5, <2>1, ContinueType DEF DeliveredWriteLate
<1>6. ASSUME NEW r \in Rows, StragglerLands(r) PROVE Goal
    BY <1>6 DEF StragglerLands, Write, Delivers
<1>7. ASSUME NEW w \in Replicas, DeadLetterRow(w) PROVE Goal
  <2>1. posting[w] \in Rows /\ Write(posting[w], "dead_letter", {w})
    BY <1>7 DEF DeadLetterRow
  <2>2. PICK s \in {"follow", "idle"} : Continue(w, s)
    BY <1>7 DEF DeadLetterRow
  <2>3. lost' \subseteq {v \in Replicas \ {w} : step[v] = "deliver"}
    BY <1>3, <2>1
  <2> QED
    BY <1>7, <2>1, <2>2, <2>3, ContinueType DEF DeadLetterRow, Write
<1>8. ASSUME NEW w \in Replicas, NEW delay \in 0..MaxDelay, RetryRow(w, delay) PROVE Goal
  <2>1. /\ posting[w] \in Rows /\ clock + delay \in Nat
        /\ Write(posting[w], status[posting[w]], {w})
    BY <1>8 DEF RetryRow
  <2>2. PICK s \in {"follow", "idle"} : Continue(w, s)
    BY <1>8 DEF RetryRow
  <2>3. lost' \subseteq {v \in Replicas \ {w} : step[v] = "deliver"}
    BY <1>3, <2>1
  <2>4. /\ due' = [due EXCEPT ![posting[w]] = clock + delay]
        /\ status' = [status EXCEPT ![posting[w]] = @]
        /\ expiry' = [expiry EXCEPT ![posting[w]] = NoLease]
        /\ UNCHANGED <<clock, tick, claims, straggler>>
    BY <1>8 DEF RetryRow, Write
  <2>5. step[w] # "idle"
    BY <1>8 DEF RetryRow
  <2> QED
    BY <2>1, <2>2, <2>3, <2>4, <2>5, ContinueType
<1>9. ASSUME NEW w \in Replicas, Fails(w) \/ LeaveRow(w) PROVE Goal
  <2>1. PICK s \in {"catch", "idle"} : Continue(w, s)
    BY <1>9 DEF Fails, LeaveRow
  <2>2. step[w] # "idle" /\ lost' = lost \ {w}
    BY <1>9 DEF Fails, LeaveRow
  <2> QED
    BY <1>9, <2>1, <2>2, ContinueType DEF Fails, LeaveRow
<1>10. ASSUME NEW r \in Rows, Replay(r) PROVE Goal
    BY <1>10 DEF Replay, Write, Delivers
<1>11. ASSUME NEW w \in Replicas, EndTick(w) PROVE Goal
    BY <1>11, ContinueType DEF EndTick
<1>12. CASE Advance
    BY <1>12 DEF Advance
<1>13. CASE UNCHANGED leaseVars
    BY <1>13 DEF leaseVars
<1> QED
    BY <1>1, <1>2, <1>4, <1>5, <1>6, <1>7, <1>8, <1>9, <1>10, <1>11, <1>12, <1>13
    DEF LeaseNext

\* A write by id marks everybody else who is at the row.
LEMMA WriteMarks ==
    ASSUME LeaseTypeOK, NEW r \in Rows, NEW STATE s, NEW by, Write(r, s, by)
    PROVE  /\ lost \ by \subseteq lost'
           /\ \A q \in Rows \ {r} : status'[q] = status[q] /\ expiry'[q] = expiry[q]
           /\ \A w \in Replicas \ by : Delivers(w, r) => w \in lost'
BY DEF Write, LeaseTypeOK, Delivers

\* Every step but a claim keeps the leases.
LEMMA StepKeepsLeases ==
    ASSUME LeaseTypeOK, [LeaseNext]_leaseVars,
           \A w \in Replicas, r \in Rows : ~ClaimRow(w, r)
    PROVE  LeasesKept
<1> USE LeaseAssumption DEF LeasesKept
<1>0. clock \in Nat
    BY DEF LeaseTypeOK
<1>1. ASSUME NEW v \in Replicas, StartTick(v) PROVE LeasesKept
    BY <1>0, <1>1 DEF StartTick, Busy, Room, Idle, Delivers, LeaseTypeOK
<1>2. ASSUME NEW v \in Replicas, step[v] \in {"deliver", "catch"}, NEW STATE s,
             Write(posting[v], s, {v}), NEW t \in {"follow", "idle"}, Continue(v, t),
             UNCHANGED <<clock, tick>>
      PROVE  LeasesKept
  <2>1. posting[v] \in Rows
    BY <1>2 DEF LeaseTypeOK
  <2>2. \A w \in Replicas, r \in Rows : Delivers(w, r)' => w # v /\ Delivers(w, r)
    BY <1>2, ContinueEnds DEF Steps
  <2>3. /\ lost \ {v} \subseteq lost'
        /\ \A q \in Rows \ {posting[v]} : status'[q] = status[q] /\ expiry'[q] = expiry[q]
        /\ \A w \in Replicas \ {v} : Delivers(w, posting[v]) => w \in lost'
    BY <1>2, <2>1, WriteMarks
  <2> QED
    BY <1>0, <1>2, <2>2, <2>3
<1>3. ASSUME NEW v \in Replicas, MarkDelivered(v) PROVE LeasesKept
    BY <1>2, <1>3 DEF MarkDelivered
<1>4. ASSUME NEW v \in Replicas, NEW s \in Steps \ {"deliver"}, Continue(v, s),
             lost' = lost \ {v}, UNCHANGED <<clock, status, expiry, tick>>
      PROVE  LeasesKept
    BY <1>0, <1>4, ContinueEnds
<1>5. ASSUME NEW v \in Replicas, DeliveredWriteLate(v) PROVE LeasesKept
    BY <1>4, <1>5 DEF DeliveredWriteLate, Steps
<1>6. ASSUME NEW r \in Rows, NEW STATE s, Write(r, s, {}), UNCHANGED <<clock, tick, posting, step>>
      PROVE  LeasesKept
  <2>1. /\ lost \subseteq lost'
        /\ \A q \in Rows \ {r} : status'[q] = status[q] /\ expiry'[q] = expiry[q]
        /\ \A w \in Replicas : Delivers(w, r) => w \in lost'
    <3>1. /\ status' = [status EXCEPT ![r] = s] /\ expiry' = [expiry EXCEPT ![r] = NoLease]
          /\ lost' = lost \cup {w \in Replicas : Delivers(w, r)}
      BY <1>6 DEF Write
    <3>2. DOMAIN status = Rows /\ DOMAIN expiry = Rows
      BY DEF LeaseTypeOK
    <3> QED
      BY <3>1, <3>2
  <2>2. \A w \in Replicas, q \in Rows : Delivers(w, q)' <=> Delivers(w, q)
    BY <1>6 DEF Delivers
  <2>3. clock <= clock' /\ \A w \in Replicas : tick'[w] = tick[w]
    BY <1>0, <1>6
  <2>4. ASSUME NEW w \in Replicas, NEW q \in Rows, Delivers(w, q)', w \notin lost'
        PROVE  status'[q] = status[q] /\ expiry'[q] = expiry[q]
    BY <2>1, <2>2, <2>4
  <2> QED
    BY <2>1, <2>2, <2>3, <2>4
<1>7. ASSUME NEW r \in Rows, StragglerLands(r) PROVE LeasesKept
  <2>1. CASE Write(r, "delivered", {})
    BY <1>6, <1>7, <2>1 DEF StragglerLands
  <2>2. CASE UNCHANGED <<status, expiry, lost>>
    BY <1>0, <1>7, <2>2 DEF StragglerLands, Delivers
  <2> QED
    BY <1>7, <2>1, <2>2 DEF StragglerLands
<1>8. ASSUME NEW v \in Replicas, DeadLetterRow(v) PROVE LeasesKept
    BY <1>2, <1>8 DEF DeadLetterRow
<1>9. ASSUME NEW v \in Replicas, NEW delay \in 0..MaxDelay, RetryRow(v, delay)
      PROVE  LeasesKept
    BY <1>2, <1>9 DEF RetryRow
<1>10. ASSUME NEW v \in Replicas, Fails(v) \/ LeaveRow(v) \/ EndTick(v) PROVE LeasesKept
    BY <1>4, <1>10 DEF Fails, LeaveRow, EndTick, Steps
<1>11. ASSUME NEW r \in Rows, Replay(r) PROVE LeasesKept
    BY <1>6, <1>11 DEF Replay
<1>12. CASE Advance
    BY <1>0, <1>12 DEF Advance, Delivers
<1>13. CASE UNCHANGED leaseVars
    BY <1>0, <1>13 DEF leaseVars, Delivers
<1> QED
    BY <1>1, <1>3, <1>5, <1>7, <1>8, <1>9, <1>10, <1>11, <1>12, <1>13 DEF LeaseNext

\* A replica that has neither outlived its lease nor lost it keeps the row
\* out of every other replica's claim.
LEMMA HeldIsNotClaimable ==
    ASSUME LeaseInv, NEW v \in Replicas, NEW w \in Replicas, NEW r \in Rows,
           Delivers(v, r), ~Overran(v), v \notin lost
    PROVE  ~ClaimableRow(w, r)
<1>1. expiry[r] = tick[v] + TTL
    BY DEF LeaseInv, LeaseHeld
<1>2. tick[w] <= clock /\ clock <= tick[v] + TTL
    BY LeaseAssumption DEF LeaseInv, Overran, LeaseTypeOK
<1> QED
    BY <1>1, <1>2, LeaseAssumption DEF ClaimableRow, NoLease, LeaseInv, LeaseTypeOK

LEMMA LeaseInvStep == LeaseInv /\ [LeaseNext]_leaseVars => LeaseInv'
<1> SUFFICES ASSUME LeaseInv, [LeaseNext]_leaseVars PROVE LeaseInv'
    OBVIOUS
<1> USE LeaseAssumption
<1>1. LeaseTypeOK' /\ \A w \in Replicas : tick'[w] <= clock'
    BY LeaseTypeStep DEF LeaseInv
<1>2. CASE \A w \in Replicas, r \in Rows : ~ClaimRow(w, r)
  <2>1. LeasesKept
    BY <1>2, StepKeepsLeases DEF LeaseInv
  <2>2. \A w \in Replicas, r \in Rows : Delivers(w, r)' /\ Overran(w) => Overran(w)'
    BY <1>1, <2>1 DEF LeasesKept, Overran, LeaseInv, LeaseTypeOK
  <2>3. LeaseHeld'
    BY <2>1, <2>2 DEF LeasesKept, LeaseInv, LeaseHeld
  <2>4. BothDeliverOnlyPastLease'
    BY <2>1, <2>2 DEF LeasesKept, LeaseInv, BothDeliverOnlyPastLease
  <2> QED
    BY <1>1, <2>3, <2>4 DEF LeaseInv
<1>3. ASSUME NEW v \in Replicas, NEW q \in Rows, ClaimRow(v, q) PROVE LeaseInv'
  <2>1. /\ step[v] = "idle" /\ ClaimableRow(v, q)
        /\ UNCHANGED <<clock, status, tick, lost>> /\ v \notin lost
        /\ expiry' = [expiry EXCEPT ![q] = tick[v] + TTL]
        /\ \A w \in Replicas, r \in Rows :
              Delivers(w, r)' <=> (IF w = v THEN r = q ELSE Delivers(w, r))
    BY <1>3 DEF ClaimRow, Delivers, Idle, LeaseInv, LeaseTypeOK
  <2>2. \A w \in Replicas \ {v} : Delivers(w, q) => Overran(w) \/ w \in lost
    BY <2>1, HeldIsNotClaimable
  <2>3. LeaseHeld'
    BY <2>1, <2>2 DEF LeaseInv, LeaseHeld, LeaseTypeOK, Overran, ClaimableRow
  <2>4. BothDeliverOnlyPastLease'
    BY <2>1, <2>2 DEF LeaseInv, BothDeliverOnlyPastLease, Overran
  <2> QED
    BY <1>1, <2>3, <2>4 DEF LeaseInv
<1> QED
    BY <1>2, <1>3

LEMMA LeaseInvInit == LeaseInit => LeaseInv
BY LeaseAssumption
DEF LeaseInit, LeaseInv, LeaseTypeOK, LeaseHeld, BothDeliverOnlyPastLease, Delivers,
    Steps, NoRow, NoLease

\* Every reachable state is well typed: no tick claims more than a batch.
THEOREM LeaseTypeCorrect == LeaseSpec => []LeaseTypeOK
<1>1. LeaseInv => LeaseTypeOK
    BY DEF LeaseInv
<1> QED
    BY LeaseInvInit, LeaseInvStep, <1>1, PTL DEF LeaseSpec

\* As long as a tick has not outlived its leases, a row it delivers is pending
\* under the lease of its claim, unless somebody else wrote the row since: for
\* any rows, replicas, batch, time to live, delays, failures and crashes.
THEOREM LeasesAreHeld == LeaseSpec => []LeaseHeld
<1>1. LeaseInv => LeaseHeld
    BY DEF LeaseInv
<1> QED
    BY LeaseInvInit, LeaseInvStep, <1>1, PTL DEF LeaseSpec

\* Two replicas deliver the same row at once only if one of them has outlived
\* its lease or had the row written by somebody else: the only ways there are,
\* whatever rows, replicas, crashes, failed and late writes, retries and replays.
THEOREM BothDeliverOnlyPast == LeaseSpec => []BothDeliverOnlyPastLease
<1>1. LeaseInv => BothDeliverOnlyPastLease
    BY DEF LeaseInv
<1> QED
    BY LeaseInvInit, LeaseInvStep, <1>1, PTL DEF LeaseSpec

(* Migrations *)

Active(r) == runner[r] # NotRunning

\* What the plan of a run leaves out, the others' records make up for: on the
\* way up every earlier version is recorded or planned, on the way down every
\* later version is planned or not recorded.
PlanCovers(r) ==
    \A f \in runner[r].plan, g \in File :
        IF runner[r].direction = "up"
        THEN Files[g] < Files[f] => Files[g] \in applied \/ g \in runner[r].plan
        ELSE Files[g] > Files[f] /\ Files[g] \in applied => g \in runner[r].plan

MigrationInv ==
    /\ DOMAIN runner = Runners
    /\ applied \subseteq {Files[f] : f \in File}
    /\ \A r \in Runners : Active(r) =>
          {"pc", "direction", "target", "plan", "ok"} \subseteq DOMAIN runner[r]
          /\ runner[r].pc # "idle" /\ runner[r].plan \subseteq File
          /\ runner[r].direction \in {"up", "down"}
    /\ ~bothWays => \A q, r \in Runners :
          Active(q) /\ Active(r) => runner[q].direction = runner[r].direction
    /\ ~bothWays => \A r \in Runners : Active(r) => PlanCovers(r)
    /\ AppliedInOrder

\* Files are sorted by version.
LEMMA FilesSorted ==
    /\ \A f \in File : f \in Nat /\ Files[f] \in Nat
    /\ \A f, g \in File : f <= g => Files[f] <= Files[g]
BY MigrationAssumption DEF File

LEMMA MigrationInvInit == MigrationInit => MigrationInv
BY DEF MigrationInit, MigrationInv, Active, AppliedInOrder

\* Steps that only end a run or move it on without touching plan or records.
LEMMA PlansKept ==
    ASSUME MigrationInv, UNCHANGED <<applied, bothWays>>, DOMAIN runner' = Runners,
           \A r \in Runners : Active(r)' =>
              /\ Active(r) /\ runner'[r].pc # "idle"
              /\ DOMAIN runner'[r] = DOMAIN runner[r]
              /\ runner'[r].plan = runner[r].plan
              /\ runner'[r].direction = runner[r].direction
    PROVE  MigrationInv'
BY DEF MigrationInv, PlanCovers, AppliedInOrder

LEMMA MigrationInvStep == MigrationInv /\ [MigrationNext]_migrationVars => MigrationInv'
<1> SUFFICES ASSUME MigrationInv, [MigrationNext]_migrationVars PROVE MigrationInv'
    OBVIOUS
<1>1. ASSUME NEW r \in Runners, NEW direction \in {"up", "down"}, NEW target \in Goals,
             StartRun(r, direction, target)
      PROVE  MigrationInv'
  <2> DEFINE run == [pc |-> "lease", direction |-> direction, target |-> target,
                     plan |-> Plan(direction, target), ok |-> TRUE]
  <2>1. /\ runner' = [runner EXCEPT ![r] = run] /\ applied' = applied
        /\ bothWays' = (bothWays \/ \E q \in Runners :
                          Active(q) /\ runner[q].direction # direction)
    BY <1>1 DEF StartRun, Active
  <2>2. /\ DOMAIN runner' = Runners
        /\ runner'[r] = run
        /\ \A q \in Runners \ {r} : runner'[q] = runner[q]
    BY <2>1 DEF MigrationInv
  <2>3. run.direction = direction /\ run.pc = "lease" /\ run.plan = Plan(direction, target)
    OBVIOUS
  <2>4. {"pc", "direction", "target", "plan", "ok"} \subseteq DOMAIN run
    OBVIOUS
  <2>5. Plan(direction, target) \subseteq File
    BY DEF Plan
  <2>6. PlanCovers(r)'
    <3>1. target \in Nat
      BY FilesSorted DEF Goals
    <3> QED
      BY <2>1, <2>2, <2>3, <3>1, FilesSorted DEF PlanCovers, Plan
  <2> HIDE DEF run
  <2>7. AppliedInOrder'
    BY <2>1 DEF MigrationInv, AppliedInOrder
  <2>8. ~bothWays' => \A q \in Runners \ {r} : Active(q)' =>
           PlanCovers(q)' /\ runner'[q].direction = direction
    BY <2>1, <2>2 DEF MigrationInv, PlanCovers, Active
  <2>9. ~bothWays' => \A q \in Runners : Active(q)' =>
           PlanCovers(q)' /\ runner'[q].direction = direction
    BY <2>2, <2>3, <2>6, <2>8
  <2>10. \A q \in Runners : Active(q)' =>
          {"pc", "direction", "target", "plan", "ok"} \subseteq DOMAIN runner'[q]
          /\ runner'[q].pc # "idle" /\ runner'[q].plan \subseteq File
          /\ runner'[q].direction \in {"up", "down"}
    <3>1. ASSUME NEW q \in Runners, q # r, Active(q)'
          PROVE  {"pc", "direction", "target", "plan", "ok"} \subseteq DOMAIN runner'[q]
                 /\ runner'[q].pc # "idle" /\ runner'[q].plan \subseteq File
                 /\ runner'[q].direction \in {"up", "down"}
      BY <2>2, <3>1 DEF MigrationInv, Active
    <3> QED
      BY <2>2, <2>3, <2>4, <2>5, <3>1
  <2> QED
    BY <2>1, <2>2, <2>7, <2>9, <2>10 DEF MigrationInv
<1>2. ASSUME NEW r \in Runners, AcquireLease(r) PROVE MigrationInv'
  <2>1. CASE lease = FreeLease \/ lease.expires <= moment
    BY <1>2, <2>1, PlansKept DEF AcquireLease, GoOn, Active, MigrationInv, NotRunning
  <2>2. CASE ~(lease = FreeLease \/ lease.expires <= moment)
    BY <1>2, <2>2, PlansKept DEF AcquireLease, Active, MigrationInv, NotRunning
  <2> QED
    BY <2>1, <2>2
<1>3. ASSUME NEW r \in Runners, NEW f \in File, RunFile(r, f) PROVE MigrationInv'
    BY <1>3, PlansKept DEF RunFile, Fail, Active, MigrationInv, NotRunning
<1>4. ASSUME NEW r \in Runners, NEW f \in File, RecordVersion(r, f) PROVE MigrationInv'
  <2>1. /\ Active(r) /\ IsNext(r, f) /\ bothWays' = bothWays /\ runner[r].pc = "record"
    BY <1>4 DEF RecordVersion, Active, NotRunning
  <2>2. CASE runner[r].direction = "up" /\ Files[f] \in applied
    BY <1>4, <2>1, <2>2, PlansKept DEF RecordVersion, Fail, Active, MigrationInv, NotRunning
  <2>3. ASSUME GoOn(r, runner[r].plan \ {f})
        PROVE  /\ DOMAIN runner' = Runners
               /\ \A q \in Runners : Active(q)' =>
                     /\ Active(q) /\ DOMAIN runner'[q] = DOMAIN runner[q]
                     /\ runner'[q].pc # "idle"
                     /\ runner'[q].direction = runner[q].direction
                     /\ runner'[q].plan = IF q = r THEN runner[q].plan \ {f}
                                                   ELSE runner[q].plan
    BY <2>1, <2>3 DEF GoOn, MigrationInv, Active
  <2>4. ASSUME GoOn(r, runner[r].plan \ {f}), applied' \subseteq applied \cup {Files[f]},
               AppliedInOrder',
               ~bothWays' => \A q \in Runners : Active(q)' => PlanCovers(q)'
        PROVE  MigrationInv'
    <3>1. ASSUME NEW q \in Runners, Active(q)'
          PROVE  /\ {"pc", "direction", "target", "plan", "ok"} \subseteq DOMAIN runner'[q]
                 /\ runner'[q].pc # "idle" /\ runner'[q].plan \subseteq File
                 /\ runner'[q].direction \in {"up", "down"}
      <4>1. /\ {"pc", "direction", "target", "plan", "ok"} \subseteq DOMAIN runner[q]
            /\ runner[q].plan \subseteq File /\ runner[q].direction \in {"up", "down"}
        BY <2>3, <2>4, <3>1 DEF MigrationInv
      <4>2. /\ DOMAIN runner'[q] = DOMAIN runner[q] /\ runner'[q].pc # "idle"
            /\ runner'[q].direction = runner[q].direction
            /\ runner'[q].plan \subseteq runner[q].plan
        BY <2>3, <2>4, <3>1
      <4> QED
        BY <4>1, <4>2
    <3>2. ASSUME ~bothWays', NEW p \in Runners, NEW q \in Runners, Active(p)', Active(q)'
          PROVE  runner'[p].direction = runner'[q].direction
      <4>1. runner[p].direction = runner[q].direction
        BY <2>1, <2>3, <2>4, <3>2 DEF MigrationInv
      <4>2. /\ runner'[p].direction = runner[p].direction
            /\ runner'[q].direction = runner[q].direction
        BY <2>3, <2>4, <3>2
      <4> QED
        BY <4>1, <4>2
    <3> QED
      BY <2>3, <2>4, <3>1, <3>2 DEF MigrationInv
  <2>5. CASE runner[r].direction = "up" /\ Files[f] \notin applied
    <3>1. applied' = applied \cup {Files[f]} /\ GoOn(r, runner[r].plan \ {f})
      BY <1>4, <2>5 DEF RecordVersion
    <3>2. \A g \in File : Files[g] < Files[f] /\ ~bothWays => Files[g] \in applied
      BY <2>1, <2>5, FilesSorted DEF MigrationInv, PlanCovers, IsNext
    <3>3. AppliedInOrder'
      BY <2>1, <3>1, <3>2 DEF MigrationInv, AppliedInOrder
    <3>4. ASSUME ~bothWays', NEW q \in Runners, Active(q)' PROVE PlanCovers(q)'
      <4>1. /\ Active(q) /\ PlanCovers(q) /\ runner[q].plan \subseteq File
            /\ runner[q].direction = runner[r].direction
        BY <2>1, <2>3, <3>1, <3>4 DEF MigrationInv
      <4>2. /\ runner'[q].direction = runner[q].direction
            /\ runner'[q].plan = IF q = r THEN runner[q].plan \ {f} ELSE runner[q].plan
        BY <2>3, <3>1, <3>4
      <4> QED
        BY <2>5, <3>1, <4>1, <4>2 DEF PlanCovers
    <3> QED
      BY <2>4, <3>1, <3>3, <3>4
  <2>6. CASE runner[r].direction # "up"
    <3>1. applied' = applied \ {Files[f]} /\ GoOn(r, runner[r].plan \ {f})
      BY <1>4, <2>6 DEF RecordVersion
    <3>2. \A g \in File : Files[g] > Files[f] /\ ~bothWays => Files[g] \notin applied
      BY <2>1, <2>6, FilesSorted DEF MigrationInv, PlanCovers, IsNext
    <3>3. AppliedInOrder'
      BY <2>1, <3>1, <3>2, FilesSorted DEF MigrationInv, AppliedInOrder
    <3>4. ASSUME ~bothWays', NEW q \in Runners, Active(q)' PROVE PlanCovers(q)'
      <4>1. /\ Active(q) /\ PlanCovers(q) /\ runner[q].plan \subseteq File
            /\ runner[q].direction = runner[r].direction
        BY <2>1, <2>3, <3>1, <3>4 DEF MigrationInv
      <4>2. /\ runner'[q].direction = runner[q].direction
            /\ runner'[q].plan = IF q = r THEN runner[q].plan \ {f} ELSE runner[q].plan
        BY <2>3, <3>1, <3>4
      <4> QED
        BY <2>6, <3>1, <4>1, <4>2 DEF PlanCovers
    <3> QED
      BY <2>4, <3>1, <3>3, <3>4
  <2> QED
    BY <2>2, <2>5, <2>6
<1>5. ASSUME NEW r \in Runners, ReleaseLease(r) \/ RunnerDies(r) PROVE MigrationInv'
    BY <1>5, PlansKept DEF ReleaseLease, RunnerDies, Active, MigrationInv, NotRunning
<1>6. CASE MomentPasses \/ UNCHANGED migrationVars
    BY <1>6, PlansKept DEF MomentPasses, migrationVars, Active, MigrationInv
<1> QED
    BY <1>1, <1>2, <1>3, <1>4, <1>5, <1>6 DEF MigrationNext

\* No version is recorded without the earlier ones while the runs go in one
\* direction: outdated plans, overrun leases and crashes included.
THEOREM MigrationsRecordedInOrder == MigrationSpec => []AppliedInOrder
<1>1. MigrationInv => AppliedInOrder
    BY DEF MigrationInv
<1> QED
    BY <1>1, MigrationInvInit, MigrationInvStep, PTL DEF MigrationSpec

-----------------------------------------------------------------------------
(* Background jobs *)


\* Nobody has requeued j who could have done so twice.
Calm(j) == j \notin contendedJobs \/ ~job[j].requeued

Sound(j) ==
    /\ \A w \in JobWorkers : Runs(w, j) =>
          /\ job[j].status = "processing"
          /\ jobWorker[w].pc = "mark" => jobWorker[w].attempts = job[j].attempts + 1
    /\ \A v, w \in JobWorkers : Runs(v, j) /\ Runs(w, j) => v = w
    /\ \A a \in Admins : requeuing[a] = j => job[j].status = "dead_letter"
    /\ job[j].attempts <= MaxJobAttempts
    /\ job[j].status = "dead_letter" <=> job[j].attempts = MaxJobAttempts

AloneRequeuing ==
    \A a, b \in Admins :
        (requeuing[a] = requeuing[b] /\ requeuing[a] \in Jobs \ contendedJobs) => a = b

BusyWithJob == \A w \in JobWorkers : jobWorker[w].pc # "idle" => jobWorker[w].job \in Jobs

AbsentUntouched == \A j \in Jobs : job[j].status = "absent" => job[j] = Absent

JobInv ==
    /\ JobTypeOK
    /\ BusyWithJob
    /\ AbsentUntouched
    /\ AloneRequeuing
    /\ \A j \in Jobs : Calm(j) => Sound(j)

LEMMA RecordTypes == Absent \in JobRecord /\ NewJob \in JobRecord
BY DEF Absent, NewJob, JobRecord, JobStatuses

\* A job with some fields replaced is a job.
LEMMA FieldsReplaced ==
    ASSUME NEW r \in JobRecord, NEW s \in JobStatuses, NEW n \in Nat,
           NEW isDue \in BOOLEAN, NEW recent \in BOOLEAN, NEW archived \in BOOLEAN,
           NEW requeued \in BOOLEAN
    PROVE  /\ [r EXCEPT !.recent = recent] \in JobRecord
           /\ [r EXCEPT !.due = isDue] \in JobRecord
           /\ [r EXCEPT !.archived = archived] \in JobRecord
           /\ [r EXCEPT !.status = s, !.attempts = n, !.due = isDue] \in JobRecord
           /\ [r EXCEPT !.status = s, !.due = isDue, !.attempts = n,
                        !.requeued = requeued] \in JobRecord
BY DEF JobRecord

\* A worker that has read the attempts of its job is a worker.
LEMMA WorkerMarks ==
    ASSUME NEW J, NEW r \in [pc : JobWorkerSteps, job : J, attempts : Nat], NEW n \in Nat
    PROVE  [r EXCEPT !.pc = "mark", !.attempts = n]
              \in [pc : JobWorkerSteps, job : J, attempts : Nat]
<1>1. "mark" \in JobWorkerSteps
    BY DEF JobWorkerSteps
<1> QED
    BY <1>1

LEMMA AfterFailureType == \A attempts : AfterFailure(attempts) \in {"pending", "dead_letter"}
BY DEF AfterFailure

LEMMA BusyJob ==
    ASSUME JobInv, NEW w \in JobWorkers, jobWorker[w].pc # "idle"
    PROVE  jobWorker[w].job \in Jobs
BY DEF JobInv, BusyWithJob

LEMMA HeldJob ==
    ASSUME JobInv, NEW a \in Admins, requeuing[a] # NoJob
    PROVE  requeuing[a] \in Jobs
BY DEF JobInv, JobTypeOK

LEMMA JobTypeStep == JobInv /\ [JobNext]_jobVars => JobTypeOK' /\ BusyWithJob' /\ AbsentUntouched'
<1> SUFFICES ASSUME JobInv, [JobNext]_jobVars
             PROVE  JobTypeOK' /\ BusyWithJob' /\ AbsentUntouched'
    OBVIOUS
<1>0. JobTypeOK /\ BusyWithJob /\ AbsentUntouched
    BY DEF JobInv
<1> USE JobQueueAssumption DEF JobTypeOK, BusyWithJob, AbsentUntouched
<1>1. ASSUME NEW e \in Enqueuers, FindExisting(e)
      PROVE  JobTypeOK' /\ BusyWithJob' /\ AbsentUntouched'
    BY <1>0, <1>1 DEF FindExisting
<1>2. ASSUME NEW e \in Enqueuers, CreateJob(e)
      PROVE  JobTypeOK' /\ BusyWithJob' /\ AbsentUntouched'
  <2>1. NewJob.status # "absent"
    BY DEF NewJob, Absent
  <2>2. PICK j \in Jobs : job[j].status = "absent" /\ job' = [job EXCEPT ![j] = NewJob]
    BY <1>2 DEF CreateJob
  <2>3. JobTypeOK' /\ BusyWithJob'
    BY <1>0, <1>2, <2>2, RecordTypes DEF CreateJob
  <2>4. AbsentUntouched'
    BY <1>0, <2>1, <2>2
  <2> QED
    BY <2>3, <2>4
<1>3. ASSUME NEW w \in JobWorkers, ClaimJob(w)
      PROVE  JobTypeOK' /\ BusyWithJob' /\ AbsentUntouched'
    BY <1>0, <1>3 DEF ClaimJob, JobRecord, JobStatuses, JobWorkerSteps
<1>4. ASSUME NEW w \in JobWorkers, Complete(w)
      PROVE  JobTypeOK' /\ BusyWithJob' /\ AbsentUntouched'
    BY <1>0, <1>4 DEF Complete, Resting, JobRecord, JobStatuses, JobWorkerSteps
<1>5. ASSUME NEW w \in JobWorkers, RunFails(w)
      PROVE  JobTypeOK' /\ BusyWithJob' /\ AbsentUntouched'
    BY <1>0, <1>5 DEF RunFails, JobWorkerSteps
<1>6. ASSUME NEW w \in JobWorkers, ReadFailed(w)
      PROVE  JobTypeOK' /\ BusyWithJob' /\ AbsentUntouched'
  <2>1. jobWorker[w].job \in Jobs /\ jobWorker[w].pc = "failed"
    BY <1>0, <1>6 DEF ReadFailed
  <2>2. job[jobWorker[w].job].attempts + 1 \in Nat
    BY <1>0, <2>1 DEF JobRecord
  <2>3. jobWorker' = [jobWorker EXCEPT ![w].pc = "mark",
                          ![w].attempts = job[jobWorker[w].job].attempts + 1]
        /\ UNCHANGED <<job, enqueuing, requeuing, deaths, requeues, raced, contendedJobs>>
    BY <1>6 DEF ReadFailed
  <2>4. PICK n \in Nat : n = job[jobWorker[w].job].attempts + 1
    BY <2>2
  <2>5. jobWorker' = [jobWorker EXCEPT ![w] = [jobWorker[w] EXCEPT !.pc = "mark", !.attempts = n]]
    BY <1>0, <2>3, <2>4
  <2>6. [jobWorker[w] EXCEPT !.pc = "mark", !.attempts = n]
           \in [pc : JobWorkerSteps, job : Jobs \cup {NoJob}, attempts : Nat]
    <3>1. jobWorker[w] \in [pc : JobWorkerSteps, job : Jobs \cup {NoJob}, attempts : Nat]
      BY <1>0
    <3> QED
      BY <3>1, WorkerMarks
  <2>7. jobWorker' \in [JobWorkers -> [pc : JobWorkerSteps, job : Jobs \cup {NoJob}, attempts : Nat]]
    BY <1>0, <2>5, <2>6
  <2>8. \A v \in JobWorkers : jobWorker'[v].job = jobWorker[v].job
                             /\ (v # w => jobWorker'[v].pc = jobWorker[v].pc)
    BY <1>0, <2>5
  <2>9. BusyWithJob'
    BY <1>0, <2>1, <2>8
  <2> QED
    BY <1>0, <2>3, <2>7, <2>9
<1>7. ASSUME NEW w \in JobWorkers, MarkFailed(w)
      PROVE  JobTypeOK' /\ BusyWithJob' /\ AbsentUntouched'
  <2> DEFINE j == jobWorker[w].job
             verdict == AfterFailure(jobWorker[w].attempts)
  <2>1. j \in Jobs /\ verdict \in {"pending", "dead_letter"}
    BY <1>0, <1>7, AfterFailureType DEF MarkFailed
  <2>2. job' = [job EXCEPT ![j].status = verdict, ![j].attempts = @ + 1, ![j].due = FALSE]
        /\ jobWorker' = [jobWorker EXCEPT ![w] = Resting]
        /\ UNCHANGED <<enqueuing, requeuing, deaths, requeues, raced, contendedJobs>>
    BY <1>7 DEF MarkFailed
  <2>3. [job[j] EXCEPT !.status = verdict, !.attempts = job[j].attempts + 1, !.due = FALSE]
           \in JobRecord
    <3>1. job[j] \in JobRecord /\ verdict \in JobStatuses
      BY <1>0, <2>1 DEF JobStatuses
    <3>2. job[j].attempts + 1 \in Nat
      BY <3>1 DEF JobRecord
    <3> HIDE DEF j, verdict
    <3> QED
      BY <3>1, <3>2, FieldsReplaced
  <2> HIDE DEF j, verdict
  <2>4. job' = [job EXCEPT ![j] = [job[j] EXCEPT !.status = verdict,
                                   !.attempts = job[j].attempts + 1, !.due = FALSE]]
    BY <1>0, <2>1, <2>2
  <2>5. job' \in [Jobs -> JobRecord]
    BY <1>0, <2>1, <2>3, <2>4
  <2>6. AbsentUntouched'
    <3>1. job'[j].status = verdict
      BY <1>0, <2>1, <2>2 DEF JobRecord
    <3>2. \A i \in Jobs \ {j} : job'[i] = job[i]
      BY <1>0, <2>1, <2>4
    <3> QED
      BY <1>0, <2>1, <3>1, <3>2
  <2>7. Resting \in [pc : JobWorkerSteps, job : Jobs \cup {NoJob}, attempts : Nat]
    BY DEF Resting, JobWorkerSteps
  <2>8. jobWorker' \in [JobWorkers -> [pc : JobWorkerSteps, job : Jobs \cup {NoJob}, attempts : Nat]]
    BY <1>0, <2>2, <2>7
  <2>9. BusyWithJob'
    BY <1>0, <2>2 DEF Resting
  <2> QED
    BY <1>0, <2>2, <2>5, <2>6, <2>8, <2>9
<1>8. ASSUME NEW w \in JobWorkers, WorkerDies(w)
      PROVE  JobTypeOK' /\ BusyWithJob' /\ AbsentUntouched'
    BY <1>0, <1>8 DEF WorkerDies, Resting, JobWorkerSteps
<1>9. ASSUME NEW j \in Jobs, WindowPasses(j)
      PROVE  JobTypeOK' /\ BusyWithJob' /\ AbsentUntouched'
  <2>1. job[j].status # "absent"
    BY <1>0, <1>9 DEF WindowPasses, Absent
  <2>2. [job[j] EXCEPT !.recent = FALSE] \in JobRecord
    BY <1>0, FieldsReplaced DEF JobStatuses
  <2>3. JobTypeOK' /\ BusyWithJob'
    BY <1>0, <1>9, <2>2 DEF WindowPasses
  <2>4. AbsentUntouched'
    BY <1>0, <1>9, <2>1 DEF WindowPasses, JobRecord
  <2> QED
    BY <2>3, <2>4
<1>10. ASSUME NEW j \in Jobs, BackoffEnds(j)
       PROVE  JobTypeOK' /\ BusyWithJob' /\ AbsentUntouched'
  <2>1. job[j].status = "pending" /\ job' = [job EXCEPT ![j].due = TRUE]
        /\ UNCHANGED <<jobWorker, enqueuing, requeuing, deaths, requeues, raced, contendedJobs>>
    BY <1>10 DEF BackoffEnds
  <2>2. [job[j] EXCEPT !.due = TRUE] \in JobRecord
    BY <1>0, FieldsReplaced DEF JobStatuses
  <2>3. JobTypeOK' /\ BusyWithJob'
    BY <1>0, <2>1, <2>2
  <2>4. AbsentUntouched'
    BY <1>0, <2>1 DEF JobRecord
  <2> QED
    BY <2>3, <2>4
<1>11. ASSUME NEW j \in Jobs, Archive(j)
       PROVE  JobTypeOK' /\ BusyWithJob' /\ AbsentUntouched'
  <2>1. /\ job[j].status \in {"completed", "dead_letter"}
        /\ job' = [job EXCEPT ![j].archived = TRUE]
        /\ UNCHANGED <<jobWorker, enqueuing, requeuing, deaths, requeues, raced, contendedJobs>>
    BY <1>11 DEF Archive
  <2>2. [job[j] EXCEPT !.archived = TRUE] \in JobRecord
    BY <1>0, FieldsReplaced DEF JobStatuses
  <2>3. JobTypeOK' /\ BusyWithJob'
    BY <1>0, <2>1, <2>2
  <2>4. AbsentUntouched'
    BY <1>0, <2>1 DEF JobRecord
  <2> QED
    BY <2>3, <2>4
<1>12. ASSUME NEW j \in Jobs, NEW a \in Admins, ReadDeadLetter(a, j)
       PROVE  JobTypeOK' /\ BusyWithJob' /\ AbsentUntouched'
    BY <1>0, <1>12 DEF ReadDeadLetter
<1>13. ASSUME NEW a \in Admins, WriteRequeue(a)
       PROVE  JobTypeOK' /\ BusyWithJob' /\ AbsentUntouched'
  <2>1. requeuing[a] \in Jobs
    BY <1>0, <1>13 DEF WriteRequeue
  <2> QED
    <3> DEFINE j == requeuing[a]
    <3>1. /\ job' = [job EXCEPT ![j].status = "pending", ![j].due = TRUE,
                                ![j].attempts = 0, ![j].requeued = TRUE]
          /\ requeues' = requeues + 1
          /\ requeuing' = [requeuing EXCEPT ![a] = NoJob]
          /\ UNCHANGED <<jobWorker, enqueuing, deaths, raced, contendedJobs>>
      BY <1>13 DEF WriteRequeue
    <3> HIDE DEF j
    <3>2. j \in Jobs
      BY <2>1 DEF j
    <3>3. [job[j] EXCEPT !.status = "pending", !.due = TRUE, !.attempts = 0,
                         !.requeued = TRUE] \in JobRecord
      BY <1>0, <3>2, FieldsReplaced DEF JobStatuses
    <3>4. job' \in [Jobs -> JobRecord]
      BY <1>0, <3>1, <3>2, <3>3
    <3>5. AbsentUntouched'
      BY <1>0, <3>1, <3>2 DEF JobRecord
    <3> QED
      BY <1>0, <3>1, <3>4, <3>5
<1>14. CASE UNCHANGED jobVars
    BY <1>0, <1>14 DEF jobVars
<1> QED
    BY <1>1, <1>2, <1>3, <1>4, <1>5, <1>6, <1>7, <1>8, <1>9, <1>10, <1>11, <1>12,
       <1>13, <1>14 DEF JobNext, WorkerStep

\* A step that changes neither who runs or requeues job k nor what is sound
\* about it.
LEMMA SoundKept ==
    ASSUME JobInv, NEW k \in Jobs, Calm(k)',
           contendedJobs \subseteq contendedJobs',
           job'[k].requeued = job[k].requeued,
           job'[k].status = job[k].status, job'[k].attempts = job[k].attempts,
           \A w \in JobWorkers : Runs(w, k)' =>
              Runs(w, k) /\ (jobWorker'[w].pc = "mark" =>
                 jobWorker[w].pc = "mark"
                 /\ jobWorker'[w].attempts = jobWorker[w].attempts),
           \A a \in Admins : requeuing'[a] = k => requeuing[a] = k
    PROVE  Sound(k)'
<1>1. Calm(k)
    BY DEF Calm
<1> QED
    BY <1>1 DEF JobInv, Sound

LEMMA SoundStep ==
    ASSUME JobInv, [JobNext]_jobVars, NEW k \in Jobs, Calm(k)'
    PROVE  Sound(k)'
<1>0. JobTypeOK /\ BusyWithJob
    BY DEF JobInv
<1> USE DEF JobTypeOK
<1>1. ASSUME NEW e \in Enqueuers, FindExisting(e) PROVE Sound(k)'
    BY <1>1, SoundKept DEF FindExisting, Runs
<1>2. ASSUME NEW e \in Enqueuers, CreateJob(e) PROVE Sound(k)'
  <2>1. PICK j \in Jobs : job[j].status = "absent" /\ job' = [job EXCEPT ![j] = NewJob]
    BY <1>2 DEF CreateJob
  <2>2. UNCHANGED <<jobWorker, requeuing, contendedJobs>>
    BY <1>2 DEF CreateJob
  <2>3. CASE k # j
    BY <1>0, <2>1, <2>2, <2>3, SoundKept DEF Runs
  <2>4. CASE k = j
    <3>1. job[k] = Absent /\ ~job[k].requeued /\ Calm(k)
      BY <2>1, <2>4 DEF JobInv, AbsentUntouched, Absent, Calm
    <3>2. Sound(k) /\ job[k].status = "absent"
      BY <2>1, <2>4, <3>1 DEF JobInv
    <3>3. job'[k].status = "pending" /\ job'[k].attempts = 0
      BY <1>0, <2>1, <2>4 DEF NewJob, Absent
    <3> QED
      BY <2>2, <3>2, <3>3, JobQueueAssumption DEF Sound, Runs
  <2> QED
    BY <2>3, <2>4
<1>3. ASSUME NEW w \in JobWorkers, ClaimJob(w) PROVE Sound(k)'
  <2>1. PICK j \in Jobs :
           /\ job[j].status = "pending"
           /\ job' = [job EXCEPT ![j].status = "processing"]
           /\ jobWorker' = [jobWorker EXCEPT ![w] = [pc |-> "run", job |-> j, attempts |-> 0]]
    BY <1>3 DEF ClaimJob
  <2>2. UNCHANGED <<requeuing, contendedJobs>> /\ jobWorker[w] = Resting
    BY <1>3 DEF ClaimJob
  <2>3. CASE k # j
    BY <1>0, <2>1, <2>2, <2>3, SoundKept DEF Runs
  <2>4. CASE k = j
    <3>1. job'[k].status = "processing" /\ job'[k].attempts = job[k].attempts
          /\ job'[k].requeued = job[k].requeued
      BY <1>0, <2>1, <2>4 DEF JobRecord
    <3>2. Sound(k)
      BY <2>2, <3>1 DEF JobInv, Calm
    <3>3. \A v \in JobWorkers : ~Runs(v, k)
      BY <2>1, <2>4, <3>2 DEF Sound
    <3>4. \A v \in JobWorkers : Runs(v, k)' => v = w /\ jobWorker'[v].pc = "run"
      BY <1>0, <2>1, <3>3 DEF Runs
    <3> QED
      BY <2>1, <2>2, <2>4, <3>1, <3>2, <3>4 DEF Sound
  <2> QED
    BY <2>3, <2>4
<1>4. ASSUME NEW w \in JobWorkers, Complete(w) PROVE Sound(k)'
  <2> DEFINE j == jobWorker[w].job
  <2>1. /\ j \in Jobs /\ jobWorker[w].pc = "run"
        /\ job' = [job EXCEPT ![j].status = "completed"]
        /\ jobWorker' = [jobWorker EXCEPT ![w] = Resting]
        /\ UNCHANGED <<requeuing, contendedJobs>>
    BY <1>0, <1>4 DEF Complete, BusyWithJob
  <2>2. \A v \in JobWorkers : Runs(v, k)' => v # w /\ Runs(v, k) /\ jobWorker'[v] = jobWorker[v]
    BY <1>0, <2>1 DEF Runs, Resting
  <2>3. CASE k # j
    BY <1>0, <2>1, <2>2, <2>3, SoundKept
  <2>4. CASE k = j
    <3>1. job'[k].status = "completed" /\ job'[k].attempts = job[k].attempts
          /\ job'[k].requeued = job[k].requeued
      BY <1>0, <2>1, <2>4 DEF JobRecord
    <3>2. Sound(k) /\ Runs(w, k)
      BY <2>1, <2>4, <3>1 DEF JobInv, Calm, Runs
    <3>3. job[k].status = "processing" /\ \A v \in JobWorkers : Runs(v, k) => v = w
      BY <3>2 DEF Sound
    <3> QED
      BY <2>1, <2>2, <3>1, <3>2, <3>3 DEF Sound
  <2> QED
    BY <2>3, <2>4
<1>5. ASSUME NEW w \in JobWorkers, RunFails(w) PROVE Sound(k)'
  <2>1. \A v \in JobWorkers : Runs(v, k)' => Runs(v, k) /\
            (jobWorker'[v].pc = "mark" => jobWorker'[v] = jobWorker[v])
    BY <1>0, <1>5 DEF RunFails, Runs
  <2> QED
    BY <1>5, <2>1, SoundKept DEF RunFails
<1>6. ASSUME NEW w \in JobWorkers, ReadFailed(w) PROVE Sound(k)'
  <2> DEFINE j == jobWorker[w].job
  <2>1. /\ j \in Jobs /\ jobWorker[w].pc = "failed"
        /\ jobWorker' = [jobWorker EXCEPT ![w].pc = "mark",
                                          ![w].attempts = job[j].attempts + 1]
        /\ UNCHANGED <<job, requeuing, contendedJobs>>
    BY <1>0, <1>6 DEF ReadFailed, BusyWithJob
  <2>2. \A v \in JobWorkers : Runs(v, k)' => Runs(v, k) /\
            (v # w => jobWorker'[v] = jobWorker[v])
    BY <1>0, <2>1 DEF Runs
  <2>3. Runs(w, k)' => jobWorker'[w].attempts = job[k].attempts + 1
    BY <1>0, <2>1 DEF Runs
  <2>4. Sound(k)
    BY <2>1 DEF JobInv, Calm
  <2> QED
    BY <2>1, <2>2, <2>3, <2>4 DEF Sound
<1>7. ASSUME NEW w \in JobWorkers, MarkFailed(w) PROVE Sound(k)'
  <2> DEFINE j == jobWorker[w].job
             n == jobWorker[w].attempts
  <2>1. /\ j \in Jobs /\ jobWorker[w].pc = "mark"
        /\ job' = [job EXCEPT ![j].status = AfterFailure(n), ![j].attempts = @ + 1,
                              ![j].due = FALSE]
        /\ jobWorker' = [jobWorker EXCEPT ![w] = Resting]
        /\ UNCHANGED <<requeuing, contendedJobs>>
    BY <1>0, <1>7 DEF MarkFailed, BusyWithJob
  <2>2. \A v \in JobWorkers : Runs(v, k)' => v # w /\ Runs(v, k) /\ jobWorker'[v] = jobWorker[v]
    BY <1>0, <2>1 DEF Runs, Resting
  <2>3. CASE k # j
    BY <1>0, <2>1, <2>2, <2>3, SoundKept
  <2>4. CASE k = j
    <3>1. /\ job'[k].status = AfterFailure(n)
          /\ job'[k].attempts = job[k].attempts + 1
          /\ job'[k].requeued = job[k].requeued
      BY <1>0, <2>1, <2>4 DEF JobRecord
    <3>2. Sound(k) /\ Runs(w, k)
      BY <2>1, <2>4, <3>1 DEF JobInv, Calm, Runs
    <3>3. /\ job[k].status = "processing" /\ n = job[k].attempts + 1
          /\ \A v \in JobWorkers : Runs(v, k) => v = w
      BY <2>1, <3>2 DEF Sound
    <3>4. job[k].attempts \in Nat /\ job[k].attempts < MaxJobAttempts
      <4>1. job[k].attempts \in Nat
        BY <1>0 DEF JobRecord
      <4>2. job[k].attempts <= MaxJobAttempts /\ job[k].attempts # MaxJobAttempts
        BY <3>2, <3>3 DEF Sound
      <4> QED
        BY <4>1, <4>2, JobQueueAssumption
    <3>5. /\ job'[k].attempts <= MaxJobAttempts
          /\ job'[k].status = "dead_letter" <=> job'[k].attempts = MaxJobAttempts
      BY <3>1, <3>3, <3>4, JobQueueAssumption DEF AfterFailure
    <3>6. \A a \in Admins : requeuing'[a] # k
      BY <2>1, <3>2, <3>3 DEF Sound
    <3> QED
      BY <2>2, <3>3, <3>5, <3>6 DEF Sound
  <2> QED
    BY <2>3, <2>4
<1>8. ASSUME NEW w \in JobWorkers, WorkerDies(w) PROVE Sound(k)'
  <2>1. \A v \in JobWorkers : Runs(v, k)' => Runs(v, k) /\ jobWorker'[v] = jobWorker[v]
    BY <1>0, <1>8 DEF WorkerDies, Runs, Resting
  <2> QED
    BY <1>8, <2>1, SoundKept DEF WorkerDies
<1>9. ASSUME NEW j \in Jobs, WindowPasses(j) \/ BackoffEnds(j) \/ Archive(j)
      PROVE  Sound(k)'
  <2>1. UNCHANGED <<jobWorker, requeuing, contendedJobs>>
    BY <1>9 DEF WindowPasses, BackoffEnds, Archive
  <2>2. /\ job'[k].requeued = job[k].requeued
        /\ job'[k].status = job[k].status /\ job'[k].attempts = job[k].attempts
    <3>1. CASE WindowPasses(j)
      BY <1>0, <3>1 DEF WindowPasses, JobRecord
    <3>2. CASE BackoffEnds(j)
      BY <1>0, <3>2 DEF BackoffEnds, JobRecord
    <3>3. CASE Archive(j)
      BY <1>0, <3>3 DEF Archive, JobRecord
    <3> QED
      BY <1>9, <3>1, <3>2, <3>3
  <2> QED
    BY <2>1, <2>2, SoundKept DEF Runs
<1>10. ASSUME NEW j \in Jobs, NEW a \in Admins, ReadDeadLetter(a, j) PROVE Sound(k)'
  <2>1. /\ job[j].status = "dead_letter"
        /\ requeuing' = [requeuing EXCEPT ![a] = j]
        /\ contendedJobs \subseteq contendedJobs'
        /\ UNCHANGED <<job, jobWorker>>
    BY <1>10 DEF ReadDeadLetter, Requeueable
  <2>2. Sound(k)
    BY <2>1 DEF JobInv, Calm
  <2> QED
    BY <1>0, <2>1, <2>2 DEF Sound, Runs
<1>11. ASSUME NEW a \in Admins, WriteRequeue(a) PROVE Sound(k)'
  <2> DEFINE j == requeuing[a]
  <2>1. /\ j \in Jobs
        /\ job' = [job EXCEPT ![j].status = "pending", ![j].due = TRUE,
                              ![j].attempts = 0, ![j].requeued = TRUE]
        /\ requeuing' = [requeuing EXCEPT ![a] = NoJob]
        /\ UNCHANGED <<jobWorker, contendedJobs>>
    BY <1>11, HeldJob DEF WriteRequeue
  <2>2. \A b \in Admins : requeuing'[b] = k => b # a /\ requeuing[b] = k
    BY <1>0, <2>1, JobQueueAssumption
  <2>3. CASE k # j
    BY <1>0, <2>1, <2>2, <2>3, SoundKept DEF Runs
  <2>4. CASE k = j
    <3>1. job'[k].status = "pending" /\ job'[k].attempts = 0 /\ job'[k].requeued = TRUE
      BY <1>0, <2>1, <2>4 DEF JobRecord
    <3>2. k \notin contendedJobs /\ Sound(k)
      BY <2>1, <3>1 DEF JobInv, Calm
    <3>3. \A b \in Admins : requeuing'[b] # k
      BY <2>1, <2>2, <2>4, <3>2 DEF JobInv, AloneRequeuing
    <3>4. \A v \in JobWorkers : ~Runs(v, k)'
      BY <2>1, <2>4, <3>2 DEF Sound, Runs
    <3> QED
      BY <3>1, <3>3, <3>4, JobQueueAssumption DEF Sound
  <2> QED
    BY <2>3, <2>4
<1>12. CASE UNCHANGED jobVars
  <2>1. UNCHANGED <<job, jobWorker, requeuing, contendedJobs>>
    BY <1>12 DEF jobVars
  <2>2. Sound(k)
    BY <2>1 DEF JobInv, Calm
  <2> QED
    BY <2>1, <2>2 DEF Sound, Runs
<1> QED
    BY <1>1, <1>2, <1>3, <1>4, <1>5, <1>6, <1>7, <1>8, <1>9, <1>10, <1>11, <1>12
    DEF JobNext, WorkerStep

LEMMA AloneStep == JobInv /\ [JobNext]_jobVars => AloneRequeuing'
<1> SUFFICES ASSUME JobInv, [JobNext]_jobVars PROVE AloneRequeuing'
    OBVIOUS
<1>0. JobTypeOK /\ AloneRequeuing
    BY DEF JobInv
<1>1. CASE UNCHANGED <<requeuing, contendedJobs>>
    BY <1>0, <1>1 DEF AloneRequeuing
<1>2. ASSUME NEW j \in Jobs, NEW a \in Admins, ReadDeadLetter(a, j)
      PROVE  AloneRequeuing'
  <2>1. /\ requeuing' = [requeuing EXCEPT ![a] = j]
        /\ contendedJobs \subseteq contendedJobs'
        /\ (\E b \in Admins : requeuing[b] = j) => j \in contendedJobs'
    BY <1>2 DEF ReadDeadLetter
  <2> QED
    BY <1>0, <2>1 DEF AloneRequeuing, JobTypeOK
<1>3. ASSUME NEW a \in Admins, WriteRequeue(a) PROVE AloneRequeuing'
    BY <1>0, <1>3, JobQueueAssumption DEF WriteRequeue, AloneRequeuing, JobTypeOK
<1> QED
    BY <1>1, <1>2, <1>3
    DEF JobNext, WorkerStep, FindExisting, CreateJob, ClaimJob, Complete, RunFails,
        ReadFailed, MarkFailed, WorkerDies, WindowPasses, BackoffEnds, Archive, jobVars

LEMMA JobInvStep == JobInv /\ [JobNext]_jobVars => JobInv'
BY JobTypeStep, AloneStep, SoundStep DEF JobInv

LEMMA JobInvInit == JobInit => JobInv
<1> SUFFICES ASSUME JobInit PROVE JobInv
    OBVIOUS
<1>1. JobTypeOK
    BY RecordTypes, JobQueueAssumption
    DEF JobInit, JobTypeOK, Resting, JobWorkerSteps
<1>2. BusyWithJob /\ AbsentUntouched /\ AloneRequeuing
    BY JobQueueAssumption
    DEF JobInit, BusyWithJob, AbsentUntouched, AloneRequeuing, Resting
<1>3. \A j \in Jobs : Sound(j)
    BY JobQueueAssumption DEF JobInit, Sound, Runs, Resting, Absent
<1> QED
    BY <1>1, <1>2, <1>3 DEF JobInv

\* A job is run by one worker at a time, whatever is retried, requeued or
\* crashes, unless two administrators have requeued it at once.
THEOREM JobsRunByOne == JobSpec => []RunByOne
<1>1. JobInv => RunByOne
    BY DEF JobInv, Calm, Sound, RunByOne
<1> QED
    BY <1>1, JobInvInit, JobInvStep, PTL DEF JobSpec

\* Such a job is a dead letter exactly when it has failed as often as it may,
\* although markJobFailed counts in another operation than the one it reads.
THEOREM JobsGivenUpWhenExhausted == JobSpec => []DeadLetteredWhenExhausted
<1>1. JobInv => DeadLetteredWhenExhausted
    BY DEF JobInv, Calm, Sound, DeadLetteredWhenExhausted
<1> QED
    BY <1>1, JobInvInit, JobInvStep, PTL DEF JobSpec

-----------------------------------------------------------------------------
(* Duplicates *)

\* As long as no two calls have overlapped, a call that has found nothing to
\* return is the only one, and what has become returnable since was requeued.
SerialEnqueues ==
    ~raced =>
        /\ \A d, e \in enqueuing : d = e
        /\ enqueuing # {} => \A j \in Returnable : job[j].requeued

\* The jobs that are returnable after a step were so before, or are requeued.
LEMMA ReturnableStep ==
    ASSUME JobInv, [JobNext]_jobVars, ~\E e \in Enqueuers : CreateJob(e)
    PROVE  \A j \in Returnable' :
              job'[j].requeued \/ (j \in Returnable /\ job'[j].requeued = job[j].requeued)
<1> SUFFICES ASSUME NEW j \in Returnable', ~job'[j].requeued
             PROVE  j \in Returnable /\ job'[j].requeued = job[j].requeued
    OBVIOUS
<1>0. JobTypeOK /\ j \in Jobs /\ job'[j].status \in {"pending", "processing"}
      /\ job'[j].recent
    BY DEF JobInv, Returnable
<1>1. CASE job' = job
    BY <1>0, <1>1 DEF Returnable
<1>2. ASSUME NEW w \in JobWorkers, ClaimJob(w) \/ Complete(w)
      PROVE  j \in Returnable /\ job'[j].requeued = job[j].requeued
    BY <1>0, <1>2 DEF ClaimJob, Complete, Returnable, JobTypeOK, JobRecord
<1>3. ASSUME NEW w \in JobWorkers, MarkFailed(w)
      PROVE  j \in Returnable /\ job'[j].requeued = job[j].requeued
  <2> DEFINE i == jobWorker[w].job
             verdict == AfterFailure(jobWorker[w].attempts)
  <2>1. /\ i \in Jobs /\ Runs(w, i)
        /\ job' = [job EXCEPT ![i].status = verdict, ![i].attempts = @ + 1,
                              ![i].due = FALSE]
    BY <1>3, BusyJob DEF MarkFailed, Runs
  <2> HIDE DEF verdict
  <2>2. job'[j].recent = job[j].recent /\ job'[j].requeued = job[j].requeued
        /\ (j # i => job'[j] = job[j])
    BY <1>0, <2>1 DEF JobTypeOK, JobRecord
  <2>3. CASE j = i
    <3>1. Calm(i) /\ Sound(i)
      BY <2>1, <2>2, <2>3 DEF JobInv, Calm
    <3>2. job[i].status = "processing"
      BY <2>1, <3>1 DEF Sound
    <3> QED
      BY <1>0, <2>2, <2>3, <3>2 DEF Returnable
  <2> QED
    BY <1>0, <2>2, <2>3 DEF Returnable
<1>4. ASSUME NEW i \in Jobs, WindowPasses(i) \/ BackoffEnds(i) \/ Archive(i)
      PROVE  j \in Returnable /\ job'[j].requeued = job[j].requeued
  <2>1. CASE WindowPasses(i)
    BY <1>0, <2>1 DEF WindowPasses, Returnable, JobTypeOK, JobRecord
  <2>2. CASE BackoffEnds(i)
    BY <1>0, <2>2 DEF BackoffEnds, Returnable, JobTypeOK, JobRecord
  <2>3. CASE Archive(i)
    BY <1>0, <2>3 DEF Archive, Returnable, JobTypeOK, JobRecord
  <2> QED
    BY <1>4, <2>1, <2>2, <2>3
<1>5. ASSUME NEW a \in Admins, WriteRequeue(a)
      PROVE  j \in Returnable /\ job'[j].requeued = job[j].requeued
  <2> DEFINE i == requeuing[a]
  <2>1. i \in Jobs /\ job' = [job EXCEPT ![i].status = "pending", ![i].due = TRUE,
                              ![i].attempts = 0, ![i].requeued = TRUE]
    BY <1>5, HeldJob DEF WriteRequeue
  <2>2. j # i
    BY <1>0, <2>1 DEF JobTypeOK, JobRecord
  <2> QED
    BY <1>0, <2>1, <2>2 DEF Returnable, JobTypeOK
<1> QED
    BY <1>1, <1>2, <1>3, <1>4, <1>5
    DEF JobNext, WorkerStep, FindExisting, RunFails, ReadFailed, WorkerDies,
        ReadDeadLetter, jobVars

LEMMA DuplicateStep ==
    ASSUME JobInv, SerialEnqueues, DuplicatesOnlyByRace, [JobNext]_jobVars
    PROVE  SerialEnqueues' /\ DuplicatesOnlyByRace'
<1>1. ASSUME NEW e \in Enqueuers, CreateJob(e)
      PROVE  SerialEnqueues' /\ DuplicatesOnlyByRace'
  <2>1. PICK i \in Jobs : job[i].status = "absent" /\ job' = [job EXCEPT ![i] = NewJob]
    BY <1>1, Zenon DEF CreateJob
  <2>2. e \in enqueuing /\ enqueuing' = enqueuing \ {e} /\ raced' = raced
    BY <1>1 DEF CreateJob
  <2>3. \A j \in Returnable' \ {i} : j \in Returnable /\ job'[j] = job[j]
    <3>1. job \in [Jobs -> JobRecord]
      BY DEF JobInv, JobTypeOK
    <3>2. \A j \in Jobs \ {i} : job'[j] = job[j]
      BY <2>1, <3>1
    <3> QED
      BY <3>2 DEF Returnable
  <2>4. SerialEnqueues'
    <3>1. ~raced => enqueuing' = {}
      BY <2>2 DEF SerialEnqueues
    <3> QED
      BY <2>2, <3>1 DEF SerialEnqueues
  <2>5. DuplicatesOnlyByRace'
    BY <2>2, <2>3 DEF SerialEnqueues, DuplicatesOnlyByRace
  <2> QED
    BY <2>4, <2>5
<1>2. ASSUME ~\E e \in Enqueuers : CreateJob(e)
      PROVE  SerialEnqueues' /\ DuplicatesOnlyByRace'
  <2>1. \A j \in Returnable' :
           job'[j].requeued \/ (j \in Returnable /\ job'[j].requeued = job[j].requeued)
    BY <1>2, ReturnableStep
  <2>2. CASE UNCHANGED <<enqueuing, raced>>
    BY <2>1, <2>2 DEF SerialEnqueues, DuplicatesOnlyByRace
  <2>3. ASSUME NEW e \in Enqueuers, FindExisting(e)
        PROVE  SerialEnqueues' /\ DuplicatesOnlyByRace'
    BY <2>3 DEF FindExisting, SerialEnqueues, DuplicatesOnlyByRace, Returnable
  <2> QED
    BY <1>2, <2>2, <2>3, Zenon
    DEF JobNext, WorkerStep, ClaimJob, Complete, RunFails, ReadFailed, MarkFailed,
        WorkerDies, WindowPasses, BackoffEnds, Archive, ReadDeadLetter, WriteRequeue,
        jobVars
<1> QED
    BY <1>1, <1>2

\* Two live jobs of one key come from calls of enqueueJob that overlapped, or
\* from a requeue, and from nothing else.
THEOREM DuplicatesComeFromRaces == JobSpec => []DuplicatesOnlyByRace
<1> DEFINE Inv == JobInv /\ SerialEnqueues /\ DuplicatesOnlyByRace
<1>1. JobInit => Inv
    BY JobInvInit
    DEF JobInit, SerialEnqueues, DuplicatesOnlyByRace, Returnable, Absent
<1>2. Inv /\ [JobNext]_jobVars => Inv'
    BY JobInvStep, DuplicateStep
<1>3. Inv => DuplicatesOnlyByRace
    OBVIOUS
<1> QED
    BY <1>1, <1>2, <1>3, PTL DEF JobSpec
=============================================================================
