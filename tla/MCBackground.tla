---------------------------- MODULE MCBackground ----------------------------
(***************************************************************************)
(* What is still owed: to the outbox rows, jobs and inbound events the     *)
(* server has accepted, under the fairness of their loops, and by the      *)
(* contract to the recipients of rounded payouts.  The components share no *)
(* state, so a behaviour belongs to one of them, chosen at the start; the  *)
(* poll loops have two parts, of a size each.                              *)
(***************************************************************************)
EXTENDS PollLoop, JobQueue, MCInboundWebhook, RevenueRounding

CONSTANTS l1, l2, j1, x1, x2, b1, fee, creator, collaborator

TwoLoops == {l1, l2}
TwoSubscriptions == {<<1, 1>>, <<1, 2>>, <<1, 3>>, <<2, 1>>}
OneJob == {j1}
TwoJobWorkers == {x1, x2}
OneAdmin == {b1}
ThreeShares == {fee, creator, collaborator}

VARIABLE part \* the component this behaviour is about

BackgroundInit ==
    /\ part \in {"poll", "replicas", "jobs", "inbound", "rounding"}
    /\ PollInit /\ JobInit /\ InboundInit /\ RoundingInit

\* One loop over two subscriptions, with more than a batch before the last row,
\* and a stop or a deleted subscription but not both; or two loops over two rows,
\* which outlive each other's leases without stopping.
OfSize ==
    \/ /\ part = "poll"
       /\ loop[l2] = Asleep
       /\ stops = 0 \/ \A s \in Subscriptions : subscription[s] # "deleted"
    \/ /\ part = "replicas"
       /\ \A r \in Rows \ {<<1, 1>>, <<1, 2>>} : status[r] = "absent"
       /\ stops = 0 /\ \A s \in Subscriptions : subscription[s] # "deleted"

BackgroundNext ==
    /\ UNCHANGED part
    /\ IF part \in {"poll", "replicas"} THEN PollNext /\ OfSize' ELSE UNCHANGED pollVars
    /\ IF part = "jobs" THEN JobNext ELSE UNCHANGED jobVars
    /\ IF part = "inbound" THEN InboundNext ELSE UNCHANGED inboundVars
    /\ IF part = "rounding" THEN RoundingNext ELSE UNCHANGED roundingVars

backgroundVars == <<part, pollVars, jobVars, inboundVars, roundingVars>>

\* A step of one part leaves the others alone.
OfPoll(A)    == A /\ UNCHANGED <<part, jobVars, inboundVars, roundingVars>> /\ OfSize'
OfJobs(A)    == part = "jobs" /\ A /\ UNCHANGED <<part, pollVars, inboundVars, roundingVars>>
OfInbound(A) == part = "inbound" /\ A /\ UNCHANGED <<part, pollVars, jobVars, roundingVars>>

\* PollFairness, JobFairness and InboundFairness, each for the behaviours of
\* its component.
BackgroundFairness ==
    /\ \A w \in Loops : WF_backgroundVars(OfPoll(LoopRuns(w)))
    /\ \A r \in Rows : WF_backgroundVars(OfPoll(RowBecomesReady(r)))
    /\ \A w \in JobWorkers : WF_backgroundVars(OfJobs(WorkerStep(w)))
    /\ \A j \in Jobs : WF_backgroundVars(OfJobs(BackoffEnds(j)))
    /\ \A d \in Deliveries : WF_backgroundVars(OfInbound(DeliveryStep(d)))
    /\ WF_backgroundVars(OfInbound(RetryFailedEvent))

BackgroundSpec ==
    BackgroundInit /\ [][BackgroundNext]_backgroundVars /\ BackgroundFairness
=============================================================================
