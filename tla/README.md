# A TLA+ model of the OpenCluster control plane

This directory holds TLA+ specifications of
`oc-control-plane`, TLC configurations that check them on small instances, and
TLAPS proofs that the safety properties hold on all instances. Paths below are relative to `src/`; `store/`
stands for `internal/store/postgres/`.

## 1. The system

The control plane is a Go service on one PostgreSQL database. Several replicas
may run against that database; they coordinate through rows, row locks, leases
and advisory locks only. Transactions run at READ COMMITTED. Every replica runs
an HTTP API, a gRPC endpoint for Relays, and background workers.

| Component | State | Operations | Interacts with |
|---|---|---|---|
| Investigations (`store/investigation*.go`, `internal/investigation/runner.go`) | `investigation`, `investigation_event`, `investigation_tool_run`; a lease (token, worker, expiry) per row | create, claim, heartbeat, record tool run, append event, conclude, fail, cancel, sweep of lapsed leases | the agent writes under the lease; cancelling also cancels Relay Jobs; ending owes a Slack reply and opens the next turn |
| Conversations (`store/conversation*.go`) | `conversation`, `conversation_message` with the Investigation that took it | append a Message, open a turn over a batch of waiting Messages, admission pass | opens Investigations |
| Agent (`internal/investigation/agent`) | in memory: transcript, tool runs, budgets, citable evidence | ask the model, execute and record Tool calls, decode and store the conclusion | model provider, Integrations, the store |
| Alert intake and Incidents (`store/alert_event.go`, `store/incident.go`, `internal/webhooks/intake.go`) | `webhook_delivery`, `alert_event`, `incident` | record a delivery, group, resolve, merge | opens Investigations |
| Relay Jobs (`store/job.go`, `lease.go`, `result.go`, `internal/relay`) | `relay_job` with session, generation and expiry; one gRPC session per Relay and replica | enqueue, claim, adopt, release, assign, cancel, record, acknowledge | oc-relay over gRPC; the Kubernetes tools |
| Slack intake (`store/slack_message_work.go`, `internal/webhooks/slack`) | `slack_message_work` leases | accept, claim, heartbeat, apply, defer, fail, recover | Conversations |
| Slack replies (`store/slack_reply.go`, `internal/integrations/slack/worker.go`) | `slack_reply` lease, cursor and stream | owe, claim, start, send, advance, complete, retry, release | reads Investigation events, writes to Slack |
| Postmortems (`internal/postmortem`, `store/postmortem.go`) | `postmortem` | generate, regenerate, correct, review | reads Incidents and Investigations |
| Event stream (`internal/investigation/events.go`) | a cursor per HTTP stream | open, read a page, poll, write, close | reads Investigation events; clients reconnect |
| Relay enrolment (`internal/relay/registration.go`, `flood.go`, `store/relay.go`) | `relay_bootstrap_token`, `relay_registration`, counters per process | issue, revoke, register, verify a credential | lets sessions in |
| Relay presence and contested identities (`internal/relay/sessions.go`, `presence.go`, `churn.go`, `store/conflict.go`) | the live sessions and recent takeovers of a process; presence and conflict columns | install, supersede, hear, remove, release; count, judge, mark, withdraw | sessions of Relay Jobs |
| Changes inventory (`internal/relay/inventory.go`, `store/changes.go`) | `change_scope`, `change_event` | open scopes, send policies, record a delta, a heartbeat, prune | oc-relay; the agent's orientation |
| Integrations (`internal/integrations/*handlers.go`, `store/integration*.go`, `installation.go`) | `integration`, `integration_installation`, `integration_connect_flow` | create, revise, replace a credential, verify, disable, delete, start and finish a connect flow | providers; webhooks, Jobs and Tool runs refer to them |
| Identity and access (`internal/auth`, `store/session.go`, `local_*.go`, `identity.go`, `deployment_oidc.go`) | `app_user`, `local_password`, `session`, `organization_membership`, `oidc_sign_in_flow` | bootstrap, sign in, rehash, change, recover, redeem, manage members | admits every request |
| Audit (`store/audit.go`, `internal/audit/retention.go`) | `audit_event`, declared retentions | write with the change, declare, sweep (every replica) | every administrative change |
| Listings (`internal/api/listing`, `store/page.go` and the `Query*` and `List*` of the store) | a cursor the client holds | read a page | every collection |
| Providers, adapters, configuration, assembly | none, or one per process | encode, parse, wire | everything |

The hard behaviours are those in which several writers meet at one row with
something stale in their hands: a worker whose lease has run out, a session that
was replaced, a count taken before a lock was granted, a revision read before a
write, a call to Slack or to a Relay whose answer was lost, a process that dies
between two of its steps. `PROJECT.json` lists them line by line under
`hazards`, with the properties that would catch each. What makes each component
correct is stated by the properties of its module (section 4).

## 2. Modules

| Module | Models | Size of a step |
|---|---|---|
| `Investigation` | Investigations, their streams and tool runs, Conversations and admission, the Runner | one store transaction |
| `InvestigationLifecycle` | what the store promises about one Investigation, whoever calls it (abstract) | one change of phase |
| `AgentRun` | one run of the agent against an arbitrary model | one exchange, or one Tool call |
| `IncidentIntake` | alert deliveries, grouping, resolution, merges | one SQL statement |
| `RelayJob` | Jobs of one registration, the sessions of all replicas, the Relays | one store statement or stream message |
| `SlackMessageWork` | the queue of accepted Slack Messages | one transaction |
| `SlackReply` | delivery of one Investigation's reply to a thread | one Slack call or one transaction |
| `Postmortem` | requests on one Incident's Postmortem | one statement; the reads of a generation apart from its write |
| `EventFollower` | one Investigation's stream and the clients that follow it | one read, write or receipt |
| `RelayEnrolment` | bootstrap tokens, Register calls, credentials, flood control | one statement of a transaction that holds a row |
| `RelayPresence` | the sessions of one registration in one process, and the presence in its row | one step of Connect's goroutine, or a write that commits late |
| `RelayChurn` | `churnWatch` and the mark of a contested identity | one locked call of the watch, one write |
| `Inventory` | a Relay's deltas and heartbeats, the scope, the change events and the digest of workloads | one transaction |
| `Integrations` | Integrations of several Organizations, whoever changes them and whatever uses them | one statement, one transaction or one answer of a provider |
| `Access` | accounts, passwords, sessions, OIDC flows, memberships | one statement; a change of membership is two |
| `AuditTrail` | audited changes against the retention sweeps of several replicas | one statement of a transaction; the choice of a batch apart from its deletion |
| `Listings` | ten paginated listings and a reader of one | one page, one change of a row |

| Proof module | Theorems about |
|---|---|
| `InvestigationProofs` | `Investigation` and its refinement of `InvestigationLifecycle` |
| `RelayJobProofs` | `RelayJob` |
| `RelayFleetProofs` | `RelayPresence`, `RelayEnrolment`, `Inventory`, `RelayChurn` |
| `RecordsProofs` | `AuditTrail`, `IncidentIntake`, `Postmortem`, `AgentRun` |
| `SlackReplyProofs` | `SlackReply` |
| `DeliveryProofs` | `SlackMessageWork`, `EventFollower` |
| `SurfaceProofs` | `Access`, `Listings` |
| `IntegrationsProofs` | `Integrations` |

The `MC*` modules instantiate them for TLC (constants, symmetry), and each `.cfg`
is one question. `MCRelay`, `MCRecords`, `MCSurface` and `MCProgress` hold several components
that share no state: the variable `part`, chosen initially, says which one is
explored, and the others rest in their first state. Their state space is the sum
of the parts', not the product, and a behaviour of such a module is a behaviour of
one part. Fairness in `MCProgress` is that of the part that moves.

Modules are composed where components share rows. `Investigation` contains the
Conversation operations, because opening a turn, ending one and admitting the
next are the same transactions, and is shown to implement
`InvestigationLifecycle` under a refinement mapping (`Phase`). The others meet it
at a narrow interface, which they model by what it does to them: `RelayJob` has
`CancelInvestigation`; `SlackMessageWork` has turns that end and are admitted;
`SlackReply` has events that appear; `IncidentIntake` opens Investigations in the
transaction that commits the delivery; `AgentRun` has terminal and tool-run
writes that may be refused.

### State and code

**Investigation.** `status`, `conv`, `window`, `token`, `ttl` are the columns of
`investigation`; `token = 0` is `lease_worker = ''` and `ttl` the ticks left until
`lease_expires_at`. `events`, `runs`, `messages` are the child tables. Every
transaction takes the row lock or the Organization's advisory lock before it
reads what its write depends on, so it is one action; what a process remembers
between two of them (`job`, `claim`, `made`, `picked`) is its own and may be
stale. `pc` is where a worker's `runClaimed` stands. The agent's decisions are
nondeterministic. A commit whose answer is lost is a disjunct of the action.
Any pending row may be the one that is claimed: `FOR UPDATE SKIP LOCKED` passes over
an older one that is locked. `Crash` is the environment's: it takes a worker from any
point and leaves its row leased.

**AgentRun.** The model's answer is any completion, as `splitCalls` takes it apart:
the reads in their order (known ones, pages of history, calls `decodeToolCalls`
cannot read) and how many conclusions. Calls are known by their places, reads
first; no property depends on where among them a conclusion stood. `asked`, `answers` and
`results` are the transcript's last turn; `brief` and `shown` are what may be
cited. `clock` is the run's context: ample, in its reserve, over. A conclusion is
the set of Tool runs its findings cite, the ones its other parts mention and the
prior references, with whether missing evidence was marked; every other ground
on which `decodeConclusion` refuses a document is `DocumentRefused`.

**IncidentIntake.** A transaction holds its own versions of the rows it wrote
(`txn[t].alerts`, `txn[t].incidents`), which are its row locks as well: another
transaction waits for them. A statement reads the last committed version plus the
transaction's own. `refreshIncident` is two steps, because the sub-select that
counts firing alerts runs on the statement's snapshot while the row lock may be
granted later, and PostgreSQL re-evaluates the row then, not the sub-select.
`Rollback` stands for a database error, a refusal for capacity, the unique index
`incident_open_key_idx` and the victim of a deadlock.

**RelayJob.** `status`, `holder`, `epoch`, `ttl`, `asked` are columns; an
execution is a Job and a generation of its lease. Sessions are numbered in the
order they open; two replicas may each have one for the same registration, and
two Relay processes may share the credential. `releasing` is the point between
`adopt` and `ReleaseStrandedLeases`; `late` a `ClaimJobs` that commits although its
session has ended. Whether `churnWatch` calls the session contested is a free
choice here (`RelayChurn` is the watch itself). oc-relay is not in this repository:
a Relay executes what it is assigned, keeps a result until it is acknowledged,
leaves, crashes and reconnects
(`RelayReceive`, `RelayFinish`, `RelayLeave`, `RelayCrash` are marked external).

**SlackMessageWork.** `work` is the row, `mine` what a worker believes it holds.
The generation of a lease is the least one no worker remembers, which is all that
comparison of epochs can tell. Delays are left out: work whose time has come may
be claimed at any moment.

**SlackReply.** `reply` is the row, `slack` the messages in the thread, `mine` the
Reply as claimed. A lease has `LeaseFor` ticks and the attempt's deadline, one
second before its end, is the last of them: calls and cursor writes need more
than one tick left, settling needs one. A Slack call is assumed not to take
effect after its context is done, and clocks are assumed to agree. A pass reads a page
of `PageSize` events after its cursor (200, `slack/worker.go:148`); a message that is
replaced is rendered from the first `RenderLimit` events (500, `slack/worker.go:240`). A
stream that Slack says this token cannot stop is `denied` and counts as stopped
(`isUnavailable`, `client_writes.go:91`). What the digest cuts at its own limit is left out.

**Postmortem.** The document is abstracted to the facts it was drawn from and the
corrections in it; `request` holds the step and the revision each operator's request has read.

**EventFollower.** `log` holds the types of `investigation_event` rows by sequence;
`Retired` are the types `Events` leaves out of a page. A handler is at one of its
reads, at its write or waiting (`stream[c].pc`), with the status it has `found`.
What is written may be lost with the connection (`wire`); a client resumes after
the last event it received.

**RelayEnrolment.** A call holds the token's row from `spendBootstrapToken` until it
commits or fails, and `tokenLock` is that row lock. `admitted` counts the
registrations of the current minute. A registration keeps the credential it was
given (`credential_digest`), which `VerifyRelayCredential` compares; `letIn` has who was
let in as what, with which credential.

**RelayPresence.** `at` is where the goroutine of each `Connect` stands, `installed` the
entry of `liveSessions`, `presence` the columns of the row. A write that is given up
at `presenceTimeout` is `doubtful`: the database may commit it later (`CommitLate`), after
the writes of a successor. `Accept` may find the context done already and run nothing.
`Restart` loses the table and leaves the row.

**RelayChurn.** `recent` is what the watch remembers, `takeovers` everything it was told;
`verdicts` are what it found and the successor has not written yet. A takeover
carries the tick at which it leaves the window, so old ones look alike.

**Inventory.** A moment is the number of an observation. The Relay and the cluster are
external: a Relay sends a baseline after it starts and differences later, keeps
each delta until it is acknowledged, and may lose everything. The digest an
Investigation reads is `WorkloadInventory`: of the names in `Workloads` (Deployments,
StatefulSets and DaemonSets) the first `InventoryLimit` that exist. Names are numbers,
in the order of its ORDER BY.

**Integrations.** A row keeps numbers in place of contents: every configuration,
credential and secret is a fresh one, so that "the one that was verified" can be
told from "the one that is stored" (`current`). `records` are the rows elsewhere that
name the Integration: deliveries, Tool runs (also those of calls refused or failed
before a credential was opened), accepted Slack Messages, which keep it from being
deleted, and Conversations with their replies, which a deletion takes along.
`request` is what a handler, a callback, a webhook or a run still remembers.
Reading what a Verification goes by (`Judge`) and writing its outcome (`Verify`) are
two steps. `Revise` is one: of the row it read it uses the type and the installation
only, and neither changes while the row is there. `actor` is history, the User for
whom a step is done. The catalog says of each provider how it is verified and set up.

**Access.** A verifier has the password it accepts, its salt, and the number of
replacements before it (`era`); a session remembers the era it was opened in. Both
are history for the properties, and no guard reads them where the code compares
hashes. `LockMembership` and `CommitMembership` are apart because the count of other
admins reads rows nobody has locked.

**AuditTrail.** Every replica has a Pruner and a `sweep` of its own. The sub-select that
takes a batch and the DELETE that removes it are two steps: another replica's DELETE
may come between them, and what it removed is not counted. `removed` and `least` are
history: how long an event was kept, and the shortest retention its Organization
declared since the sweep that removed it began.

**Listings.** A listing is its set of orders and what may happen to its rows. Filters
are folded into `org`: a row that passes them and is the Organization's. NULL does
not compare; `Value` is the `coalesce` that gives it a place.

## 3. Plan

Done in this order: (1) `Investigation` with its lifecycle and proofs; (2)
`RelayJob`; (3) `IncidentIntake`; (4) `SlackMessageWork` and `SlackReply`; (5)
`Postmortem`; (6) `AgentRun`; (7) `Access`; (8) `Integrations`; (9) `EventFollower`;
(10) `RelayEnrolment`, `RelayPresence`, `RelayChurn`, `Inventory`; (11) `AuditTrail`;
(12) `Listings`.

Then the proofs: the lifecycle refinement and the streams of `Investigation`; the
Relay (`RelayJob`, presence, enrolment, churn, inventory); the leased queues
(`SlackReply`, `SlackMessageWork`); intake and audit; `Access` and `Integrations`;
the dialogue of `Investigation`; `Postmortem`, `EventFollower`, `Listings`, `AgentRun`.
Every invariant and every action property that a passing run checks is now a
theorem as well.

Still worth doing: an abstract "leased work" specification that `SlackMessageWork`,
`SlackReply` and `RelayJob` implement, as `Investigation` implements its lifecycle,
with the refinement proved. None of the modules declares a RECURSIVE operator.

## 4. Runs

Run one with `tlc -config <cfg> <module>` in this directory.

| Run | Instance | Shows |
|---|---|---|
| `investigation_leases` | 2 workers, 2 Investigations outside Conversations, lease of 2 ticks, 2 tool runs, 1 announcement | streams end once and last; the waiting limit holds and completions name recorded runs (`Consistent`); implements the lifecycle, so nothing is written under a lapsed lease |
| `investigation_turns` | 2 workers, 1 Conversation, 2 windows, 4 Messages, 2 Investigations | turns are a dialogue: one at a time, never empty, in one window, replied to in order; every Investigation ends and every Message is taken |
| `relay` | 1 Job, 2 Relays with one identity, 2 replicas; 3 connects and 1 death; 2 tokens and 2 calls; 4 takeovers from 2 hosts; 2 workloads in 2 deltas or 1 workload of 2 objects in 3, of which 1 is listed | no generation of a lease is executed twice, given-back leases are fenced, what is acknowledged is settled, a cancellation is heard; one session goes on; a token enrols once; contests are marked; the inventory is current and what is confirmed only advances |
| `records` | 3 alerts in 2 groups, 4 deliveries, 2 operators; 1 Postmortem; 1 read, 1 page, 1 prior reference, 2 turns; 2 changes, 2 Organizations, 2 sweeping replicas, 3 days | accepted alerts reach an Incident that is investigated; Incidents are sound and nothing is undone; a review is of what is there; the agent is grounded and nears its end; the trail is kept |
| `progress` | 1 Message, 2 workers; 1 reply, 1 message, 1 crash; 1 Job, 1 Relay; 1 client, 4 events, 2 broken streams | Messages, replies, Jobs and streams come to their end; leases exclude, terminal is earned, followers miss nothing |
| `slack_reply_delivery` | 2 workers, 3 events in pages of 2, 2 messages, 1 crash, 2 attempts | the cursor never passes what the thread shows; delivered is complete; one message speaks; the holder's copy is current and giving up comes late (`Consistent`) |
| `surface` | 1 local and 1 federated User, 2 requests, 2 passwords, 2 sessions, 1 flow; 3 rows, pages of 1 | sessions follow the password; a password does not come back; a flow is redeemed once; listings are complete |
| `integrations` | 2 Integrations of any provider, 2 Organizations, 2 requests, 2 flows, 1 installation | an installation is owned once and what names an Integration finds it; a connect flow serves one callback; whatever changes an Integration is done for its Organization |
| `intake_race` | 2 alerts, 3 deliveries | **violation**, see section 6 |
| `postmortem_stale` | 2 operators, 3 writes | **violation**, see section 6 |
| `access_admins` | 2 admins, 2 requests | **violation**, see section 6 |
| `integrations_grants` | 1 Prometheus source, 1 request | **violation**, see section 6 |

Every passing property has a mutant in `PROJECT.json`: a change of one definition,
of the kind a slip in that code would be, under which TLC finds the property
violated by the same configuration.

**Bounds.** Two of every actor that races, and one thing to race for: two workers
give a holder and a usurper, two sessions a predecessor and a successor. A lease
of one tick is good or expired; two ticks where an expiry and a deadline differ.
Two generations are the one being used and the one it is mistaken for. Two
Investigations are a turn and its successor. Four Messages fill a queue of two
behind a running turn and one more. Three deltas are an object, its end and its
successor, and are enough to overtake one another; three takeovers are the
threshold in `relay`, and the fourth finds the memory full. Three rows and pages of one
have a row before, at and after the cursor; in `surface` the listings offered are
those of members (rows are removed) and of Relays (rows move, have no value at first
and are read in four orders); every other listing allows a part of this, or the same
with identifiers and values reversed. An object of the inventory has one revision in
`relay`: a modification is listed as a creation is. Two names are observed at most twice
there (`FewNames`), which lets both exist while one is listed and then one of them go;
both are workloads, and names of other kinds are in the theorem only. A reply in
`progress` has one message; that a second one may be opened after an answer was lost is
explored in `slack_reply_delivery`. In `integrations` two requests are
in progress or connect flows wait; one Integration at a time is disabled or named by
rows, and those are Tool runs or what webhooks record (`FewAtATime`). Its VIEW
(`MCView`) leaves out `actor`, which no guard reads and which `StaysInTheOrganization`
looks at only in the step that sets it, and what a redeemed flow said once no callback
goes by it. The properties are about one row or one pair
of rows, so larger instances repeat these. `PageSize`, `RenderLimit` and `InventoryLimit`
are limits of the code, scaled down so that they are met. `MaxInvestigations`, `MaxMessages`,
`MaxEvents`, `MaxSessions`, `MaxEpoch`, `MaxStreams`, `MaxCrashes`, `MaxRecoveries`,
`MaxIncidents`, `MaxConcurrent`, `MaxWrites`, `MaxCalls`, `MaxRecorded`,
`MaxCitations`, `MaxConnects`, `MaxRestarts`, `MaxTakeovers`, `MaxActing`, `MaxTime`,
`MaxObservations`, `MaxRevision`, `MaxPolicies`, `MaxPruned`, `MaxFresh`, `MaxHashes`, `MaxDays` and
`MaxBreaks` are bounds of the models and not of the code; they appear in guards.
Configurations that say `CHECK_DEADLOCK FALSE` are of systems that may be idle for
good, or whose bounds end the run.

**Symmetry** is declared over workers, Relays, replicas, Integrations, flows, Users or requests in runs
without liveness properties; no definition tells them apart.

**Fairness** is what the loops of the code give. Polling loops (`claimLoop`,
`recoverLoop`, the admission loop, the delivery loop of a session, the Slack
workers, a Relay's reconnection) are weakly fair, and so is the clock. A run's
context has a deadline, so `StopRun` is weakly fair. A write that the store may
refuse is strongly fair where it is retried for ever: it is not refused every
time. A handler of a stream takes its steps and a client receives and opens
another stream; an Investigation ends, which `investigation_turns` shows. Nothing is
assumed of crashes, cancellations, operators or the model. That an agent's run ends
is stated without fairness, as a distance that every step shortens
(`RunApproachesItsEnd`); `records` checks for deadlock, so that a run always has such a
step until it has ended. `RelayJob` admits as an outcome that the bound on
sessions or generations is used up. `SlackMessageWork` assumes that the capacity
which makes a worker defer is not short for ever, and `EveryMessageIsTaken` stops
at the bound on Investigations. `EveryReplySettles` does not promise a reply where a whole
page of events shows nothing (`QuietPage`, section 6).

## 5. Proofs

Check a proof module with `tlapm <module>.tla`. Every theorem holds for all values of the
constants that satisfy the assumptions of the module it is about. Sets of workers,
Jobs, Relays, Organizations and so on may be of any size, except where a number is
counted out of them and they are assumed finite.

| Theorem | States for every behaviour | Proof module |
|---|---|---|
| `TypeCorrect` | types and shape of rows and workers | `InvestigationProofs` |
| `LifecycleRefinement` | `ImplementsLifecycle`: the safety of `InvestigationLifecycle` under `Phase` | |
| `StreamsEndOnce` | `StreamEndsOnce` | |
| `TerminalStaysFinal` | the action property `TerminalIsFinal` | |
| `InvestigationsAreConsistent` | `Consistent`: limit on openings, completions of recorded runs | |
| `TurnsAreAlwaysADialogue` | `TurnsAreADialogue` | |
| `FencesAlwaysHold`, `ExecutionIsAlwaysUnique`, `CancellationIsAlwaysHeard` | `FencesHold`, `ExecutionIsUnique`, `CancellationIsHeard` | `RelayJobProofs` |
| `OutcomesAreRecordedOnce` | the action property `RecordedOnce` | |
| `OneSession`, `TokensAreSpentOnce`, `ContestsAreAlwaysMarked` | `OneSessionGoesOn`, `TokensEnrolOnce`, `ContestsAreMarked` | `RelayFleetProofs` |
| `InventoryIsAlwaysCurrent`, `ConfirmationAlwaysAdvances` | `InventoryIsCurrent`, the action property `ConfirmationOnlyAdvances` | |
| `AlertsAlwaysReachIncidents`, `IncidentsAreAlwaysSound`, `NothingIsEverUndone` | `AlertsReachIncidents`, `IncidentsAreSound`, the action property `NothingIsUndone` | `RecordsProofs` |
| `TrailIsAlwaysKept`, `PostmortemsAreAlwaysCurrent` | `TrailIsKept`, `PostmortemsAreCurrent` | |
| `AgentIsAlwaysGrounded`, `RunAlwaysApproachesItsEnd` | `AgentIsGrounded`, the action property `RunApproachesItsEnd` | |
| `CursorIsAlwaysShown`, `DeliveredIsAlwaysComplete`, `OneMessageAlwaysSpeaks`, `RepliesAreAlwaysConsistent` | `CursorIsShown`, `DeliveredIsComplete`, `OneMessageSpeaks`, `Consistent` | `SlackReplyProofs` |
| `TerminalIsAlwaysEarned`, `LeaseIsAlwaysExclusive` | `TerminalIsEarned`, the action property `LeaseIsExclusive` | `DeliveryProofs` |
| `FollowersAlwaysMissNothing` | `FollowersMissNothing` | |
| `SessionsAlwaysFollow`, `FlowsAreAlwaysRedeemedOnce`, `PasswordsNeverComeBack` | `SessionsFollowThePassword`, `FlowsAreRedeemedOnce`, the action property `PasswordsDoNotComeBack` | `SurfaceProofs` |
| `ListingsAreAlwaysComplete` | `ListingsAreComplete` | |
| `InstallationsAreAlwaysOwnedOnce`, `ConnectFlowsAreAlwaysRedeemedOnce`, `EveryStepStaysInTheOrganization` | `InstallationsAreOwnedOnce`, `ConnectFlowsAreRedeemedOnce`, the action property `StaysInTheOrganization` | `IntegrationsProofs` |

### The arguments

Each theorem rests on an inductive invariant with one lemma per action, or per group
of actions with the same effect. What the invariants add to the properties is
mostly what a process remembers across steps and why that is still good.

**Investigation.** `TypeOK` alone is not inductive: an opening writes the row after
`opened`, and a worker writes `job[w]`, so one needs that rows exist exactly up to
`opened` (`RowsInOrder`), that a worker past its claim works on one of them
(`JobsExist`) and that it is within its budget when it starts a tool
(`BudgetKept`). Their conjunction `TypeShape` is. For the lifecycle one adds
`LeaseShape`: ticks are left only on a leased row, and only a running row is
leased; this is what makes `Phase` change exactly when the abstract phase does.
`LifecycleStep` then shows, action by action, that each step is a lifecycle step or
leaves the mapped state alone. `RowStep` reads a lifecycle step from one
Investigation's side, and `StreamEndsOnce` is inductive over that, because only an
ending appends a closing event and only to a row that has not ended. `Consistent`
needs that a worker which has recorded a run finds it in the table
(`RunIsRecorded`). For the dialogue, `DialogueInv` adds that a Message is in a turn of
its own Conversation and that all that waits is about one window (`OneWindow`):
this is why a turn that takes everything that waits is about one.

**RelayJob.** `JobInv` follows an execution (a Job and a generation) through the
system. It is at one place: claimed and not sent, in one stream, with one Relay
(`OnePlace`). Wherever it is, its generation was given out, and is past once the Job
waits again (`AllAreKnown`); what a session has claimed is leased to it or past
(`ClaimersHold`); a stop is behind the assignment it is about (`StopsFollow`). Fences,
uniqueness and the hearing of a cancellation are read from these.

**Presence, enrolment.** A session that goes on is in the table or is named by the one
that will end it (`GoesOnOnce`), and the row names a session that has recorded itself
(`RowFollows`). An opening in doubt is of a session that still runs or was lost, so
committing it late keeps that (`DoubtIsKept`). A call that has spent a token holds its
row, and the row is unspent until it commits (`SpendersHoldTheRow`, `SpentOnce`); who
was let in showed the credential its registration was made with
(`LetInByRegistration`).

**Churn.** What the watch remembers is the end of all takeovers counted, and either as
many as it keeps or everything still in the window (`WatchIsSound`). The verdict on a
takeover is then that of the full history, because the threshold fits in the memory.

**Inventory.** `InventoryInv` is about the history of deltas, sent or committed: an object
has one name and is deleted once, and one that was there before another of its name
was deleted does not come back (`HistoryIsSound`); a change of a committed delta has
its event until retention removes it (`EventsAreSound`). Late, repeated and reordered
deltas then cannot change which one was the latest about a name, and the limit
counts names whose latest event is known.

**IncidentIntake.** `IntakeInv` says of every open transaction that what it has in hand
is sound over the committed rows, whatever has been committed since it read them
(`TxnIsSound`), that two transactions have no row in common and no two open
Incidents of one key (`Apart`), and that an Incident it leaves open is alone of its
key (`OpenAlone`). Operators only lock. A commit therefore keeps the committed rows
sound, and the others sound over the new ones.

**AuditTrail, Postmortem.** Each sweep works from the retention it read when it began, which
is no shorter than the shortest declared since, from a horizon that only grows
older, and on a batch that was due when it was selected (`SweepIsWithin`,
`SweepsWithinRetention`). A regeneration writes over a Postmortem only where
there is one (`RegeneratesWhatIsThere`).

**AgentRun.** `AgentInv` has the positions of calls answered, about to be answered and
still queued, which together are those of the last assistant turn without
repetition (`Transcript`); the Tool runs held, a first part of those stored
(`Ledger`); that evidence shown and not there has been noticed (`MissingIsNoticed`);
and that reads are asked for only while turns are left (`TurnsAreLeft`). The last
one is what makes `Distance` fall when a turn begins: past the budget a turn is forced,
and a forced turn ends the run.

**SlackReply.** `HolderKnows` says, step by step of `answer`, what the worker whose token
is the row's knows of the row and of the thread. Tokens of busy workers differ
(`TokensDiffer`), so a write under a stale one is refused. While a worker is
advancing, the thread shows what it will acknowledge of what the message can render;
once it is completing, a native stream is closed or Slack has denied that it can be.
The holder writes to the message the row names, and the row never names another.

**SlackMessageWork.** The attempts of a row have all been spent but the one its lease
stands for (`AttemptsAreSpent`), the owner remembers them (`ClaimsAgree`), and a
Conversation has a Message exactly when it was accepted (`SaidOnce`).

**EventFollower.** `ClientIsSound`: what a client has or will receive is everything
visible up to its last event, in order; a page about to be written continues it
without a gap; and an Investigation was found ended only if its last event says so
(`EndIsLast`). A stream closed for good has therefore sent that event.

**Access.** A request may hold a verifier that has been replaced. Eras stay below salts
and salts differ (`VerifiersAreSound`), so comparing with what is stored tells;
every open session is of its User's current era (`ErasAgree`). A flow has one
holder, and only once its row is gone (`FlowsAreSpent`).

**Listings.** A settled row is with the reader exactly when it does not come after the
cursor (`SettledIsShown`). A page is the first `PageLimit` rows after the cursor in the
order, and the next cursor is its last row (`PageFacts`), so this is kept.

**Integrations.** `Remembers` says what a handler or callback may rely on from one
statement to the next: little more than that the Integration it reconnects is of
its type while it lasts; the writes check the rest again. A flow that a callback holds
is gone and says what the callback goes by, and no two callbacks hold the same
(`FlowsAreHeld`).

### Assumptions

They are ASSUMEs of the modules; TLC evaluates each in the runs whose module extends it.

- Limits, bounds and durations are numbers; those that count pages, leases, queues
  or attempts are not zero. A reply's lease has at least two ticks.
- Values that stand for nothing (`None`, `NoToken`, `NoOrganization`, `NoReviewer`,
  `Nobody`, `KeepsAll`) are none of the values they stand beside; deliveries and
  operators, session identifiers and flows, reads and pages differ.
- The names of an inventory are numbers, in the order it lists them.
- Sets that are counted are finite: `Alerts`, the Slack `Messages` and `Workers`,
  `Requests` of `Access`, `Uids`, `Hosts`, `Ids` of a listing. The values a listing sorts
  by have a greatest one, so that there is a place after all of them (`infinity`).
- `ContendingHosts <= ChurnThreshold <= ChurnMemory`, as the constants of `churn.go` are.
- Definitions of providers satisfy what `CheckDefinition` demands at start-up.

### Model-checked only

The liveness properties (`EveryInvestigationEnds`, `EveryMessageIsTaken`,
`EveryMessageSettles`, `EveryReplySettles`, `EveryJobSettles`, `StreamsReachTheEnd`):
fairness and ENABLED are beyond the prover. That an agent's run always has a step is
the deadlock check of `records`, for the same reason. The violations of section 6 are
counterexamples and have no theorem.

## 6. Findings

**An Incident may be open with nothing firing, or resolved with something firing.**
`refreshIncident` (`store/incident.go:72`) counts the firing alerts of an Incident
in a sub-select of its UPDATE. Two deliveries that resolve the last two alerts
both count before either commits; the second waits for the row lock, and sees the
row anew but not the count. The Incident stays open for good. `CONTEXT.md:60` says
otherwise; `intake_race` gives the interleaving. The mirror image, one delivery that
resolves and one that fires, resolves an Incident over a firing alert, whose next
delivery may then meet the unique index.

**A regeneration may take the revision of a correction it discards.**
`Regenerate` (`internal/postmortem/service.go:78`) reads the revision in a
statement of its own; `ReplaceDraft` writes that plus one without comparing. A
correction committed in between is lost under its own number, and after two
corrections the revision goes back. `ARCHITECTURE.md:69` promises "a higher audited
revision"; `postmortem_stale` gives the interleaving.

**An Organization may lose its last admin.** `UpdateMembership` and `RemoveMembership`
lock the row they change and count the other admins with a plain SELECT
(`refuseIfLastAdmin`, `store/identity.go:243`). Two requests that take the role from
two admins each count the other's. `store/identity.go:19`: "an organization must keep
at least one admin"; `access_admins` gives the interleaving.

**A revised Integration keeps the grants of the connection it replaces.**
A revision of the configuration alone leaves status and grants
(`store/integration.go:291`), so its Tools stay available at an address nobody has
verified; `README.md:70` says that only verified capabilities are exposed;
`integrations_grants` shows it in a few steps. A verification that was under way
when the configuration changed has the same effect (`store/integration.go:498`).

Things the models make visible that contradict no statement of the repository:

- a Job asked to stop whose lease is released or expires becomes pending again and is
  dispatched once more before it is stopped;
- a reply given up in Slack leaves its stream open, and so does one that is delivered
  where Slack answers that this token has no method or scope to stop it
  (`internal/integrations/slack/client_writes.go:91`);
- a page of 200 events with nothing to show (`internal/integrations/slack/worker.go:148`)
  is read again at every pass, so its reply never goes on;
- a message that is replaced shows the first 500 events
  (`internal/integrations/slack/worker.go:240`); of a longer Investigation the ending
  may not be shown although the reply is recorded as delivered;
- giving up is decided on attempts read at the claim although progress has reset them
  since;
- a review does not name the revision it is about;
- the reply worker opens a Slack credential without the audit event that verifications and
  runs write first (`internal/integrations/slack/worker.go:298`). It changes no row of an
  Integration and is not a step of `Integrations`, which states nothing about how
  credentials are opened;
- the presence of a displaced session may be written after its successor's, also by a
  write that was given up at `presenceTimeout` and commits later. Its end then shows a
  connected Relay as disconnected until it reconnects: being heard refreshes
  `last_seen_at` and leaves `session_ended_at` (`internal/relay/presence.go:13`,
  `session.go:93`, `store/relays.go:111`). An opening that commits after its own session's
  end shows a Relay that left as connected until it falls out of the liveness window;
- a workload deleted and made again within one delta is listed or not by the order
  of the two UIDs, and a later baseline does not repair it (`store/changes.go:106`,
  `:238`);
- a deletion that happens while no Relay watches is never recorded; a delta
  repeated after retention removed its events brings them back;
- two sweeps of one Organization select the same batch; the second removes nothing of it,
  finds fewer than a batch and leaves the rest to its next sweep.

## 7. Not modelled

- Request parsing and JSON views of the HTTP handlers; the operation a handler
  calls is modelled.
- Webhook adapters and the token bucket in front of them, provider clients and
  the Tools that call them, model providers, prompts, redaction and size bounds:
  they map data to data and keep no state between calls. `AgentRun` and
  `Integrations` let their outcome be anything their types allow.
- The table from roles to permissions, beyond who may manage members.
- The Kubernetes executor: `RelayJob` has the statements it makes. When a read of
  the outcome fails it returns without cancelling its Job
  (`internal/integrations/kubernetes/relay.go:52`).
- Real durations. Leases are ticks, so claims about margins (that an execution
  ends before its lease can be reassigned, `internal/relay/session.go:37`; that the
  two-minute reserve suffices for a last move, `internal/investigation/agent/run.go:67`)
  are outside the model.
- `session.draining` (`internal/relay/delivery.go:69`, `sessions.go:126`): a session of a
  process that shuts down claims nothing more. `RelayJob` has its behaviours without
  it: no session has to claim, and one may be lost with its process at any point.
- Which fields of an object changed, and the query for the changes of a window.
- Configuration, sealing, telemetry, health and assembly: wiring and library calls.
- Applying migrations; the modules rely on the indexes and foreign keys they create.
