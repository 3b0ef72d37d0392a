# QindaQt: TLA+ models, model checking and proofs

This directory models the parts of QindaQt (a Qt/KWin based desktop session) in
which a wrong step costs most and a test reaches least:

* **Display1**, the service that tries a display layout on the user's screens
  and must put the old one back unless the user confirms. The trial survives
  crashes, power losses, hotplugs, session locks, sleeps, lost replies and other
  clients, and its state is spread over a state machine, a journal file, a D-Bus
  inventory reader, a Wayland writer and a session-safety port;
* **sleep**, where the session supervisor must lock before the system sleeps and
  tell clients truthfully what became of their request;
* **Settings1** as its clients use it: a client that writes settings through a
  service that dies and comes back, and the Do Not Disturb switch on top of it.

The rest of the repository is inventoried below; the plan says what comes next.

All paths below are relative to the repository root (`src/services/...` is the
source tree of the services).

## 1. The system

### 1.1 Display1

| Part | Code | State it keeps | Operations |
|---|---|---|---|
| Transaction machine | `src/services/display_transaction` (`transaction_machine.cpp`, `_events.cpp`, `_revert.cpp`) | one of twelve states, the live snapshot, preimage and target, surviving outputs, attempt counter, deadline, apply token, four flags | `initialize`, `recover`, `stage`, `preview`, `confirm`, `cancel`, `prepareForSuspend`, `safetyChanged`, `applyCompleted`, `observedSnapshot`, `topologyChanged`, `externalIntentObserved`, `topologySettled`, `tick`, `retryStuck` |
| Journal file | `src/services/display_journal/src/file_journal_store.cpp` | one record on disk | `load`, `store`, `clear`, each *unchanged*, *durable* or *durability uncertain* |
| Service model | `src/services/display_service/src/display_service_model.cpp` | machine lineage, the journal awaiting recovery, the last frame | routes each inventory frame to a machine entry, creates machines, fences completions |
| Resident service | `.../resident_display_service.cpp` | a deadline timer and a 500 ms topology settle timer | dispatches timers, completions and inventory events to the model |
| Inventory source | `.../compositor_inventory_source.cpp` | owner of the compositor's bus name, a read in flight, `m_dirty` | one `Outputs` call at a time; coalesces `OutputsChanged` |
| Writer port | `src/services/display_writer` | the request in flight, the lineage, a timer | submits one Wayland configuration, times out, queues completions |
| Runtime | `src/services/display_runtime/src/resident_display_runtime.cpp` | the session's safety, a suspend pending, writer authority | combines them for `setSafetyState`; releases the suspend delay; starts the service once the session is known |
| Session-safety port | `.../qt_session_safety_port.cpp` | the lock monitor, logind's delay inhibitor, a sleep announced, a request or a retry under way | follows the lock and logind's `PrepareForSleep`, holds and gives back the delay |
| Compositor side | `src/compositor/kwin/kwinoutputinventory.cpp`, KWin | the layout and its generation | publishes changes, answers reads, applies configurations |

How they interact: a client stages and previews a candidate over D-Bus; the
machine stores the preimage in the journal, then asks the port to apply the
candidate under a fresh token; the compositor's answer comes back over Wayland,
the port queues a completion for a later turn of the event loop, and the
resident service hands it to the machine. Independently, the inventory source
learns of changes over D-Bus and delivers snapshots. The machine moves on what
it *observes*; the completion only tells it what to expect. Deadlines cover each
wait. A lost inventory destroys the machine, and the next one recovers from the
journal, as does the next process.

Hard behaviours: the three channels (D-Bus, Wayland, queued calls) are ordered
by themselves and not against each other; a durable file whose barrier can fail;
destruction of the machine at any point, with completions of the old one still
queued; tokens that start again with every machine; output sets that change
under a rollback; other clients; a session that locks at any moment; a
configuration the compositor still holds after everyone stopped waiting.

What makes it correct: a trial that is not confirmed ends with the preimage
restored (as far as its outputs survive) or replaced by someone else's layout;
any crash or power loss of a trial finds the preimage on disk; nothing waits
without a deadline, a settle window or a reported stuck state; an unsafe session
never has a trial; a completion acknowledges only the request it answers; the
layout the service works from is the compositor's; the candidate is requested
once.

### 1.2 Sleep and Settings1

| Part | Code | State it keeps | Operations |
|---|---|---|---|
| Logind transport | `src/session/native_sleep/src/logind_sleep_transport.cpp` | binding to logind, delay inhibitor, locked hint (desired, confirmed, pending), a request and whether it was dispatched, a retry timer | bind and unbind, inhibit, hint, `CanSuspend` then `Suspend`, admission |
| Sleep coordinator | `.../sleep_coordinator.cpp` | a client's request and its serial, the sleep gate, the offer announced | `requestSleep`, `cancelRequest`, a 17 s deadline, announced sleeps |
| Native lock runtime | `src/session/native_lock_runtime` | the one suspend dispatch, a lock request pending, the lock due on resume | lock for a reason, dispatch behind the lock or give up after 15 s |
| Lock monitor | `src/services/session_lock_state/src/native_lock_state_monitor.cpp` | the compositor's lock as last read | invalidates, reads again, publishes |
| Settings client | `src/services/settings_client/src/settings_client.cpp` | owner, one request, one write, the snapshot, `m_dirty`, the refresh timer, an activation | reads, writes, invalidations, retries, activation |
| Its transport | `.../qt_settings_transport.cpp` | the owner, pending replies | owner resolution, exact-owner subscription, calls |
| Settings service | `src/services/settings_service` | revision, epoch, values in memory and in the file | `GetSnapshot`, `CommitUserTransaction`, `SettingsChanged` |
| Do Not Disturb switch | `src/services/settings_client/src/do_not_disturb_controller.cpp` | six flags beside the client's own | choose, apply my choice, and slots for the client's four signals |

How they interact: logind announces a sleep and waits while the supervisor's
inhibitor is held; the coordinator asks the lock runtime to lock, and its gate
gives the inhibitor back from the slot of the monitor that reports the lock on
screen. A client's request takes the same dispatch before it is sent to logind.
All of it is nested synchronous calls: a property change in the transport reaches
the coordinator, which may cancel the dispatch, which refuses the request, which
cancels the transport's call, before the first function returns. The settings
client keeps one request in flight and reads again after every end of a commit;
its signals do not say which of several writers on the client they answer.

Hard behaviours: replies of a cancelled request, of an earlier owner or of an
earlier logind; a lock that changes while the call that announces it is under
way; retry timers shared by two purposes; a service that dies between the effect
of a write and the answer.

What makes it correct: the system never gets the inhibitor without a lock on
screen; a refused sleep never happens; a write takes effect at most once and its
report is true; the switch shows what the service holds and never stays in
"Saving".

### 1.3 The other components

Listed in `PROJECT.json` with their sources. For those with state and ordering
of their own:

| Component | State and operations | What is hard | What it must keep |
|---|---|---|---|
| Brightness authority (`display_brightness_authority.cpp`) | a pending request, the device frame joined to a snapshot revision, a deadline; request, device frame, completion, tick | the acknowledgement, the republished value, device loss and the deadline finish one request in any order; shares the port with layout transactions | one reply per request; success only on a republished value |
| Display client | owner, snapshot, pending command | owner change between call and reply | a reply of a former owner changes nothing |
| Greeter and authentication | attempt token, worker process | a result of a cancelled attempt or an earlier lock | a stale success never unlocks |
| Session supervisor, recovery backoff | child processes, restart count, two timers, token | exits, failed starts and logout in any order | no child outlives the session; the delay is bounded |
| Session actions | pending action, authority epochs per service | the authority is replaced between authorisation and mutation | one outcome per request, never replayed on a new owner |
| Notifications | active set, capacity ledger, expiry heap, revision | re-entrant callbacks, ids that are reused, capacity at its limit | the ledger matches the set; each close is reported once |
| Clipboard | history generation, privacy gate, selection | locking inside a copy | nothing is offered under a generation that ended |
| Audio, network, power coordinators | backend generation, epoch, revision, pending operations | restarts and late results | one answer per operation, never a success of a replaced authority |
| Network secret agent | admitted requests, prompts | cancellation against an answer | one answer per request |
| QindaLink session | handshake state, pairing, pending requests, idle timer | close during pairing, replies after close | no frame is handled before pairing |
| Hybrid topology, window containers, workspaces | container trees, a repository with revisions | a command against a revision that moved | a window is in one container; no cycles |
| Shell customization | an editing session over a saved layout | save against external change | no lost edit |

Not to be modelled: protocol codecs, identity and colour documents (pure
validation and I/O), Bluetooth, keyring and portals (the state is the remote
daemon's, or cryptography), small device clients, presentation, geometry,
themes and applications.

## 2. The modules

| Module | Content |
|---|---|
| `DisplayTransaction` | the transaction machine and the journal file; its properties |
| `MCDisplayTransaction` | small desks (a panel and a monitor) for TLC |
| `DisplayTransactionProofs` | type correctness |
| `DisplayTransactionSafety` | the safety properties, the scope of rollbacks and the ends of a transaction |
| `DisplayService` | the machine composed with the inventory source, the model's routing and fences, the writer port, both timers and the compositor |
| `MCDisplayService` | small desks for TLC |
| `DisplayServiceProofs` | the service implements the machine; type correctness; the machine's safety in the service; no completion of an earlier request, no stale truth |
| `DisplayRuntime` | the machine composed with the runtime, the session-safety port and logind |
| `MCDisplayRuntime` | one output for TLC |
| `DisplayRuntimeProofs` | type correctness, the combined safety, no trial asleep |
| `SettingsWrite` | what Settings1 promises the writer of a setting: an abstract specification of its own |
| `SettingsClient` | client, transport, bus and service; it implements `SettingsWrite` |
| `MCSettingsClient` | the module TLC runs for it |
| `SettingsClientProofs` | types, the coherence of the messages under way, and no invalidation lost |
| `SettingsClientRefinement` | the client implements `SettingsWrite` |
| `DoNotDisturb` | the switch composed with the client and with a second writer |
| `MCDoNotDisturb` | a view without the history variables |
| `DoNotDisturbProofs` | the switch implements the client; its types and its safety |
| `NativeSleep` | logind transport, sleep coordinator, lock runtime and monitor, with logind and the compositor's lock |
| `NativeSleepProofs` | its types and its safety |

`DisplayTransaction` is the abstract specification of Display1 *and* the
machine's own: its `Next` lets any of the interface's calls happen, with any
snapshot and any outcome. `DisplayService` EXTENDS it and uses the machine's
actions as they are; a service step is a machine step under the conditions of
the code, together with what it does to the port and the channels. The
refinement mapping is therefore the identity on the machine's variables, and
"the service implements the machine" is `ServiceSpec => Spec`.

### 2.1 `DisplayTransaction`

Every handler is a synchronous call on one thread, so every handler is one
action: trailing journal writes, clears, deadline installs and recursive calls
included. Helper operators stand for the code's helpers (`clearTransaction`,
`enterStuck`, `beginRevert`, `issueRevertApply`, `scheduleRevertRetry`,
`clearJournalThenReady` for the store-clear-finish tail nearly every handler
has).

| Variable | Code |
|---|---|
| `state`, `journalActive`, `attempt` | `m_view.state`, `.journalActive`, `.revertAttempt` |
| `armed` | `m_view.deadlineMonotonicMilliseconds # 0`: time is not modelled, a deadline may fire whenever it is armed |
| `safe` | `m_view.safety = Safe` (Locked and Unknown are handled alike) |
| `snap` | `m_snapshot`; `rev` is its revision, `layout` the part of the outputs that decisions read |
| `journal` | `m_journal`, whose endpoints are `m_preimage` and `m_staged` |
| `survivors` | the outputs of `m_survivingProperties` |
| `token`, `nextToken` | `m_activeToken`, `m_nextToken`, with the wrap-around that skips 0 |
| `revertRequested`, `abandonAfterSettle`, `cleanupOnly`, `fresh` | the four flags of the machine |
| `pending` | the journal waiting in the service model for the next `recover()` |
| `disk` | the journal file: what is visible, and the set of contents a power loss may leave |

What is abstracted, and why nothing the properties tell apart is lost:

* *Layouts.* An output has an enabled flag and a `mode` standing for mode,
  scale and transform. Position, priority and replication only matter as "equal
  to the preimage or not".
* *Journal fields.* `recover()` reads the endpoints and whether the reason is
  `ExternalChange`. Phase, attempt, timestamps and other reasons are written and
  never read back, so only `abandon` is kept.
* *Durability.* A mutation leaves the file alone, is durable, or is visible but
  may be undone by a power loss. `disk.durable` is the set of survivors. Two
  best-effort stores in one handler are one nondeterministic write.
* *Validation.* Candidates and snapshots are valid; a rejected command is no
  step. Epochs are dropped: a new epoch reaches the machine as a new machine.
* *`prepareForSuspend`* is `cancel`.
* *A draft dropped by `externalIntentObserved`.* With a changed output set the
  machine goes back to `Ready` and then still records an abandon
  (`abandonDroppedDraft`); the journal it would store is empty, and the store
  refuses it.

`OpenDriver` chooses the caller. FALSE: the calls `DisplayServiceModel` makes
(no `retryStuck`, no direct `topologyChanged`, `externalIntentObserved` only for
a draft on the same output set, `topologySettled` only with the snapshot the
machine has). TRUE: any caller of the public interface, with any snapshot.

### 2.2 `DisplayService`

| Variable | Code |
|---|---|
| `inbox`, `asked`, `dirty` | D-Bus messages to the inventory source, the outstanding `Outputs` call, `m_dirty` |
| `lineage` | `m_machineLineage`, the same in model and port |
| `writing` | the writer port's pending request |
| `proxy` | the Wayland port's pending configuration and the compositor's answer to it |
| `callbacks` | queued calls of `applyCompleted()` |
| `live`, `generation` | the compositor's layout and output generation |
| `late` | configurations the port no longer waits for and the compositor may still handle |

Each action is one event of the service's event loop (`outputsChanged`,
`readFinished`, `serviceOwnerChanged`, `applyCompletedEvent`, `writerTimeout`,
`outputManagementCompleted`, `outputManagementOwnerChanged`, `deadline`,
`topologySettleTimer`, `requests`, `restart`) or one step of the compositor
(`configurationApplied`, `lateApplied`, `externalChange`, `answers`).
`routeObservation` is `DisplayServiceModel::routeObservation`; `observeFrame`
adds its handling of equal, older and metadata-only frames; `establishLineage`
makes the port learn the lineage before `recover()` can issue a request, as the
code insists.

The compositor is external: it applies or refuses a configuration (a partial one
changes only the outputs it names), handles configurations in the order of
submission, publishes a change before it answers the request that caused it, and
answers reads with the layout of that moment. D-Bus delivers in order.

`MaxQueued` bounds how many queued completions an elapsing deadline may overtake:
with 0 the event loop has emptied its queue when the timer fires; the other runs
never reach the value they are given.

`Faults` selects the disturbances of a run: another client (`external`),
metadata-only changes (`metadata`), a failed read (`read`), a new owner of the
compositor's name (`owner`), replaced output devices (`device`), a locking
session (`lock`), a dying process (`restart`). Abstractions: brightness requests
on the same port, the D-Bus projection of state, a compositor that stays away
(its successor is bound in the same step), and a client's transaction id (it is
a fence on the same state).

### 2.3 `DisplayRuntime`

The same machine, under another part of its process. Each action is one event
of the safety port (`lockChanged`, `prepareForSleep`, `resumed`, `granted`,
`refused`, `inhibitRetry`, `authorityLost`), of the writer (`writerLost`,
`writerReturned`), or of the resident service (`serviceEvents`: any step of the
machine's interface that the service may take, which `DisplayServiceProofs`
justifies). The port reports to the runtime from inside its handlers, the runtime
to the machine, and the machine's transitions back to the runtime, which may
release the delay; an action is all of that. `safety`, `session`,
`suspendPending` and `writerAvailable` are the copies the code keeps; whether
they agree is the question.

logind is external: it announces a sleep, sleeps once no delay descriptor is open
(or, with `"expire"`, anyway), announces the resume, and answers `Inhibit` in the
order of its own messages. While the system sleeps nothing else happens.
`overslept` remembers that some sleep was forced: only then may a trial be
asleep. A process that lost its bus or logind ends, and a new one recovers.
Abstractions: the lock monitor is one variable, and no message is lost.

### 2.4 `SettingsWrite`, `SettingsClient`, `DoNotDisturb`

`SettingsClient` models both ends and the bus between them: per connection the
bus delivers in order, answers calls to a name that is gone, and reports the
name's owner. Variables carry the code's names; `calls` and `inbox` are the two
directions of the bus. Owner names stand for unique names and epochs (one process
has one of each); tokens are reused once nothing carries them, which stands for
an unbounded counter. A request may time out in the client while the service
still has it; the service may die before a call, after it, or between the save
and the answer. The transport's owner resolution and its `bindOwner()` are one
message `OwnerIs`. `fate`, `told` and `effects` are history.

The switch is called on the client's `stateChanged`, `ownerChanged` and
`snapshotChanged` and on the end of a write, inside the client's handler
(`published`, `follow`). Failures publish with an error text, and two texts are
taken to differ. When a handler signals both a new owner and a new state, the
state the switch passes through between the two calls is not a state of the model.

`SettingsWrite` says what a writer may rely on. The refinement maps its `write`
to what the service did with the write in flight, and its `strays` to the number
of commits that are still under way though the client has given up on them:
there are as many as tokens, because one message at most carries a token.
`Write` holds the writes a run may choose from, of all the controller's callers
can make (`UserWrite`).

`DoNotDisturb` adds the controller: every action is an action of the client with
what the controller does on the signals of that action, in the order the client
emits them. The quiet-hours schedule is the second writer, whose commits end on
the same signals. (`refresh()` after a commit is the client's timer.)

Abstractions: one key's value and a revision that other keys move; malformed
replies, which end like failures; a write made from inside a slot of the client
(no slot in the repository makes one).

### 2.5 `NativeSleep`

The handlers of three objects call each other; their state is one record `s`,
every function of the code that changes state takes that record to the next one
under its own name (a TLA+ function of the record, or an operator where the code
passes an argument), and an action is their composition. The lock monitor is
`view` (what it published) and `news` (the compositor's lock changed since);
`result` and `sent` are history. The compositor's lock is requested, locks,
is shown and is unlocked by the user's authentication; logind answers
`Inhibit`, `SetLockedHint`, `CanSuspend` and `Suspend`, may refuse them, may time
out after doing them, and sleeps when no delay is held.

Abstractions: `bind` merges the subscription and the reply that tells whether a
sleep is under way; lock on resume is on; the idle and grace timers are the
action `requestLock`; `stop()`, a removed session and Sleep1's wire interface
are left out.

## 3. What TLC checks

Bounds of Display1: `MaxRevision` (snapshot revisions, or compositor
generations), `MaxToken` (the counter's last value before it wraps), `MaxLineage`
(machines in one process), `LastTrial` (no trial begins once that many tokens are
issued), `MaxQueued` (queued completions an elapsing deadline overtakes). The journal is reliable in the service runs (`ReliableJournal`): its
failures are the subject of the machine's run, where every outcome is possible.
Of the others: `MaxSignals` (logind's messages under way), `MaxRequests`
(requests to sleep), `MaxOwner` and `MaxRevision` (processes of the settings
service and revisions of one), `MaxToken` there (requests under way at a time).
`Faults` and `Mishaps` choose the disturbances of a run.

| Run | What it shows | Instance | Why it is enough |
|---|---|---|---|
| `open_driver` | `TypeOK`, `NoStrandedPreimage`, `UnsafeNeverForward`, `NoOrphanJournal`, `ForwardCovered`, `TokenFence`, `AwaitingShowsTarget`, `StagedFence`, `ForwardOnce`, `ReadyIsDurable`, and with a fair `tick` `DeadlineResolves` | one output with two modes, or the other output; any caller; token wrap at 2 | includes `retryStuck`, a changed output set, and every journal outcome, crash and power loss, so that a machine may recover, time out and be asked to retry while it holds, or finds, a record; all but the last are proved for every value of the constants, and so is `AttemptsBounded` |
| `service_truth` | `NoStaleTruth`, `CompletionFence` | two layouts, three generations, two machines in one process, another client, metadata changes, failed reads | a change can fall before, inside and after a read; the second machine reissues token 1 while completions of the first are queued; both are proved, for a token counter that does not wrap |
| `service_ends` | `Spec` (the service implements the machine), `EndsConfirmedOrUndone`, and with fair timers `Resolves` | two layouts, three generations, lock, replaced devices | the trial, its rollback and a retry, with the port lost at any point; one trial (`LastTrial`), because a second one is where `EndsConfirmedOrUndone` stops (finding 5); `Spec` is proved for every value |
| `service_restart` | `RollbackScope`, `RestoreOrConsent`, `ServiceTypeOK`, and with fair timers and delivery `JournalResolves` | a panel and a monitor, a lid that closes, another client, processes that die at any step, a compositor that is replaced; two changes of the layout (`MaxRevision`), a deadline that waits for queued completions (`MaxQueued`) | the first change can be the candidate and the second its rollback, another client's layout or the lid, before or after the crash; a process may die in the recovery of the one before it; `RollbackScope`, `RestoreOrConsent` and `ServiceTypeOK` are proved for every value |
| `display_runtime` | `SafeMeansGuarded`, `NoTrialAsleep` | one output, two revisions, two messages of logind under way, every mishap | a sleep, its resume and the next sleep can meet a late grant; both are proved for every value, and so is `RuntimeTypeOK` |
| `runtime_sleeps` | `SleepNotHeld`, `GuardReturns` | the same with refused inhibitors, under fairness | refusals before, during and after a sleep |
| `settings_client` | `KeepsPromise` (the client implements `SettingsWrite`), `WriteEnds`, `Converges` | one process that dies, or none that is activated; two tokens; a switch that is only turned on, another client that commits; refusals once the revision is at its bound, failed activation, a lost bus, `stop()` | a stray of a write that was given up meets the next one; that a second process takes over from a dead one is in `switch` and in the proofs, for safety, while `Converges` is checked up to the first process; `KeepsPromise` is proved for every value |
| `switch` | `TypeOKDnd`, `NoLostInvalidation`, `OwnCompletion`, `SavingMeansPending`, `SwitchFollowsClient`, `SavedIsConfirmed` | two processes of the service, two revisions, the schedule and another client as writers, a lost bus | the service is replaced between commit and read-back, and another client writes between them; all six are proved for every value |
| `native_sleep` | `ResultIsTrue`, `OfferIsCurrent`, `OnlyBehindLock` | two requests, sleeps that are forced, a lock that cannot be had, admission that lapses, a logind that is replaced | the second request meets the leftovers of the first, and the gate of a sleep meets either; all three are proved for every value |
| `sleep_ends` | `TypeOK`, and under fairness `RequestEnds`, `DelayReturns`, `HintConverges` | one request, refused or unanswered calls, a logind that is replaced | the lock changes while its hint is under way, fails, and succeeds unnoticed; `TypeOK` is proved for every value |

`AbandonIsFinal` and `TimeoutNeverCommits` are runs that show that a statement in
the repository does not hold of the code (section 5). Deadlock is checked in every
run. `stop()` of the settings client and an activation by another client happen
in `settings_client` only; lossy journals in `open_driver` and `display_runtime`.
`OnlyBehindLock` reads "the lock is on screen" as *the compositor's lock is
Locked, or it has changed and the monitor has not been told yet*: no process
could know better.

### Fairness

* `WF(tick)`, `WF(deadline)`: the resident service keeps one precise single-shot
  timer for the machine's deadline, arms it again after every change, and arms
  it again if it fired early (`resident_display_service.cpp`, `armDeadline()`
  and the AGENT-GUARD in the timer's handler). `deadline` is enabled as long as
  a deadline is installed, so weak fairness says the timer fires.
* `WF(topologySettleTimer)`: the settle timer runs while the machine is in
  `SettlingTopology` (`syncTopologySettleTimer`). A new topology change restarts
  it, and the bounded generations mean that hotplugs stop.
* `FairRecovery` adds that messages are delivered and that the compositor
  answers reads: without a first snapshot no machine exists and nothing could be
  recovered. Queued calls of `applyCompleted()` run, as the event loop runs what is
  posted to it. Nothing is assumed about configurations: the compositor may ignore,
  refuse or apply them late, and the writer may time out.

* `FairRuntime`: `tick` as above, logind's messages are delivered, the retry timer
  fires, and `Inhibit` is granted if it is asked for again and again (strong
  fairness: a call that is refused is repeated by the code's back-off). Without
  the last, a logind that always refuses leaves no delay, as it should.
* `FairSpec` of `SettingsClient`: the bus delivers and answers, the service works
  off its calls, `m_refreshTimer` fires. The request timeout is *not* assumed:
  `WriteEnds` holds without it because the bus answers calls to a service that
  died. `Converges` is conditional: once the bus and the service stay and
  requests no longer time out.
* `FairSpec` of `NativeSleep`: the 17 s deadline and the retry timer fire, messages
  are delivered, the monitor, told of a change, reads the lock (its own back-off
  retries forever), and logind accepts `Inhibit` and hints that are sent again
  and again (strong fairness). Nothing is assumed of the lock, of capabilities or
  of `Suspend`. `DelayReturns` and `HintConverges` are about a system that stays
  awake with logind bound and the session admitted (`Calm`).

`Resolves` needs only the timers. It says of every trial: it ends, or is
reported stuck. `JournalResolves` says the same of a journal found by a new
process, once processes stop dying.

## 4. What is proved

`tlapm` checks all of it, for any outputs, modes, layouts and bounds that satisfy
the named assumptions (`LayoutsAssumption`, `BoundsAssumption`,
`NoJournalAssumption`, `ServiceBounds`, `NoRequestAssumption`, the
`BoundsAssumption` and `NoneAssumption` of `SettingsClient`, the
`NoChoiceAssumption` of `DoNotDisturb` and the `SleepBounds` of `NativeSleep`),
which only say what kind of value each constant is, and that the value that
stands for "none" is none of the others.

* **`TypeCorrect`** (`DisplayTransactionProofs`): `Spec => []TypeOK`. `TypeOK`
  is not inductive: `beginRevert` updates a journal, so that there is one must be
  known. `TypeInv` adds `Shape`: outside `Discovering` the snapshot is a real
  one, and outside `Ready` there is a journal record.
* **Safety** (`DisplayTransactionSafety`): the safety properties of the
  machine are not inductive one by one. `SafetyInv` joins the eight state
  invariants with `TypeInv` and `RequestActedOn`, that a recorded request to roll
  back is acted upon before the target can be offered: without it a session
  that locks in `Observing` would find the rollback "already requested" and do
  nothing, and `UnsafeNeverForward` would fail. From it follow `NothingStranded`,
  `Fenced`, `Bounded`, `NeverForwardUnsafe`, `NoOrphan`, `Covered`,
  `TargetShown`, `DraftFenced`, and the action properties `ForwardsOnce` (any step
  that issues a forward token, from `Applying` too, starts with no record held or on
  file) and `ReadyDurably`. They hold for any caller (`OpenDriver` TRUE or FALSE).
* **`Scoped`, `RestoresOrConsents`** (`DisplayTransactionSafety`), under
  `~OpenDriver`: what a rollback may touch, and how a transaction may end. The
  invariant `Inv` adds to `SafetyInv` that no rollback scope is left over outside
  a rollback, and that a trial keeps the output set it began with (`Unscoped`). The hypothesis is needed: with `retryStuck` the scope is wrong
  (finding 3).
* **`ServiceImplements`** (`DisplayServiceProofs`): `ServiceSpec => Spec`. Each
  event of the service takes the machine by one of its actions, or not at all.
  The step needs that a completion carries an issued token and a read carries a
  snapshot, hence the invariant `ServiceInv`: `SafetyInv`, `ServiceTypeOK` and
  that a machine outside `Discovering` has a lineage. **`ServiceTypeCorrect`**
  and **`ServiceSafe`** follow.
* **`CompletionsFenced`** (`DisplayServiceProofs`):
  `ServiceSpec /\ []CounterLasts => []CompletionFence`. `CounterLasts` says that
  the token counter has not reached its last value. The code's is a `quint64`
  that starts again with every machine; once it wraps, a token may name two
  requests of one lineage, and the fence is only as good as the assumption that
  none is that late (`TokenFence`, which does not need it, covers the wrap). The
  invariant `FenceInv`: of all that is under way (the port's request, the
  configuration, the compositor's answer, queued completions), whatever carries
  the machine's lineage carries a token it has issued, and whatever carries its
  present token is the request it waits for, with its layout and scope.
* **`NothingStale`** (`DisplayServiceProofs`), under `~OpenDriver` and the same
  `[]CounterLasts`: `[]NoStaleTruth`. Every change of the layout raises the
  compositor's generation and is signalled, so a reply of the present generation
  shows what is live, and a reply with no signal behind it is of the present
  generation (`SourceTrue`; `SnapTrue` for the machine's snapshot). What makes it hard is `RevertBackoff`, in which the model
  refuses frames: a machine may roll back on a stale snapshot and then offer
  commands again. `RollbackSeen` says why this is sound: the rollback it takes for
  done was applied by the compositor, which made the snapshot true or owes a
  change that will.

* **`RuntimeTypeCorrect`, `Guarded`, `RuntimeNeverForwardUnsafe`,
  `AsleepWithoutTrial`** (`DisplayRuntimeProofs`). `SafeMeansGuarded` is about
  copies, so the invariant says what keeps them in step: `Agreed` (the port's
  safety is what its inputs give, and the runtime's copy agrees once it is ready)
  and `Combined` (the machine's flag is what the runtime would compute now).
  `NoTrialAsleep` needs, beyond that, that a delay outlives an apply
  (`ApplyDelays`) and that logind's queue never holds a grant ahead of the resume
  it would have to follow (`SleepsUndelayed`). Both rest on `SafetyInv`, so the
  machine's safety theorems hold in the process that sleeps.

* **`ClientInvariant`** (`SettingsClientProofs`) and **`ClientKeepsPromise`**
  (`SettingsClientRefinement`): `Spec => KeepsPromise`. The client believes a reply
  that carries its token, so the invariant is about tokens. `Coherent`: one message
  or call at most carries each, the answer to the request in flight says what the
  service did, and the call of that request is undecided and the last made.
  `Linked`: a write is in flight as long as its request is. Then each action is a
  step of `SettingsWrite` or a stutter: `requestSet` begins a write, the service
  decides it, the answer reports it, and a timeout, a dead owner or a lost bus turn
  it into a stray with the report "uncertain". What needs care is
  that a stray meets the next write: the service may still take it, and no step
  may then change what the next write is told.
* **`InvalidationsKept`** (`SettingsClientProofs`): `Spec => []NoLostInvalidation`.
  A client that rests on a snapshot has the current one, or a change signal is
  under way. The invariant `NewsInv` is about the order of the bus. `RepliesTrue`:
  a snapshot in the client's inbox is of now, or the signal of the change it misses
  is behind it. `OwnersTrue` and `OwnerTrue`: between the reports of two owners the
  name is reported free, so a client never takes a process for its successor.
  `RequestTrue`: what is asked of a process is answered by it. `Deaf`: before the
  transport starts, nothing is heard.
* **`SwitchImplementsClient`, `SwitchKeepsPromise`** (`DoNotDisturbProofs`): the
  controller adds variables to the client and no behaviour, so what is proved of
  the client holds under it. **`SwitchTypeCorrect`, `EndsItsOwn`,
  `NeverStuckSaving`**: the last two are inductive with `WaitingMeansReading` (a
  switch that waits for its read-back has an owner and a timer or a request that
  ends the wait) and `SavingHasReason`.
* **`ShowsTheSetting`** (`[]SwitchFollowsClient`) and **`SavesAreConfirmed`**
  (`SavedIsConfirmed`), of the switch. Both rest on `ConfirmInv`, which adds
  `SaveTrue` to `NewsInv` and the invariant above: a save in flight, or waiting to
  be read back, is with the owner the client has now (a new owner ends it), and
  whatever snapshot answers the read-back is not older than the revision the
  commit was answered with (`ReadsBack`). That in turn needs that one process's
  revisions only grow along the bus, which `NewsInv` provides.
* **`SleepTypeCorrect`, `ResultsTrue`, `OfferCurrent`, `LockedFirst`**
  (`NativeSleepProofs`). A handler is a composition of functions that call one
  another, so the argument is about the functions. Each keeps a record `Sound`
  (results, requests sent and calls under way agree), and what it may do to the
  rest is a relation that composes: `Follows` (it may give the delay back, but only
  if the published lock is on; forget the lock, never invent one; and if the offer
  agreed with the state before, it does after), with the stronger `Steady` for
  functions that leave lock and delay alone. `SleepInv` is `Sound`, the offer
  (`Offered`, `Fresh`), logind's queue (`Replies`: a report of success answers
  a request that was sent) and `ViewFollows` (the monitor is told of every change
  of the lock). `LockedFirst` is an action property and comes from the same step
  lemmas.

Only model-checked: liveness, which the prover does not reach, and
`EndsConfirmedOrUndone`. The latter is true of a first trial without
metadata-only changes and is checked there; it is not true of the code beyond
(findings 2 and 5), so there is no theorem for every value to prove.

## 5. Findings

Two have a run whose counterexample shows them:

1. `abandon_is_final`: an external abandon is recorded durably, so that no crash
   or power loss can undo it; when a recovered machine completes it and the clear
   fails, `recover()` rewrites the journal with a reason that orders a rollback
   (`transaction_machine_revert.cpp:234`; `topologySettled()` does the same). The
   next process rolls back over the other client's layout.
2. `timeout_never_commits`: a candidate the compositor applies after the apply
   deadline stays on screen if a read of the old layout came in between.

Four more were met while modelling. They follow from the modules and are kept
out of the runs; they say where a property stops:

3. A `confirm()` whose clear is not durable is rejected, and the trial goes on
   with a file a power loss may leave absent, against the contract comment at
   `src/services/display_runtime/src/resident_display_runtime.cpp:226`.
4. `retryStuck()` on a changed output set with no restorable survivor requests a
   rollback of the full preimage. (No caller in the service; this is why
   `RollbackScope` and `RestoreOrConsent` are about `~OpenDriver`.)
5. A read answered before the apply and delivered after its acknowledgement is
   taken for a refusal; the candidate stays on screen with no journal
   (`transaction_machine_events.cpp:191`). This, with finding 2, is why
   `EndsConfirmedOrUndone` is checked without metadata-only changes: with one, an
   old layout can be read as news. It is also why it is about one trial: the
   changes of a first trial's rollback, read late, are news to a second trial of
   the same candidate, and one of them can be such a read.
6. The machine's interface requires its owner to redeliver the live snapshot after
   every callback and deadline (`transaction_ports.h:55`); the service does not,
   so the machine waits until the next deadline and rolls back a layout that never
   changed.

## 6. Plan

1. Proofs: every safety property the runs check is proved but
   `EndsConfirmedOrUndone`; left is what a theorem could say of a single trial,
   and that `DisplayRuntime`'s `serviceEvents` is what the service does.
2. `DisplayBrightness`: the brightness authority, and its sharing of the writer
   port with transactions; one reply per request.
3. `SessionActions`, `AudioCoordinator`: owner and epoch fences, one outcome per
   request, an abstract "request" specification both implement, in the manner of
   `SettingsWrite`.
4. Authentication attempts of the greeter; `Supervisor` with recovery backoff.
5. `Notifications` (capacity ledger, re-entrancy); `Clipboard` (privacy
   generations); `HybridTopology` (container trees under commands, checked
   against a reference definition).

## 7. Not modelled

The repository holds well over a thousand source files of applications, shell,
presentation, codecs and thin clients of other daemons, whose behaviour is
layout, formatting or I/O; the mapped code is therefore a small share of the
whole, and the larger part of the code whose interleavings matter is in the table
of section 1.3. `PROJECT.json` lists each component with its reason. Of the
modelled components, what is left out is named with their abstractions in
section 2.
