---------------------- MODULE DisplayTransactionSafety ----------------------
(***************************************************************************)
(* The safety of the preview transaction, for every set of outputs and     *)
(* layouts and for any caller.  Each property is almost inductive; what is *)
(* missing is that a target is never observed, or offered for              *)
(* confirmation, with a rollback already asked for.                        *)
(***************************************************************************)
EXTENDS DisplayTransactionProofs

\* A recorded request for rollback is acted on before the target can be
\* offered: safetyChanged() relies on it to be able to start the rollback.
RequestActedOn == state \in {"Observing", "AwaitingConfirmation"} => ~revertRequested

SafetyInv ==
    /\ TypeInv
    /\ NoStrandedPreimage
    /\ TokenFence
    /\ AttemptsBounded
    /\ UnsafeNeverForward /\ RequestActedOn
    /\ NoOrphanJournal
    /\ ForwardCovered
    /\ AwaitingShowsTarget
    /\ StagedFence

USE DEF SafetyInv, NoStrandedPreimage, TokenFence, AttemptsBounded, UnsafeNeverForward,
        RequestActedOn, NoOrphanJournal, ForwardCovered, AwaitingShowsTarget, StagedFence,
        Timed, States

-----------------------------------------------------------------------------
(* A state that offers nothing, and holds a transaction.                    *)

LEMMA InertSafe ==
    ASSUME TypeInv', state' \in {"Ready", "SettlingTopology", "Stuck"},
           armed' = FALSE, token' = 0,
           journalActive' <=> state' # "Ready",
           state' = "Ready" => disk'.visible = NoJournal,
           state' = "Stuck" /\ ~cleanupOnly' => attempt' = kMaximumRevertAttempts
    PROVE  SafetyInv'
OBVIOUS

LEMMA RevertingSafe ==
    ASSUME TypeInv', state' \in {"RevertingApply", "RevertingObserve", "RevertBackoff"},
           armed' = TRUE, journalActive' = TRUE,
           token' # 0 <=> state' = "RevertingApply",
           attempt' \in 1 .. kMaximumRevertAttempts,
           state' = "RevertBackoff" => attempt' # kMaximumRevertAttempts
    PROVE  SafetyInv'
BY DEF kMaximumRevertAttempts

LEMMA ClearSafe ==
    ASSUME TypeInv', clearTransaction, disk'.visible = NoJournal
    PROVE  SafetyInv'
BY InertSafe DEF clearTransaction

LEMMA StuckSafe ==
    ASSUME TypeInv', NEW c \in BOOLEAN, NEW x, NEW D, enterStuck(c, x, D),
           ~c => attempt = kMaximumRevertAttempts
    PROVE  SafetyInv'
BY InertSafe DEF enterStuck

LEMMA ClearThenReadySafe ==
    ASSUME TypeInv', NEW x, NEW surv, NEW D, clearJournalThenReady(x, surv, D)
    PROVE  SafetyInv'
<1>1. CASE storedDurably(NoJournal) /\ clearTransaction
  BY <1>1, ClearSafe DEF storedDurably, Durable
<1>2. CASE enterStuck(TRUE, x, FailedClear(D))
  BY <1>2, StuckSafe
<1> QED BY <1>1, <1>2 DEF clearJournalThenReady

LEMMA BeginRevertSafe ==
    ASSUME SafetyInv, TypeInv', journalActive, NEW l, NEW surv, NEW D, beginRevert(l, surv, D)
    PROVE  SafetyInv'
<1>1. token' # 0 BY DEF beginRevert, TypeInv, TypeOK
<1>2. attempt' \in 1 .. kMaximumRevertAttempts BY DEF beginRevert, kMaximumRevertAttempts
<1> QED BY <1>1, <1>2, RevertingSafe DEF beginRevert, installDeadline

LEMMA ScheduleSafe ==
    ASSUME SafetyInv, TypeInv', state \in {"RevertingApply", "RevertingObserve"},
           scheduleRevertRetry
    PROVE  SafetyInv'
<1>1. CASE attemptsExhausted
  <2>1. attempt = kMaximumRevertAttempts BY <1>1 DEF attemptsExhausted, kMaximumRevertAttempts
  <2> QED BY <1>1, <2>1, StuckSafe DEF scheduleRevertRetry
<1>2. CASE ~attemptsExhausted
  <2>1. attempt' \in 1 .. kMaximumRevertAttempts /\ attempt' # kMaximumRevertAttempts
    BY <1>2 DEF scheduleRevertRetry, attemptsExhausted, kMaximumRevertAttempts
  <2> QED BY <1>2, <2>1, RevertingSafe DEF scheduleRevertRetry, installDeadline
<1> QED BY <1>1, <1>2

LEMMA IssueSafe ==
    ASSUME SafetyInv, TypeInv', state = "RevertBackoff", issueRevertApply
    PROVE  SafetyInv'
<1>1. ~attemptsExhausted BY DEF attemptsExhausted, kMaximumRevertAttempts
<1>2. attempt' \in 1 .. kMaximumRevertAttempts
  BY <1>1 DEF issueRevertApply, attemptsExhausted, kMaximumRevertAttempts
<1>3. token' # 0 BY <1>1 DEF issueRevertApply, TypeInv, TypeOK
<1> QED BY <1>1, <1>2, <1>3, RevertingSafe DEF issueRevertApply, installDeadline

LEMMA AwaitSafe ==
    ASSUME SafetyInv, TypeInv', safe, ~revertRequested, journalActive, safe' = safe,
           NEW l, l = journal.target, snap'.layout = l, awaitConfirmation(l)
    PROVE  SafetyInv'
<1>1. CASE beginRevert(l, survivors, NotDurable(disk, journal))
  BY <1>1, BeginRevertSafe
<1>2. CASE ~beginRevert(l, survivors, NotDurable(disk, journal))
  <2>1. /\ state' = "AwaitingConfirmation" /\ armed' = TRUE /\ token' = 0
        /\ UNCHANGED <<journal, journalActive, revertRequested>>
    BY <1>2 DEF awaitConfirmation, installDeadline
  <2> QED BY <2>1
<1> QED BY <1>1, <1>2

LEMMA DropStagedSafe ==
    ASSUME SafetyInv, TypeInv', dropStaged
    PROVE  SafetyInv'
BY ClearSafe DEF dropStaged

LEMMA StartRevertSafe ==
    ASSUME SafetyInv, TypeInv', startRevert
    PROVE  SafetyInv'
BY BeginRevertSafe DEF startRevert

LEMMA RecordRevertSafe ==
    ASSUME SafetyInv, TypeInv', recordRevert
    PROVE  SafetyInv'
<1>1. CASE state = "SettlingTopology" BY <1>1 DEF recordRevert, tokens
<1>2. CASE state = "Applying"
  <2>1. journal \in Journal BY <1>2 DEF TypeInv, Shape
  <2>2. journal' # NoJournal BY <1>2, AbandonTyped, NoJournalAssumption, <2>1 DEF recordRevert
  <2>3. /\ journal'.preimage = journal.preimage
        /\ journal'.target = journal.target
    BY <2>1 DEF recordRevert, Journal
  <2>4. disk'.visible \in {disk.visible, journal'}
        /\ disk'.durable \subseteq disk.durable \cup {journal'}
    BY DEF recordRevert, Written, NotDurable, Uncertain, Durable
  <2>5. ASSUME NEW j \in disk'.durable \cup {disk'.visible}
        PROVE  j # NoJournal /\ j.preimage = journal'.preimage /\ j.target = journal'.target
    <3>1. CASE j = journal' BY <2>2, <3>1
    <3>2. CASE j \in disk.durable \cup {disk.visible} BY <1>2, <2>3, <3>2
    <3> QED BY <2>4, <3>1, <3>2
  <2>6. ForwardCovered' BY <2>5
  <2> HIDE DEF ForwardCovered
  <2> QED BY <1>2, <2>6 DEF recordRevert, tokens
<1> QED BY <1>1, <1>2 DEF recordRevert

LEMMA SettleSafe ==
    ASSUME SafetyInv, TypeInv', NEW s, journalActive,
           settleTopology(s) \/ abandonAfterTopology(s)
    PROVE  SafetyInv'
BY InertSafe DEF settleTopology, abandonAfterTopology

LEMMA KeepSafe ==
    ASSUME SafetyInv, TypeInv', NEW s, keepSnapshot(s), state # "Staged",
           state = "AwaitingConfirmation" => s.layout = snap.layout
    PROVE  SafetyInv'
BY DEF keepSnapshot, machine, flags, tokens

-----------------------------------------------------------------------------
(* One lemma per handler.                                                   *)

LEMMA InitSafe == Init => SafetyInv
<1> SUFFICES ASSUME Init PROVE SafetyInv
  OBVIOUS
<1>1. TypeInv BY InitTyped
<1> QED BY <1>1 DEF Init, Absent, Durable

LEMMA InitializeSafe ==
    ASSUME SafetyInv, TypeInv', NEW s, initialize(s)
    PROVE  SafetyInv'
BY InertSafe DEF initialize, tokens

LEMMA RecoverSafe ==
    ASSUME SafetyInv, TypeInv', NEW s, recover(s)
    PROVE  SafetyInv'
<1> DEFINE j == pending
<1>1. state = "Discovering" /\ ~armed /\ token = 0 BY DEF recover
<1>2. CASE recoverSettling(j) BY <1>1, <1>2, InertSafe DEF recoverSettling, tokens
<1>3. CASE recoverClear(j)
  <2>1. CASE storedDurably(NoJournal) /\ state' = "Ready"
    BY <1>1, <1>3, <2>1, InertSafe DEF recoverClear, storedDurably, Durable, tokens
  <2>2. CASE ~(storedDurably(NoJournal) /\ state' = "Ready")
    BY <1>1, <1>3, <2>2, InertSafe DEF recoverClear, tokens
  <2> QED BY <2>1, <2>2
<1>4. CASE recoverRevert(j)
  <2>1. token' # 0 BY <1>4 DEF recoverRevert, TypeInv, TypeOK
  <2>2. attempt' \in 1 .. kMaximumRevertAttempts
    BY <1>4 DEF recoverRevert, kMaximumRevertAttempts
  <2> QED BY <1>4, <2>1, <2>2, RevertingSafe DEF recoverRevert, installDeadline
<1> QED BY <1>2, <1>3, <1>4 DEF recover

LEMMA StageSafe ==
    ASSUME SafetyInv, TypeInv', NEW t, stage(t)
    PROVE  SafetyInv'
BY DEF stage, tokens

LEMMA PreviewSafe ==
    ASSUME SafetyInv, TypeInv', preview
    PROVE  SafetyInv'
<1>1. state = "Staged" /\ safe /\ safe' BY DEF preview, mayPreview
<1>2. CASE state' = "Applying"
  <2>1. /\ disk' = Durable(journal) /\ journal' = journal
        /\ armed' = TRUE /\ journalActive' = TRUE /\ token' = nextToken
    BY <1>2 DEF preview, storedDurably, installDeadline, retainUncertainJournalForCleanup
  <2>2. token' # 0 BY <2>1 DEF TypeInv, TypeOK
  <2>3. journal' # NoJournal BY <1>1, <2>1, NoJournalAssumption DEF TypeInv, Shape
  <2> QED BY <1>1, <1>2, <2>1, <2>2, <2>3 DEF Durable
<1>3. CASE state' # "Applying"
  BY <1>3, InertSafe DEF preview, retainUncertainJournalForCleanup
<1> QED BY <1>2, <1>3

LEMMA ConfirmSafe ==
    ASSUME SafetyInv, TypeInv', confirm
    PROVE  SafetyInv'
<1>1. CASE storedDurably(NoJournal) /\ clearTransaction
  BY <1>1, ClearSafe DEF storedDurably, Durable
<1>2. CASE UNCHANGED <<machine, flags, tokens, pending>>
  BY <1>2 DEF confirm, machine, flags, tokens
<1> QED BY <1>1, <1>2 DEF confirm

LEMMA CancelSafe ==
    ASSUME SafetyInv, TypeInv', cancel
    PROVE  SafetyInv'
BY DropStagedSafe, RecordRevertSafe, StartRevertSafe DEF cancel

LEMMA SafetySafe ==
    ASSUME SafetyInv, TypeInv', NEW value \in BOOLEAN, safetyChanged(value)
    PROVE  SafetyInv'
<1>1. CASE dropStaged BY <1>1, DropStagedSafe
<1>2. CASE recordRevert BY <1>2, RecordRevertSafe
<1>3. CASE startRevert BY <1>3, StartRevertSafe
<1>4. CASE /\ value \/ nothingToRevert
           /\ UNCHANGED <<machine, flags, tokens, pending, disk>>
  <2>1. safe' = value /\ snap' = snap BY DEF safetyChanged
  <2>2. UnsafeNeverForward' BY <1>4, <2>1 DEF nothingToRevert, rollbackInProgress, machine, flags
  <2> QED BY <1>4, <2>1, <2>2 DEF machine, flags, tokens
<1> QED BY <1>1, <1>2, <1>3, <1>4 DEF safetyChanged

LEMMA CompletedSafe ==
    ASSUME SafetyInv, TypeInv', NEW t, NEW outcome, applyCompleted(t, outcome)
    PROVE  SafetyInv'
<1>1. safe' = safe /\ snap' = snap BY DEF applyCompleted
<1>2. CASE applyCompletedForward(outcome)
  <2>1. CASE /\ ~revertRequested /\ retainedTarget
             /\ awaitConfirmation(snap.layout)
    BY <1>1, <1>2, <2>1, AwaitSafe DEF applyCompletedForward, retainedTarget
  <2>2. CASE ~(/\ ~revertRequested /\ retainedTarget
               /\ awaitConfirmation(snap.layout))
    <3>1. /\ state = "Applying"
          /\ state' = IF revertRequested \/ outcome # "Applied"
                      THEN "ResolvingUncertain" ELSE "Observing"
          /\ token' = 0 /\ armed' = TRUE
          /\ UNCHANGED <<journal, journalActive, revertRequested, disk>>
      BY <1>2, <2>2 DEF applyCompletedForward, installDeadline
    <3> QED BY <1>1, <3>1
  <2> QED BY <2>1, <2>2
<1>3. CASE applyCompletedRevert(outcome)
  <2>1. CASE clearJournalThenReady(FALSE, survivors, {disk}) BY <2>1, ClearThenReadySafe
  <2>2. CASE scheduleRevertRetry BY <1>3, <2>2, ScheduleSafe DEF applyCompletedRevert
  <2>3. CASE ~clearJournalThenReady(FALSE, survivors, {disk}) /\ ~scheduleRevertRetry
    BY <1>3, <2>3, RevertingSafe DEF applyCompletedRevert, installDeadline
  <2> QED BY <2>1, <2>2, <2>3
<1> QED BY <1>2, <1>3 DEF applyCompleted

LEMMA ObservedStuckSafe ==
    ASSUME SafetyInv, TypeInv', NEW s, observedStuck(s)
    PROVE  SafetyInv'
<1>1. CASE enterStuck(TRUE, FALSE, {disk}) BY <1>1, StuckSafe
<1>2. CASE UNCHANGED <<state, journal, journalActive, attempt, armed, safe, flags,
                       tokens, pending, disk>>
  BY <1>2 DEF observedStuck, flags, tokens
<1> QED BY <1>1, <1>2 DEF observedStuck

LEMMA ReadyKeptSafe ==
    ASSUME SafetyInv, TypeInv', NEW s, observedReady(s)
    PROVE  SafetyInv'
BY KeepSafe DEF observedReady

LEMMA TopologySafe ==
    ASSUME SafetyInv, TypeInv', NEW s, topologyChanged(s)
    PROVE  SafetyInv'
BY ReadyKeptSafe, ObservedStuckSafe, DropStagedSafe, SettleSafe DEF topologyChanged

LEMMA AbandonSafe ==
    ASSUME SafetyInv, TypeInv', NEW s, abandonForExternalIntent(s)
    PROVE  SafetyInv'
BY DropStagedSafe, ClearThenReadySafe DEF abandonForExternalIntent

LEMMA ExternalSafe ==
    ASSUME SafetyInv, TypeInv', NEW s, externalIntentObserved(s)
    PROVE  SafetyInv'
<1>1. CASE observedReady(s) BY <1>1, ReadyKeptSafe
<1>2. CASE abandonForExternalIntent(s) BY <1>2, AbandonSafe
<1>3. CASE state \in Timed \cup {"SettlingTopology"} /\ abandonAfterTopology(s)
  BY <1>3, SettleSafe
<1>4. CASE state = "Staged" /\ abandonDroppedDraft(s) BY <1>4 DEF abandonDroppedDraft
<1> QED BY <1>1, <1>2, <1>3, <1>4 DEF externalIntentObserved

LEMMA ObservedApplyingSafe ==
    ASSUME SafetyInv, TypeInv', NEW s, observedApplying(s)
    PROVE  SafetyInv'
BY DEF observedApplying, machine, tokens

LEMMA ObservedObservingSafe ==
    ASSUME SafetyInv, TypeInv', NEW s, observedObserving(s)
    PROVE  SafetyInv'
<1>1. CASE s.layout = journal.target /\ awaitConfirmation(s.layout) /\ snap' = s /\ UNCHANGED safe
  BY <1>1, AwaitSafe DEF observedObserving
<1>2. CASE clearJournalThenReady(FALSE, survivors, {disk}) BY <1>2, ClearThenReadySafe
<1>3. CASE keepSnapshot(s) BY <1>3, KeepSafe DEF observedObserving
<1> QED BY <1>1, <1>2, <1>3 DEF observedObserving

LEMMA ObservedUncertainSafe ==
    ASSUME SafetyInv, TypeInv', NEW s, observedUncertain(s)
    PROVE  SafetyInv'
<1>1. CASE clearJournalThenReady(FALSE, survivors, {disk}) BY <1>1, ClearThenReadySafe
<1>2. CASE beginRevert(s.layout, survivors, {disk})
  BY <1>2, BeginRevertSafe DEF observedUncertain
<1>3. CASE keepSnapshot(s) BY <1>3, KeepSafe DEF observedUncertain
<1> QED BY <1>1, <1>2, <1>3 DEF observedUncertain

LEMMA ObservedRevertingSafe ==
    ASSUME SafetyInv, TypeInv', NEW s, observedReverting(s)
    PROVE  SafetyInv'
<1>1. CASE clearJournalThenReady(FALSE, survivors, {disk}) BY <1>1, ClearThenReadySafe
<1>2. CASE keepSnapshot(s) BY <1>2, KeepSafe DEF observedReverting
<1> QED BY <1>1, <1>2 DEF observedReverting

LEMMA ObservedSafe ==
    ASSUME SafetyInv, TypeInv', NEW s, observedSnapshot(s)
    PROVE  SafetyInv'
<1>1. CASE observedReady(s) BY <1>1, ReadyKeptSafe
<1>2. CASE observedStuck(s) BY <1>2, ObservedStuckSafe
<1>3. CASE state = "SettlingTopology" /\ settleTopology(s) BY <1>3, SettleSafe
<1>4. CASE topologyChanged(s) BY <1>4, TopologySafe
<1>5. CASE observedApplying(s) BY <1>5, ObservedApplyingSafe
<1>6. CASE observedObserving(s) BY <1>6, ObservedObservingSafe
<1>7. CASE observedUncertain(s) BY <1>7, ObservedUncertainSafe
<1>8. CASE observedReverting(s) BY <1>8, ObservedRevertingSafe
<1>9. CASE observedAwaiting(s)
  <2>1. CASE s.layout = snap.layout /\ keepSnapshot(s)
    BY <1>9, <2>1, KeepSafe DEF observedAwaiting
  <2>2. CASE abandonForExternalIntent(s) BY <2>2, AbandonSafe
  <2> QED BY <1>9, <2>1, <2>2 DEF observedAwaiting
<1> QED BY <1>1, <1>2, <1>3, <1>4, <1>5, <1>6, <1>7, <1>8, <1>9 DEF observedSnapshot

LEMMA SettledSafe ==
    ASSUME SafetyInv, TypeInv', settled
    PROVE  SafetyInv'
<1>0. PICK s : topologySettled(s) BY DEF settled
<1> DEFINE surv == IF sameOutputSet(s.layout, journal.preimage) THEN {}
                   ELSE survivingProperties(s.layout, journal.preimage)
<1>1. CASE clearJournalThenReady(FALSE, survivors, {disk}) BY <1>1, ClearThenReadySafe
<1>2. CASE clearJournalThenReady(FALSE, surv, {disk}) BY <1>2, ClearThenReadySafe
<1>3. CASE beginRevert(s.layout, surv, {disk})
  <2>1. journalActive BY <1>0 DEF topologySettled
  <2> HIDE DEF surv
  <2> QED BY <1>3, <2>1, BeginRevertSafe
<1> QED BY <1>0, <1>1, <1>2, <1>3 DEF topologySettled

LEMMA TickSafe ==
    ASSUME SafetyInv, TypeInv', tick
    PROVE  SafetyInv'
<1>1. CASE tickForward
  <2>1. CASE beginRevert(snap.layout, survivors, {disk})
    BY <1>1, <2>1, BeginRevertSafe DEF tickForward
  <2>2. CASE ~beginRevert(snap.layout, survivors, {disk})
    BY <1>1, <2>2 DEF tickForward, installDeadline, tick, flags
  <2> QED BY <2>1, <2>2
<1>2. CASE tickRevert BY <1>2, ScheduleSafe, IssueSafe DEF tickRevert
<1> QED BY <1>1, <1>2 DEF tick

LEMMA RetryStuckSafe ==
    ASSUME SafetyInv, TypeInv', retryStuck
    PROVE  SafetyInv'
<1>1. CASE storedDurably(NoJournal) /\ clearTransaction
  BY <1>1, ClearSafe DEF storedDurably, Durable
<1>2. CASE UNCHANGED <<machine, flags, tokens, pending>>
  BY <1>2 DEF retryStuck, machine, flags, tokens
<1>3. CASE beginRevert(snap.layout, {}, {disk})
  BY <1>3, BeginRevertSafe DEF retryStuck
<1> QED BY <1>1, <1>2, <1>3 DEF retryStuck

\* A machine is destroyed with its journal handed on, so that the next one
\* starts clean only where no journal is left on disk.
LEMMA FailureSafe ==
    ASSUME SafetyInv, TypeInv', failures
    PROVE  SafetyInv'
<1>1. forgetMachine BY DEF failures, transportLost, processCrash, powerLoss
<1>2. pending' = NoJournal => disk'.visible = NoJournal
  <2>1. CASE transportLost
    <3>1. CASE journalActive
      BY <2>1, <3>1, NoJournalAssumption DEF transportLost, TypeInv, Shape
    <3>2. CASE ~journalActive
      <4>1. state \in {"Ready", "Staged"} BY <2>1, <3>2 DEF transportLost, TypeInv, TypeOK
      <4> QED BY <2>1, <4>1 DEF transportLost
    <3> QED BY <3>1, <3>2
  <2>2. CASE processCrash BY <2>2 DEF processCrash
  <2>3. CASE powerLoss BY <2>3 DEF powerLoss, Durable
  <2> QED BY <2>1, <2>2, <2>3 DEF failures
<1> QED BY <1>1, <1>2 DEF forgetMachine

-----------------------------------------------------------------------------

LEMMA NextSafe == SafetyInv /\ [Next]_vars => SafetyInv'
<1> SUFFICES ASSUME SafetyInv, [Next]_vars PROVE SafetyInv'
  OBVIOUS
<1>t. TypeInv' BY NextTyped
<1>1. CASE commands
  BY <1>t, <1>1, StageSafe, PreviewSafe, ConfirmSafe, CancelSafe, RetryStuckSafe DEF commands
<1>2. CASE safetyEvents
  BY <1>t, <1>2, SafetySafe, CancelSafe DEF safetyEvents, prepareForSuspend
<1>3. CASE completions BY <1>t, <1>3, CompletedSafe DEF completions
<1>4. CASE observations
  BY <1>t, <1>4, InitializeSafe, RecoverSafe, ObservedSafe, TopologySafe, ExternalSafe
  DEF observations
<1>5. CASE settled BY <1>t, <1>5, SettledSafe
<1>6. CASE tick BY <1>t, <1>6, TickSafe
<1>7. CASE failures BY <1>t, <1>7, FailureSafe
<1>8. CASE UNCHANGED vars BY <1>t, <1>8 DEF vars, machine, flags, tokens
<1> QED BY <1>1, <1>2, <1>3, <1>4, <1>5, <1>6, <1>7, <1>8 DEF Next

\* The invariant the theorems below are read off from.
THEOREM SafetyInvariant == Spec => []SafetyInv
<1> HIDE DEF SafetyInv
<1> QED BY InitSafe, NextSafe, PTL DEF Spec

\* An active journal always has a deadline, a settle window, or a visible
\* stuck state that accounts for it.
THEOREM NothingStranded == Spec => []NoStrandedPreimage
BY SafetyInvariant, PTL

\* A completion is accepted exactly while a request is in flight, also after
\* the token counter wrapped.
THEOREM Fenced == Spec => []TokenFence
BY SafetyInvariant, PTL

\* Three rollback attempts, and stuck only after all three.
THEOREM Bounded == Spec => []AttemptsBounded
BY SafetyInvariant, PTL

\* An unsafe session never has a preview on trial.
THEOREM NeverForwardUnsafe == Spec => []UnsafeNeverForward
BY SafetyInvariant, PTL

\* No idle machine leaves a journal for a restarted service to roll back.
THEOREM NoOrphan == Spec => []NoOrphanJournal
BY SafetyInvariant, PTL

\* From the forward request on, any crash or power loss finds the preimage.
THEOREM Covered == Spec => []ForwardCovered
BY SafetyInvariant, PTL

\* Only the layout on screen is offered for confirmation.
THEOREM TargetShown == Spec => []AwaitingShowsTarget
BY SafetyInvariant, PTL

\* A draft is only previewed against the layout it was staged from.
THEOREM DraftFenced == Spec => []StagedFence
BY SafetyInvariant, PTL

-----------------------------------------------------------------------------
(* What a step may never do.                                                *)

\* While a request is under way no handler issues another one into Applying,
\* and from anywhere else preview is the only way there.
LEMMA OnlyPreviewApplies ==
    ASSUME SafetyInv, [Next]_vars, state' = "Applying",
           state # "Applying" \/ token' # token
    PROVE  preview
<1> USE DEF clearJournalThenReady, clearTransaction, enterStuck, beginRevert, keepSnapshot,
            dropStaged, recordRevert, startRevert, observedReady, observedStuck,
            settleTopology, abandonForExternalIntent, abandonAfterTopology,
            abandonDroppedDraft, machine, tokens
<1>1. CASE commands
  BY <1>1 DEF commands, stage, confirm, cancel, retryStuck
<1>2. CASE safetyEvents BY <1>2 DEF safetyEvents, prepareForSuspend, cancel, safetyChanged
<1>3. CASE completions
  BY <1>3 DEF completions, applyCompleted, applyCompletedForward, applyCompletedRevert,
              awaitConfirmation, scheduleRevertRetry
<1>4. CASE observations
  <2>1. PICK s \in Snapshot :
          initialize(s) \/ recover(s) \/ observedSnapshot(s) \/ topologyChanged(s)
            \/ externalIntentObserved(s)
    BY <1>4 DEF observations
  <2>2. ~initialize(s) /\ ~recover(s)
    BY DEF initialize, recover, recoverSettling, recoverClear, recoverRevert
  <2>3. ~topologyChanged(s) /\ ~externalIntentObserved(s)
    BY DEF topologyChanged, externalIntentObserved
  <2>4. ~observedSnapshot(s)
    BY <2>3 DEF observedSnapshot, observedApplying, observedObserving, observedUncertain,
                observedReverting, observedAwaiting, awaitConfirmation
  <2> QED BY <2>1, <2>2, <2>3, <2>4
<1>5. CASE settled BY <1>5 DEF settled, topologySettled
<1>6. CASE tick BY <1>6 DEF tick, tickForward, tickRevert, scheduleRevertRetry, issueRevertApply
<1>7. CASE failures
  BY <1>7 DEF failures, transportLost, processCrash, powerLoss, forgetMachine
<1>8. CASE UNCHANGED vars BY <1>8 DEF vars
<1> QED BY <1>1, <1>2, <1>3, <1>4, <1>5, <1>6, <1>7, <1>8 DEF Next

\* A forward request opens a transaction: no earlier record is held or on
\* disk, its own is durable and the session safe.  So neither a timeout nor a
\* retry nor a recovery sends it a second time.
THEOREM ForwardsOnce == Spec => ForwardOnce
<1>1. SafetyInv /\ [Next]_vars =>
        [state' = "Applying" /\ (state # "Applying" \/ token' # token) =>
           /\ safe /\ ~journalActive /\ disk.visible = NoJournal
           /\ disk'.durable = {journal}]_vars
  <2> SUFFICES ASSUME SafetyInv, [Next]_vars, state' = "Applying",
                      state # "Applying" \/ token' # token
               PROVE  /\ safe /\ ~journalActive /\ disk.visible = NoJournal
                      /\ disk'.durable = {journal}
    OBVIOUS
  <2>1. preview BY OnlyPreviewApplies
  <2>2. state = "Staged" /\ safe BY <2>1 DEF preview, mayPreview
  <2>3. ~journalActive BY <2>2 DEF NoStrandedPreimage
  <2>4. disk.visible = NoJournal BY <2>2 DEF NoOrphanJournal
  <2>5. storedDurably(journal) BY <2>1 DEF preview, retainUncertainJournalForCleanup
  <2>6. disk'.durable = {journal} BY <2>5 DEF storedDurably, Durable
  <2> QED BY <2>2, <2>3, <2>4, <2>6
<1> HIDE DEF SafetyInv
<1> QED BY <1>1, SafetyInvariant, PTL DEF Spec, ForwardOnce

LEMMA ReadyOnlyDurably ==
    ASSUME SafetyInv, [Next]_vars, journalActive, state' = "Ready"
    PROVE  disk' = Absent
<1> USE DEF clearJournalThenReady, enterStuck, beginRevert, keepSnapshot, storedDurably, Absent,
            recordRevert, startRevert, observedStuck,
            settleTopology, abandonForExternalIntent, abandonAfterTopology, machine
<1>0. state \notin {"Ready", "Staged", "Discovering"} OBVIOUS
<1>a. ~dropStaged BY <1>0 DEF dropStaged
<1>b. \A s : ~observedReady(s) BY <1>0 DEF observedReady
<1>1. CASE commands
  BY <1>0, <1>a, <1>1 DEF commands, stage, preview, mayPreview, confirm, cancel, retryStuck
<1>2. CASE safetyEvents
  BY <1>0, <1>a, <1>2 DEF safetyEvents, prepareForSuspend, cancel, safetyChanged
<1>3. CASE completions
  BY <1>3 DEF completions, applyCompleted, applyCompletedForward, applyCompletedRevert,
              awaitConfirmation, scheduleRevertRetry
<1>4. CASE observations
  <2>1. PICK s \in Snapshot :
          observedSnapshot(s) \/ topologyChanged(s) \/ externalIntentObserved(s)
    BY <1>0, <1>4 DEF observations, initialize, recover
  <2>2. CASE topologyChanged(s) BY <1>0, <1>a, <1>b, <2>2 DEF topologyChanged
  <2>3. CASE externalIntentObserved(s) BY <1>0, <1>a, <1>b, <2>3 DEF externalIntentObserved
  <2>4. CASE observedSnapshot(s)
    BY <1>0, <1>a, <1>b, <2>2, <2>4
       DEF observedSnapshot, observedApplying, observedObserving, observedUncertain,
           observedReverting, observedAwaiting, awaitConfirmation
  <2> QED BY <2>1, <2>2, <2>3, <2>4
<1>5. CASE settled BY <1>5 DEF settled, topologySettled
<1>6. CASE tick BY <1>6 DEF tick, tickForward, tickRevert, scheduleRevertRetry, issueRevertApply
<1>7. CASE failures
  BY <1>7 DEF failures, transportLost, processCrash, powerLoss, forgetMachine
<1>8. CASE UNCHANGED vars BY <1>0, <1>8 DEF vars
<1> QED BY <1>1, <1>2, <1>3, <1>4, <1>5, <1>6, <1>7, <1>8 DEF Next

\* The machine goes back to work only over a journal whose absence no power
\* loss can undo.
THEOREM ReadyDurably == Spec => ReadyIsDurable
<1>1. SafetyInv /\ [Next]_vars =>
        [journalActive /\ state' = "Ready" => disk' = Absent]_vars
  BY ReadyOnlyDurably
<1> HIDE DEF SafetyInv
<1> QED BY <1>1, SafetyInvariant, PTL DEF Spec, ReadyIsDurable

-----------------------------------------------------------------------------
(***************************************************************************)
(* How a transaction driven by the display service ends.  Beyond           *)
(* SafetyInv, the argument needs the scope of a rollback: the outputs it   *)
(* restores stay exactly those the preimage shares with the live set,      *)
(* because any change of the set goes back through the settle window.      *)
(***************************************************************************)

Trial == {"Applying", "Observing", "AwaitingConfirmation", "ResolvingUncertain"}
Rolling == {"RevertingApply", "RevertingObserve", "RevertBackoff"}

\* Before a rollback there is no scope yet, and the set has not changed since
\* the draft.
Unscoped ==
    /\ state \notin Rolling \cup {"Stuck"} => survivors = {}
    /\ state \in Trial \cup {"Staged"} => sameOutputSet(snap.layout, journal.preimage)

ScopeInv == Unscoped /\ RollbackScope

Inv == SafetyInv /\ ScopeInv


USE DEF Trial, Rolling, Timed

LEMMA SurvivorsExact ==
    ASSUME NEW l \in Layouts, NEW j \in Journal
    PROVE  \A o \in Output :
              o \in survivingProperties(l, j.preimage) <=>
                 o \in DOMAIN l /\ o \in DOMAIN j.preimage /\ j.preimage[o].on
BY DEF survivingProperties

LEMMA QuietScope ==
    ASSUME state' \notin Rolling \cup Trial \cup {"Staged"},
           state' # "Stuck" => survivors' = {}
    PROVE  ScopeInv'
BY DEF ScopeInv, Unscoped, RollbackScope

LEMMA ClearScope ==
    ASSUME NEW x, NEW surv, NEW D, clearJournalThenReady(x, surv, D)
    PROVE  ScopeInv'
BY QuietScope DEF clearJournalThenReady, clearTransaction, enterStuck

\* A rollback begun on the set of the preimage.
LEMMA SameSetScope ==
    ASSUME Inv, TypeInv', NEW s, NEW D, journal \in Journal,
           sameOutputSet(s.layout, journal.preimage),
           survivors = {}, snap' = s, beginRevert(s.layout, survivors, D)
    PROVE  ScopeInv'
<1>1. state' = "RevertingApply" /\ survivors' = {} BY DEF beginRevert
<1>2. journal'.preimage = journal.preimage BY DEF beginRevert, Journal
<1> QED BY <1>1, <1>2 DEF ScopeInv, Unscoped, RollbackScope, sameOutputSet

LEMMA KeepScope ==
    ASSUME Inv, NEW s, keepSnapshot(s),
           state \in Rolling \cup Trial => sameOutputSet(s.layout, snap.layout),
           state # "Staged"
    PROVE  ScopeInv'
BY DEF Inv, ScopeInv, Unscoped, RollbackScope, keepSnapshot, machine, sameOutputSet

LEMMA DropScope ==
    ASSUME dropStaged
    PROVE  ScopeInv'
BY QuietScope DEF dropStaged, clearTransaction

LEMMA SettleScope ==
    ASSUME NEW s, settleTopology(s) \/ abandonAfterTopology(s)
    PROVE  ScopeInv'
BY QuietScope DEF settleTopology, abandonAfterTopology

LEMMA StartRevertScope ==
    ASSUME Inv, TypeInv', startRevert, snap' = snap
    PROVE  ScopeInv'
<1>1. journal \in Journal BY DEF startRevert, Inv, SafetyInv, TypeInv, Shape
<1>2. survivors = {} /\ sameOutputSet(snap.layout, journal.preimage)
  BY DEF startRevert, Inv, ScopeInv, Unscoped
<1> QED BY <1>1, <1>2, SameSetScope DEF startRevert

LEMMA RecordRevertScope ==
    ASSUME Inv, recordRevert, snap' = snap
    PROVE  ScopeInv'
<1>1. journal \in Journal BY DEF recordRevert, Inv, SafetyInv, TypeInv, Shape
<1>2. journal'.preimage = journal.preimage BY <1>1 DEF recordRevert, Journal
<1> QED BY <1>2 DEF recordRevert, Inv, ScopeInv, Unscoped, RollbackScope

\* scheduleRevertRetry() and issueRevertApply() stay in the rollback.
LEMMA RetryScope ==
    ASSUME Inv, state \in Rolling, snap' = snap,
           scheduleRevertRetry \/ (issueRevertApply /\ UNCHANGED <<survivors, fresh>>)
    PROVE  ScopeInv'
<1>1. CASE state' = "Stuck" BY <1>1, QuietScope
<1>2. CASE state' # "Stuck"
  <2>1. state' \in Rolling /\ UNCHANGED <<journal, survivors>>
    BY <1>2 DEF scheduleRevertRetry, issueRevertApply, enterStuck
  <2> QED BY <2>1 DEF Inv, ScopeInv, Unscoped, RollbackScope
<1> QED BY <1>1, <1>2

LEMMA AwaitScope ==
    ASSUME Inv, TypeInv', state \in Trial, NEW s, snap' = s,
           sameOutputSet(s.layout, snap.layout), awaitConfirmation(s.layout)
    PROVE  ScopeInv'
<1>1. journal \in Journal BY DEF Inv, SafetyInv, TypeInv, Shape
<1>2. survivors = {} /\ sameOutputSet(s.layout, journal.preimage)
  BY DEF Inv, ScopeInv, Unscoped, sameOutputSet
<1>3. CASE beginRevert(s.layout, survivors, NotDurable(disk, journal))
  BY <1>1, <1>2, <1>3, SameSetScope
<1>4. CASE ~beginRevert(s.layout, survivors, NotDurable(disk, journal))
  <2>1. state' = "AwaitingConfirmation" /\ UNCHANGED <<journal, survivors>>
    BY <1>4 DEF awaitConfirmation
  <2> QED BY <1>2, <2>1 DEF ScopeInv, Unscoped, RollbackScope
<1> QED BY <1>3, <1>4

-----------------------------------------------------------------------------
(* One lemma per handler that can disturb the scope.                        *)

LEMMA RecoverScope ==
    ASSUME Inv, TypeInv', NEW s \in Snapshot, recover(s)
    PROVE  ScopeInv'
<1> DEFINE j == pending
<1>1. survivors = {} BY DEF recover, Inv, ScopeInv, Unscoped
<1>2. CASE recoverSettling(j) BY <1>1, <1>2, QuietScope DEF recoverSettling
<1>3. CASE recoverClear(j) BY <1>1, <1>3, QuietScope DEF recoverClear
<1>4. CASE ~recoverSettling(j) /\ ~recoverClear(j)
  <2>1. /\ sameOutputSet(s.layout, j.preimage) /\ snap' = s
        /\ state' = "RevertingApply" /\ journal' = j /\ survivors' = {}
    BY <1>1, <1>4 DEF recover, recoverRevert
  <2> QED BY <2>1 DEF ScopeInv, Unscoped, RollbackScope
<1> QED BY <1>2, <1>3, <1>4

LEMMA CompletedScope ==
    ASSUME Inv, TypeInv', NEW t, NEW outcome, applyCompleted(t, outcome)
    PROVE  ScopeInv'
<1>1. snap' = snap BY DEF applyCompleted
<1>2. CASE applyCompletedForward(outcome)
  <2>1. CASE awaitConfirmation(snap.layout)
    BY <1>1, <1>2, <2>1, AwaitScope DEF applyCompletedForward, sameOutputSet
  <2>2. CASE ~awaitConfirmation(snap.layout)
    <3>1. state = "Applying" /\ state' \in Trial /\ UNCHANGED <<journal, survivors>>
      BY <1>2, <2>2 DEF applyCompletedForward
    <3> QED BY <1>1, <3>1 DEF Inv, ScopeInv, Unscoped, RollbackScope
  <2> QED BY <2>1, <2>2
<1>3. CASE applyCompletedRevert(outcome)
  <2>1. CASE clearJournalThenReady(FALSE, survivors, {disk}) BY <2>1, ClearScope
  <2>2. CASE scheduleRevertRetry BY <1>1, <1>3, <2>2, RetryScope DEF applyCompletedRevert
  <2>3. CASE ~clearJournalThenReady(FALSE, survivors, {disk}) /\ ~scheduleRevertRetry
    <3>1. state \in Rolling /\ state' = "RevertingObserve" /\ UNCHANGED <<journal, survivors>>
      BY <1>3, <2>3 DEF applyCompletedRevert
    <3> QED BY <1>1, <3>1 DEF Inv, ScopeInv, Unscoped, RollbackScope
  <2> QED BY <2>1, <2>2, <2>3
<1> QED BY <1>2, <1>3 DEF applyCompleted

LEMMA SafetyScope ==
    ASSUME Inv, TypeInv', NEW value, safetyChanged(value)
    PROVE  ScopeInv'
<1>1. snap' = snap BY DEF safetyChanged
<1>2. CASE UNCHANGED <<machine, flags, tokens, pending, disk>>
  BY <1>1, <1>2 DEF Inv, ScopeInv, Unscoped, RollbackScope, machine
<1> QED BY <1>1, <1>2, DropScope, RecordRevertScope, StartRevertScope DEF safetyChanged

LEMMA CancelScope ==
    ASSUME Inv, TypeInv', cancel
    PROVE  ScopeInv'
BY DropScope, RecordRevertScope, StartRevertScope DEF cancel

LEMMA CommandsScope ==
    ASSUME Inv, TypeInv', commands, ~OpenDriver
    PROVE  ScopeInv'
<1>1. ASSUME NEW t \in Layouts, stage(t) PROVE ScopeInv'
  BY <1>1 DEF stage, Inv, ScopeInv, Unscoped, RollbackScope, sameOutputSet
<1>2. CASE preview
  <2>1. CASE state' = "Stuck" BY <2>1, QuietScope
  <2>2. CASE state' # "Stuck"
    BY <1>2, <2>2 DEF preview, mayPreview, retainUncertainJournalForCleanup, Inv, ScopeInv,
                      Unscoped, RollbackScope
  <2> QED BY <2>1, <2>2
<1>3. CASE confirm
  <2>1. CASE clearTransaction BY <2>1, QuietScope DEF clearTransaction
  <2>2. CASE ~clearTransaction
    BY <1>3, <2>2 DEF confirm, machine, Inv, ScopeInv, Unscoped, RollbackScope
  <2> QED BY <2>1, <2>2
<1>4. CASE cancel BY <1>4, CancelScope
<1> QED BY <1>1, <1>2, <1>3, <1>4 DEF commands

LEMMA StuckScope ==
    ASSUME Inv, NEW s, observedStuck(s)
    PROVE  ScopeInv'
<1>1. state' = "Stuck" BY DEF observedStuck, enterStuck
<1> QED BY <1>1, QuietScope

LEMMA TopologyScope ==
    ASSUME Inv, NEW s, topologyChanged(s)
    PROVE  ScopeInv'
<1>1. CASE observedReady(s) BY <1>1, KeepScope DEF observedReady
<1> QED BY <1>1, StuckScope, DropScope, SettleScope DEF topologyChanged

LEMMA ObservedScope ==
    ASSUME Inv, TypeInv', NEW s \in Snapshot, observedSnapshot(s)
    PROVE  ScopeInv'
<1>1. CASE observedReady(s) BY <1>1, KeepScope DEF observedReady
<1>2. CASE observedStuck(s) BY <1>2, StuckScope
<1>3. CASE settleTopology(s) BY <1>3, SettleScope
<1>4. CASE topologyChanged(s) BY <1>4, TopologyScope
<1>5. CASE sameOutputSet(s.layout, snap.layout) /\ observedApplying(s)
  BY <1>5 DEF observedApplying, machine, Inv, ScopeInv, Unscoped, RollbackScope, sameOutputSet
<1>6. CASE sameOutputSet(s.layout, snap.layout) /\ observedObserving(s)
  BY <1>6, AwaitScope, ClearScope, KeepScope DEF observedObserving
<1>7. CASE sameOutputSet(s.layout, snap.layout) /\ observedUncertain(s)
  <2>1. CASE beginRevert(s.layout, survivors, {disk}) /\ snap' = s
    <3>1. journal \in Journal
      BY <1>7 DEF observedUncertain, Inv, SafetyInv, TypeInv, Shape
    <3>2. survivors = {} /\ sameOutputSet(s.layout, journal.preimage)
      BY <1>7 DEF observedUncertain, Inv, ScopeInv, Unscoped, sameOutputSet
    <3> QED BY <2>1, <3>1, <3>2, SameSetScope
  <2>2. CASE keepSnapshot(s) BY <1>7, <2>2, KeepScope DEF observedUncertain
  <2> QED BY <1>7, <2>1, <2>2, ClearScope DEF observedUncertain
<1>8. CASE sameOutputSet(s.layout, snap.layout) /\ observedReverting(s)
  BY <1>8, ClearScope, KeepScope DEF observedReverting
<1>9. CASE sameOutputSet(s.layout, snap.layout) /\ observedAwaiting(s)
  <2>1. CASE keepSnapshot(s) BY <1>9, <2>1, KeepScope DEF observedAwaiting
  <2>2. CASE abandonForExternalIntent(s)
    BY <2>2, DropScope, ClearScope DEF abandonForExternalIntent
  <2> QED BY <1>9, <2>1, <2>2 DEF observedAwaiting
<1> QED BY <1>1, <1>2, <1>3, <1>4, <1>5, <1>6, <1>7, <1>8, <1>9 DEF observedSnapshot

LEMMA SettledScope ==
    ASSUME Inv, TypeInv', NEW s \in Snapshot, topologySettled(s)
    PROVE  ScopeInv'
<1> DEFINE pre == journal.preimage
           surv == IF sameOutputSet(s.layout, pre) THEN {}
                   ELSE survivingProperties(s.layout, pre)
<1>1. journal \in Journal
  BY DEF topologySettled, Inv, SafetyInv, TypeInv, Shape
<1>2. \/ clearJournalThenReady(FALSE, survivors, {disk})
      \/ clearJournalThenReady(FALSE, surv, {disk})
      \/ /\ ~(IF sameOutputSet(s.layout, pre) THEN s.layout = pre
              ELSE snapshotMatchesSurvivingProperties(s.layout, surv, pre))
         /\ beginRevert(s.layout, surv, {disk}) /\ snap' = s
  BY DEF topologySettled
<1>3. CASE clearJournalThenReady(FALSE, surv, {disk})
  <2> HIDE DEF surv
  <2> QED BY <1>3, ClearScope
<1>4. CASE /\ ~(IF sameOutputSet(s.layout, pre) THEN s.layout = pre
                ELSE snapshotMatchesSurvivingProperties(s.layout, surv, pre))
           /\ beginRevert(s.layout, surv, {disk}) /\ snap' = s
  <2>1. state' = "RevertingApply" /\ journal'.preimage = pre
    BY <1>1, <1>4 DEF beginRevert, Journal
  <2>2. CASE sameOutputSet(s.layout, pre)
    <3>1. survivors' = {} BY <1>4, <2>2 DEF beginRevert
    <3> QED BY <1>4, <2>1, <2>2, <3>1 DEF ScopeInv, Unscoped, RollbackScope
  <2>3. CASE ~sameOutputSet(s.layout, pre)
    <3>1. survivingProperties(s.layout, pre) # {}
      BY <1>4, <2>3 DEF snapshotMatchesSurvivingProperties
    <3>2. survivors' = survivingProperties(s.layout, pre)
      BY <1>4, <2>3, <3>1 DEF beginRevert
    <3>3. s.layout \in Layouts BY <1>1 DEF Snapshot
    <3>4. RollbackScope'
      BY <1>1, <1>4, <2>1, <2>3, <3>1, <3>2, <3>3, SurvivorsExact DEF RollbackScope
    <3> QED BY <2>1, <3>4 DEF ScopeInv, Unscoped
  <2> QED BY <2>2, <2>3
<1> QED BY <1>2, <1>3, <1>4, ClearScope

LEMMA TickScope ==
    ASSUME Inv, TypeInv', tick
    PROVE  ScopeInv'
<1>1. snap' = snap BY DEF tick
<1>2. CASE tickForward
  <2>1. state \in Trial /\ journal \in Journal
    BY <1>2 DEF tickForward, Inv, SafetyInv, TypeInv, Shape
  <2>2. survivors = {} /\ sameOutputSet(snap.layout, journal.preimage)
    BY <2>1 DEF Inv, ScopeInv, Unscoped
  <2>3. CASE beginRevert(snap.layout, survivors, {disk})
    BY <1>1, <2>1, <2>2, <2>3, SameSetScope
  <2>4. CASE state' = "ResolvingUncertain" /\ UNCHANGED <<journal, survivors>>
    BY <1>1, <2>2, <2>4 DEF ScopeInv, Unscoped, RollbackScope
  <2> QED BY <1>2, <2>3, <2>4 DEF tickForward
<1>3. CASE tickRevert BY <1>1, <1>3, RetryScope DEF tickRevert
<1> QED BY <1>2, <1>3 DEF tick

LEMMA FailureScope ==
    ASSUME failures
    PROVE  ScopeInv'
BY QuietScope DEF failures, transportLost, processCrash, powerLoss, forgetMachine

-----------------------------------------------------------------------------

LEMMA NextScope == Inv /\ [Next]_vars /\ ~OpenDriver => Inv'
<1> SUFFICES ASSUME Inv, [Next]_vars, ~OpenDriver PROVE Inv'
  OBVIOUS
<1>t. TypeInv' /\ SafetyInv' BY NextTyped, NextSafe DEF Inv, SafetyInv
<1>s. ScopeInv'
  <2>1. CASE commands BY <1>t, <2>1, CommandsScope
  <2>2. CASE safetyEvents
    BY <1>t, <2>2, SafetyScope, CancelScope DEF safetyEvents, prepareForSuspend
  <2>3. CASE completions BY <1>t, <2>3, CompletedScope DEF completions
  <2>4. CASE observations
    <3>1. ASSUME NEW s, initialize(s) PROVE ScopeInv'
      BY <3>1, QuietScope DEF initialize, Inv, ScopeInv, Unscoped
    <3>2. ASSUME NEW s, state = "Staged", sameOutputSet(s.layout, snap.layout),
                 externalIntentObserved(s)
          PROVE  ScopeInv'
      <4>1. abandonForExternalIntent(s)
        BY <3>2 DEF externalIntentObserved, observedReady
      <4> QED BY <4>1, DropScope, ClearScope DEF abandonForExternalIntent
    <3> QED BY <1>t, <2>4, <3>1, <3>2, RecoverScope, ObservedScope DEF observations
  <2>5. CASE settled
    <3>1. topologySettled(snap) /\ snap \in Snapshot
      BY <2>5 DEF settled, topologySettled, Inv, SafetyInv, TypeInv, Shape
    <3> QED BY <1>t, <3>1, SettledScope
  <2>6. CASE tick BY <1>t, <2>6, TickScope
  <2>7. CASE failures BY <2>7, FailureScope
  <2>8. CASE UNCHANGED vars
    BY <2>8 DEF vars, machine, Inv, ScopeInv, Unscoped, RollbackScope
  <2> QED BY <2>1, <2>2, <2>3, <2>4, <2>5, <2>6, <2>7, <2>8 DEF Next
<1> QED BY <1>t, <1>s DEF Inv

LEMMA InitScope == Init => Inv
BY InitSafe DEF Init, Inv, ScopeInv, Unscoped, RollbackScope

\* Under the display service a rollback touches exactly the outputs it should,
\* through its retries and whatever is plugged meanwhile.
THEOREM Scoped == ~OpenDriver => (Spec => []RollbackScope)
<1> SUFFICES ASSUME ~OpenDriver PROVE Spec => []RollbackScope
  OBVIOUS
<1>1. Inv /\ [Next]_vars => Inv' BY NextScope
<1>2. Inv => RollbackScope BY DEF Inv, ScopeInv
<1> QED BY <1>1, <1>2, InitScope, PTL DEF Spec

-----------------------------------------------------------------------------
(* How a transaction ends.                                                  *)

Ends == journalActive /\ state' = "Ready"

Consented ==
    \/ state = "AwaitingConfirmation" /\ snap' = snap /\ snap.layout = journal.target
    \/ Restored(snap'.layout, journal.preimage)
    \/ state = "AwaitingConfirmation" /\ snap'.layout # snap.layout
    \/ cleanupOnly \/ (state = "SettlingTopology" /\ abandonAfterSettle)

LEMMA ExactRestored ==
    ASSUME NEW l, l = journal.preimage
    PROVE  Restored(l, journal.preimage)
BY DEF Restored

\* Matching the surviving properties is restoring what survives.
LEMMA SurvivingRestored ==
    ASSUME NEW l \in Layouts, journal \in Journal, NEW surv,
           ~sameOutputSet(l, journal.preimage),
           \A o \in Output : o \in surv <=> /\ o \in DOMAIN l
                                            /\ o \in DOMAIN journal.preimage
                                            /\ journal.preimage[o].on,
           snapshotMatchesSurvivingProperties(l, surv, journal.preimage)
    PROVE  Restored(l, journal.preimage)
<1>1. DOMAIN l \subseteq Output BY LayoutsAssumption
<1> QED BY <1>1 DEF Restored, sameOutputSet, snapshotMatchesSurvivingProperties

LEMMA ObservedEnds ==
    ASSUME Inv, NEW s \in Snapshot, observedSnapshot(s), Ends
    PROVE  Consented
<1>0. journalActive /\ state' = "Ready" /\ state \notin {"Ready", "Staged", "Discovering"}
  BY DEF Ends, Inv, SafetyInv, NoStrandedPreimage
<1>1. ~observedReady(s) /\ ~observedStuck(s) /\ ~settleTopology(s) /\ ~topologyChanged(s)
  BY <1>0 DEF observedReady, observedStuck, enterStuck, settleTopology, topologyChanged, dropStaged
<1>2. ~observedApplying(s) BY <1>0 DEF observedApplying, machine
<1>3. sameOutputSet(s.layout, snap.layout) /\ snap' = s /\ journal \in Journal
      /\ s.layout \in Layouts
  BY <1>0, <1>1, <1>2 DEF observedSnapshot, observedObserving, observedUncertain,
       observedReverting, observedAwaiting, abandonForExternalIntent, keepSnapshot,
       Inv, SafetyInv, TypeInv, Shape, Snapshot
<1>4. CASE observedObserving(s)
  <2>1. s.layout = journal.preimage
    BY <1>0, <1>4 DEF observedObserving, awaitConfirmation, beginRevert, keepSnapshot, machine
  <2> QED BY <1>3, <2>1, ExactRestored DEF Consented
<1>5. CASE observedUncertain(s)
  <2>1. s.layout = journal.preimage
    BY <1>0, <1>5 DEF observedUncertain, beginRevert, keepSnapshot, machine
  <2> QED BY <1>3, <2>1, ExactRestored DEF Consented
<1>6. CASE observedReverting(s)
  <2>1. /\ state = "RevertingObserve"
        /\ IF survivors = {} THEN s.layout = journal.preimage
           ELSE snapshotMatchesSurvivingProperties(s.layout, survivors, journal.preimage)
    BY <1>0, <1>6 DEF observedReverting, keepSnapshot, machine
  <2>2. CASE survivors = {} BY <1>3, <2>1, <2>2, ExactRestored DEF Consented
  <2>3. CASE survivors # {}
    <3>1. /\ ~sameOutputSet(snap.layout, journal.preimage)
          /\ \A o \in Output : o \in survivors <=> /\ o \in DOMAIN snap.layout
                                                   /\ o \in DOMAIN journal.preimage
                                                   /\ journal.preimage[o].on
      BY <2>1, <2>3 DEF Inv, ScopeInv, RollbackScope
    <3>2. Restored(s.layout, journal.preimage)
      BY <1>3, <2>1, <2>3, <3>1, SurvivingRestored DEF sameOutputSet
    <3> QED BY <1>3, <3>2 DEF Consented
  <2> QED BY <2>2, <2>3
<1>7. CASE observedAwaiting(s)
  BY <1>0, <1>3, <1>7 DEF observedAwaiting, keepSnapshot, machine, Consented
<1> QED BY <1>1, <1>2, <1>4, <1>5, <1>6, <1>7 DEF observedSnapshot

LEMMA SettledEnds ==
    ASSUME Inv, NEW s \in Snapshot, topologySettled(s), Ends
    PROVE  Consented
<1> DEFINE pre == journal.preimage
           surv == IF sameOutputSet(s.layout, pre) THEN {}
                   ELSE survivingProperties(s.layout, pre)
<1>1. journal \in Journal /\ s.layout \in Layouts /\ snap' = s
  BY DEF topologySettled, Inv, SafetyInv, TypeInv, Shape, Snapshot
<1>2. CASE abandonAfterSettle BY <1>2 DEF topologySettled, Consented
<1>3. CASE ~abandonAfterSettle
  <2>1. IF sameOutputSet(s.layout, pre) THEN s.layout = pre
        ELSE snapshotMatchesSurvivingProperties(s.layout, surv, pre)
    BY <1>3 DEF topologySettled, beginRevert, Ends
  <2>2. CASE sameOutputSet(s.layout, pre) BY <1>1, <2>1, <2>2, ExactRestored DEF Consented
  <2>3. CASE ~sameOutputSet(s.layout, pre)
    <3>1. Restored(s.layout, pre)
      BY <1>1, <2>1, <2>3, SurvivorsExact, SurvivingRestored
    <3> QED BY <1>1, <3>1 DEF Consented
  <2> QED BY <2>2, <2>3
<1> QED BY <1>2, <1>3

LEMMA StepEnds ==
    ASSUME Inv, [Next]_vars, ~OpenDriver, Ends
    PROVE  Consented
<1>0. journalActive /\ state' = "Ready" /\ state \notin {"Ready", "Staged", "Discovering"}
  BY DEF Ends, Inv, SafetyInv, NoStrandedPreimage
<1> USE DEF clearTransaction, enterStuck, beginRevert, keepSnapshot, recordRevert, startRevert,
            machine
<1>a. ~dropStaged BY <1>0 DEF dropStaged
<1>1. CASE commands
  <2>1. confirm
    BY <1>0, <1>a, <1>1 DEF commands, stage, preview, mayPreview, cancel
  <2> QED BY <2>1 DEF confirm, Consented, Inv, SafetyInv, AwaitingShowsTarget
<1>2. CASE safetyEvents
  BY <1>0, <1>a, <1>2 DEF safetyEvents, prepareForSuspend, cancel, safetyChanged
<1>3. CASE completions
  <2>1. snap' = snap /\ snap.layout = journal.preimage
    BY <1>0, <1>3 DEF completions, applyCompleted, applyCompletedForward,
         applyCompletedRevert, awaitConfirmation, scheduleRevertRetry
  <2> QED BY <2>1, ExactRestored DEF Consented
<1>4. CASE observations
  <2>1. PICK s \in Snapshot : observedSnapshot(s)
    BY <1>0, <1>4 DEF observations, initialize, recover
  <2> QED BY <2>1, ObservedEnds
<1>5. CASE settled
  <2>1. topologySettled(snap) /\ snap \in Snapshot
    BY <1>5 DEF settled, topologySettled, Inv, SafetyInv, TypeInv, Shape
  <2> QED BY <2>1, SettledEnds
<1>6. CASE tick
  BY <1>0, <1>6 DEF tick, tickForward, tickRevert, scheduleRevertRetry, issueRevertApply
<1>7. CASE failures
  BY <1>0, <1>7 DEF failures, transportLost, processCrash, powerLoss, forgetMachine
<1>8. CASE UNCHANGED vars BY <1>0, <1>8 DEF vars
<1> QED BY <1>1, <1>2, <1>3, <1>4, <1>5, <1>6, <1>7, <1>8 DEF Next

\* A transaction the display service drives ends with the user's consent to
\* what is on screen, with the preimage or its survivors back on screen, or
\* because someone else changed the layout - never by a race of the three.
THEOREM RestoresOrConsents == ~OpenDriver => (Spec => RestoreOrConsent)
<1> SUFFICES ASSUME ~OpenDriver PROVE Spec => RestoreOrConsent
  OBVIOUS
<1>1. Inv /\ [Next]_vars => Inv' BY NextScope
<1>2. Inv /\ [Next]_vars =>
        [journalActive /\ state' = "Ready" =>
           \/ state = "AwaitingConfirmation" /\ snap' = snap /\ snap.layout = journal.target
           \/ Restored(snap'.layout, journal.preimage)
           \/ state = "AwaitingConfirmation" /\ snap'.layout # snap.layout
           \/ cleanupOnly \/ (state = "SettlingTopology" /\ abandonAfterSettle)]_vars
  BY StepEnds DEF Ends, Consented
<1> QED BY <1>1, <1>2, InitScope, PTL DEF Spec, RestoreOrConsent
=============================================================================
