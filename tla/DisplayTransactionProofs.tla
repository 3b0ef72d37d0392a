---------------------- MODULE DisplayTransactionProofs ----------------------
(***************************************************************************)
(* Proofs about DisplayTransaction, for every set of outputs and layouts,  *)
(* every bound, and both drivers.                                          *)
(***************************************************************************)
EXTENDS DisplayTransaction, TLAPS

\* What the types alone do not say: past Discovering there is a snapshot,
\* and past Ready there is a journal record to work with.
Shape ==
    /\ state # "Discovering" => snap \in Snapshot
    /\ state \notin {"Discovering", "Ready"} => journal \in Journal

TypeInv == TypeOK /\ Shape

USE DEF TypeInv, TypeOK, Shape, States, Timed

-----------------------------------------------------------------------------
(* What the helpers return.                                                 *)

LEMMA NextTokenTyped ==
    ASSUME NEW t \in 1 .. MaxToken
    PROVE  nextTokenAfter(t) \in 1 .. MaxToken
BY BoundsAssumption DEF nextTokenAfter

LEMMA AbandonTyped ==
    ASSUME NEW j \in Journal, NEW b \in BOOLEAN
    PROVE  [j EXCEPT !.abandon = b] \in Journal
BY DEF Journal

LEMMA SurvivorsTyped ==
    ASSUME NEW l \in Layouts, NEW m
    PROVE  survivingProperties(l, m) \subseteq Output
BY LayoutsAssumption DEF survivingProperties

LEMMA WrittenTyped ==
    ASSUME NEW d \in Disk, NEW v \in Journal \cup {NoJournal}
    PROVE  Written(d, v) \subseteq Disk /\ Durable(v) \in Disk
BY DEF Disk, Written, NotDurable, Uncertain, Durable

LEMMA WrittenFromTyped ==
    ASSUME NEW D \in SUBSET Disk, NEW v \in Journal \cup {NoJournal}
    PROVE  WrittenFrom(D, v) \subseteq Disk
BY WrittenTyped DEF WrittenFrom

LEMMA FailedClearTyped ==
    ASSUME NEW D \in SUBSET Disk
    PROVE  FailedClear(D) \subseteq Disk
BY DEF Disk, FailedClear, NotDurable, Uncertain

LEMMA AbsentTyped == Absent \in Disk
BY DEF Disk, Absent, Durable

-----------------------------------------------------------------------------
(* The common endings of the handlers keep the types.                       *)

LEMMA ClearTyped ==
    ASSUME TypeInv, clearTransaction, disk' \in Disk, snap' \in Snapshot,
           safe' \in BOOLEAN
    PROVE  TypeInv'
<1>1. state' = "Ready" BY DEF clearTransaction
<1>2. attempt' \in 0 .. kMaximumRevertAttempts BY DEF clearTransaction, kMaximumRevertAttempts
<1>3. token' \in 0 .. MaxToken /\ nextToken' \in 1 .. MaxToken
  BY BoundsAssumption DEF clearTransaction
<1> QED BY <1>1, <1>2, <1>3 DEF clearTransaction

LEMMA StuckTyped ==
    ASSUME TypeInv, journal \in Journal,
           NEW c \in BOOLEAN, NEW x \in BOOLEAN, NEW D \in SUBSET Disk,
           enterStuck(c, x, D), survivors' \subseteq Output, fresh' \in BOOLEAN,
           snap' \in Snapshot, safe' \in BOOLEAN
    PROVE  TypeInv'
<1>1. journal' \in Journal BY AbandonTyped DEF enterStuck
<1>2. disk' \in Disk BY <1>1, WrittenFromTyped DEF enterStuck
<1>3. state' = "Stuck" BY DEF enterStuck
<1>4. attempt' \in 0 .. kMaximumRevertAttempts BY DEF enterStuck, kMaximumRevertAttempts
<1>5. token' \in 0 .. MaxToken /\ nextToken' \in 1 .. MaxToken
  BY BoundsAssumption DEF enterStuck
<1>6. /\ journalActive' \in BOOLEAN /\ armed' \in BOOLEAN /\ revertRequested' \in BOOLEAN
      /\ abandonAfterSettle' \in BOOLEAN /\ cleanupOnly' \in BOOLEAN
      /\ pending' \in Journal \cup {NoJournal}
  BY DEF enterStuck
<1> QED BY <1>1, <1>2, <1>3, <1>4, <1>5, <1>6

LEMMA ClearThenReadyTyped ==
    ASSUME TypeInv, journal \in Journal,
           NEW x \in BOOLEAN, NEW surv \in SUBSET Output, NEW D \in SUBSET Disk,
           clearJournalThenReady(x, surv, D), snap' \in Snapshot, safe' \in BOOLEAN
    PROVE  TypeInv'
<1>1. CASE storedDurably(NoJournal) /\ clearTransaction
  BY <1>1, ClearTyped, AbsentTyped DEF storedDurably, Absent
<1>2. CASE enterStuck(TRUE, x, FailedClear(D)) /\ survivors' = surv /\ UNCHANGED fresh
  BY <1>2, StuckTyped, FailedClearTyped
<1> QED BY <1>1, <1>2 DEF clearJournalThenReady

LEMMA BeginRevertTyped ==
    ASSUME TypeInv, journal \in Journal,
           NEW l \in Layouts, NEW surv \in SUBSET Output, NEW D \in SUBSET Disk,
           beginRevert(l, surv, D), fresh' \in BOOLEAN, snap' \in Snapshot,
           safe' \in BOOLEAN
    PROVE  TypeInv'
<1>1. journal' \in Journal BY AbandonTyped DEF beginRevert
<1>2. disk' \in Disk BY <1>1, WrittenFromTyped DEF beginRevert
<1>3. state' = "RevertingApply" BY DEF beginRevert
<1>4. attempt' \in 0 .. kMaximumRevertAttempts BY DEF beginRevert, kMaximumRevertAttempts
<1>5. token' \in 0 .. MaxToken /\ nextToken' \in 1 .. MaxToken
  BY NextTokenTyped DEF beginRevert
<1>6. survivors' \subseteq Output BY SurvivorsTyped DEF beginRevert
<1>7. /\ journalActive' \in BOOLEAN /\ armed' \in BOOLEAN /\ revertRequested' \in BOOLEAN
      /\ abandonAfterSettle' \in BOOLEAN /\ cleanupOnly' \in BOOLEAN
      /\ pending' \in Journal \cup {NoJournal}
  BY DEF beginRevert, installDeadline
<1> QED BY <1>1, <1>2, <1>3, <1>4, <1>5, <1>6, <1>7

LEMMA ScheduleTyped ==
    ASSUME TypeInv, journal \in Journal, scheduleRevertRetry,
           snap' \in Snapshot, safe' \in BOOLEAN
    PROVE  TypeInv'
<1>1. CASE attemptsExhausted
  BY <1>1, StuckTyped DEF scheduleRevertRetry
<1>2. CASE ~attemptsExhausted
  <2>1. token' \in 0 .. MaxToken /\ nextToken' \in 1 .. MaxToken
    BY <1>2, BoundsAssumption DEF scheduleRevertRetry
  <2>2. state' = "RevertBackoff" /\ armed' = TRUE
    BY <1>2 DEF scheduleRevertRetry, installDeadline
  <2> QED BY <1>2, <2>1, <2>2 DEF scheduleRevertRetry
<1> QED BY <1>1, <1>2

LEMMA IssueTyped ==
    ASSUME TypeInv, journal \in Journal, issueRevertApply, UNCHANGED <<survivors, fresh>>,
           snap' \in Snapshot, safe' \in BOOLEAN
    PROVE  TypeInv'
<1>1. CASE attemptsExhausted
  BY <1>1, StuckTyped DEF issueRevertApply
<1>2. CASE ~attemptsExhausted
  <2>1. token' \in 0 .. MaxToken /\ nextToken' \in 1 .. MaxToken
    BY <1>2, NextTokenTyped DEF issueRevertApply
  <2>2. state' = "RevertingApply" /\ armed' = TRUE
    BY <1>2 DEF issueRevertApply, installDeadline
  <2>3. attempt' \in 0 .. kMaximumRevertAttempts
    BY <1>2 DEF issueRevertApply, attemptsExhausted, kMaximumRevertAttempts
  <2>4. disk' \in Disk BY <1>2, WrittenTyped DEF issueRevertApply
  <2> QED BY <1>2, <2>1, <2>2, <2>3, <2>4 DEF issueRevertApply
<1> QED BY <1>1, <1>2

LEMMA KeepTyped ==
    ASSUME TypeInv, NEW s \in Snapshot, keepSnapshot(s)
    PROVE  TypeInv'
BY DEF keepSnapshot, machine, flags, tokens

-----------------------------------------------------------------------------
(* One lemma per handler.                                                   *)

LEMMA InitTyped == Init => TypeInv
<1> SUFFICES ASSUME Init PROVE TypeInv
  OBVIOUS
<1>1. disk \in Disk BY AbsentTyped DEF Init
<1>2. attempt \in 0 .. kMaximumRevertAttempts BY DEF Init, kMaximumRevertAttempts
<1>3. token \in 0 .. MaxToken /\ nextToken \in 1 .. MaxToken BY BoundsAssumption DEF Init
<1> QED BY <1>1, <1>2, <1>3 DEF Init

LEMMA InitializeTyped ==
    ASSUME TypeInv, NEW s \in Snapshot, initialize(s)
    PROVE  TypeInv'
BY DEF initialize, flags, tokens

LEMMA RecoverTyped ==
    ASSUME TypeInv, NEW s \in Snapshot, recover(s)
    PROVE  TypeInv'
<1> DEFINE j == pending
<1>1. j \in Journal BY DEF recover
<1>2. snap' \in Snapshot /\ pending' = NoJournal /\ safe' = safe BY DEF recover
<1>3. CASE recoverSettling(j)
  <2>1. disk' \in Disk BY <1>1, <1>3, WrittenTyped DEF recoverSettling
  <2>2. j.abandon \in BOOLEAN BY <1>1 DEF Journal
  <2> QED BY <1>1, <1>2, <1>3, <2>1, <2>2 DEF recoverSettling, tokens
<1>4. CASE recoverClear(j)
  <2>1. CASE storedDurably(NoJournal) /\ state' = "Ready"
             /\ UNCHANGED <<journal, journalActive, survivors, attempt, armed, flags, tokens>>
    BY <1>2, <2>1, AbsentTyped DEF storedDurably, Absent, flags, tokens
  <2>2. CASE ~(storedDurably(NoJournal) /\ state' = "Ready"
               /\ UNCHANGED <<journal, journalActive, survivors, attempt, armed, flags, tokens>>)
    <3>1. /\ state' = "Stuck" /\ cleanupOnly' = TRUE
          /\ journal' = [j EXCEPT !.abandon = FALSE] /\ journalActive' = TRUE
          /\ disk' \in WrittenFrom(FailedClear({disk}), journal')
          /\ UNCHANGED <<survivors, attempt, armed, revertRequested, abandonAfterSettle,
                         fresh, tokens>>
      BY <1>4, <2>2 DEF recoverClear
    <3>2. journal' \in Journal BY <1>1, <3>1, AbandonTyped
    <3>3. disk' \in Disk BY <3>1, <3>2, FailedClearTyped, WrittenFromTyped
    <3> QED BY <1>2, <3>1, <3>2, <3>3 DEF tokens
  <2> QED BY <2>1, <2>2
<1>5. CASE recoverRevert(j)
  <2>1. disk' \in Disk BY <1>1, <1>5, WrittenTyped DEF recoverRevert
  <2>2. token' \in 0 .. MaxToken /\ nextToken' \in 1 .. MaxToken
    BY <1>5, NextTokenTyped DEF recoverRevert
  <2>3. attempt' \in 0 .. kMaximumRevertAttempts
    BY <1>5 DEF recoverRevert, kMaximumRevertAttempts
  <2>4. armed' \in BOOLEAN BY <1>5 DEF recoverRevert, installDeadline
  <2> QED BY <1>1, <1>2, <1>5, <2>1, <2>2, <2>3, <2>4 DEF recoverRevert, flags
<1> QED BY <1>3, <1>4, <1>5 DEF recover

LEMMA StageTyped ==
    ASSUME TypeInv, NEW t \in Layouts, stage(t)
    PROVE  TypeInv'
<1>1. snap \in Snapshot BY DEF stage
<1>2. journal' \in Journal BY <1>1 DEF stage, Snapshot, Journal, sameOutputSet
<1> QED BY <1>1, <1>2 DEF stage, flags, tokens

LEMMA PreviewTyped ==
    ASSUME TypeInv, preview
    PROVE  TypeInv'
<1>1. journal \in Journal /\ snap \in Snapshot BY DEF preview, mayPreview
<1>2. CASE state' = "Applying"
  <2>1. disk' = Durable(journal) /\ armed' = TRUE /\ journalActive' = TRUE /\ fresh' = FALSE
        /\ token' = nextToken /\ nextToken' = nextTokenAfter(nextToken)
        /\ UNCHANGED <<safe, snap, pending, journal, survivors, attempt, revertRequested,
                       abandonAfterSettle, cleanupOnly>>
    BY <1>2 DEF preview, storedDurably, installDeadline, retainUncertainJournalForCleanup
  <2>2. disk' \in Disk BY <1>1, <2>1, WrittenTyped
  <2>3. token' \in 0 .. MaxToken /\ nextToken' \in 1 .. MaxToken BY <2>1, NextTokenTyped
  <2> QED BY <1>1, <1>2, <2>1, <2>2, <2>3
<1>3. CASE state' # "Applying"
  <2>1. disk' = Uncertain(disk, journal) /\ retainUncertainJournalForCleanup
        /\ UNCHANGED <<safe, snap, pending>>
    BY <1>3 DEF preview
  <2>2. disk' \in Disk BY <1>1, <2>1 DEF Disk, Uncertain
  <2>3. token' \in 0 .. MaxToken /\ nextToken' \in 1 .. MaxToken
    BY <2>1, BoundsAssumption DEF retainUncertainJournalForCleanup
  <2>4. attempt' \in 0 .. kMaximumRevertAttempts
    BY <2>1 DEF retainUncertainJournalForCleanup, kMaximumRevertAttempts
  <2> QED BY <1>1, <2>1, <2>2, <2>3, <2>4 DEF retainUncertainJournalForCleanup
<1> QED BY <1>2, <1>3

LEMMA ConfirmTyped ==
    ASSUME TypeInv, confirm
    PROVE  TypeInv'
<1>1. snap \in Snapshot /\ snap' = snap /\ safe' = safe BY DEF confirm
<1>2. CASE storedDurably(NoJournal) /\ clearTransaction
  BY <1>1, <1>2, ClearTyped, AbsentTyped DEF storedDurably, Absent
<1>3. CASE /\ disk' \in NotDurable(disk, NoJournal)
           /\ UNCHANGED <<machine, flags, tokens, pending>>
  <2>1. disk' \in Disk BY <1>3, WrittenTyped DEF Written
  <2> QED BY <1>1, <1>3, <2>1 DEF machine, flags, tokens
<1> QED BY <1>2, <1>3 DEF confirm

LEMMA DropStagedTyped ==
    ASSUME TypeInv, dropStaged, snap' \in Snapshot, safe' \in BOOLEAN
    PROVE  TypeInv'
BY ClearTyped DEF dropStaged

LEMMA RecordRevertTyped ==
    ASSUME TypeInv, recordRevert, snap' = snap, safe' \in BOOLEAN
    PROVE  TypeInv'
<1>1. journal \in Journal /\ snap \in Snapshot BY DEF recordRevert
<1>2. journal' \in Journal BY <1>1, AbandonTyped DEF recordRevert
<1>3. disk' \in Disk BY <1>2, WrittenTyped DEF recordRevert
<1> QED BY <1>1, <1>2, <1>3 DEF recordRevert, tokens

LEMMA StartRevertTyped ==
    ASSUME TypeInv, startRevert, snap' = snap, safe' \in BOOLEAN
    PROVE  TypeInv'
<1>1. journal \in Journal /\ snap \in Snapshot BY DEF startRevert
<1>2. snap.layout \in Layouts BY <1>1 DEF Snapshot
<1>3. beginRevert(snap.layout, survivors, {disk}) /\ fresh' = fresh BY DEF startRevert
<1> QED BY <1>1, <1>2, <1>3, BeginRevertTyped

LEMMA SafetyTyped ==
    ASSUME TypeInv, NEW value \in BOOLEAN, safetyChanged(value)
    PROVE  TypeInv'
<1>1. safe' \in BOOLEAN /\ snap' = snap BY DEF safetyChanged
<1>2. CASE UNCHANGED <<machine, flags, tokens, pending, disk>>
  BY <1>1, <1>2 DEF machine, flags, tokens
<1>3. CASE dropStaged
  <2>1. snap \in Snapshot BY <1>3 DEF dropStaged
  <2> QED BY <1>1, <1>3, <2>1, DropStagedTyped
<1>4. CASE recordRevert BY <1>1, <1>4, RecordRevertTyped
<1>5. CASE startRevert BY <1>1, <1>5, StartRevertTyped
<1> QED BY <1>2, <1>3, <1>4, <1>5 DEF safetyChanged

LEMMA CancelTyped ==
    ASSUME TypeInv, cancel
    PROVE  TypeInv'
<1>1. safe' \in BOOLEAN /\ snap' = snap BY DEF cancel
<1>2. CASE dropStaged
  <2>1. snap \in Snapshot BY <1>2 DEF dropStaged
  <2> QED BY <1>1, <1>2, <2>1, DropStagedTyped
<1>3. CASE recordRevert BY <1>1, <1>3, RecordRevertTyped
<1>4. CASE startRevert BY <1>1, <1>4, StartRevertTyped
<1> QED BY <1>2, <1>3, <1>4 DEF cancel

LEMMA AwaitTyped ==
    ASSUME TypeInv, journal \in Journal, NEW l \in Layouts, awaitConfirmation(l),
           snap' \in Snapshot, safe' \in BOOLEAN
    PROVE  TypeInv'
<1>1. fresh' = FALSE BY DEF awaitConfirmation
<1>2. CASE beginRevert(l, survivors, NotDurable(disk, journal))
  <2>1. NotDurable(disk, journal) \subseteq Disk BY WrittenTyped DEF Written
  <2> QED BY <1>1, <1>2, <2>1, BeginRevertTyped
<1>3. CASE ~beginRevert(l, survivors, NotDurable(disk, journal))
  <2>1. /\ disk' = Durable(journal)
        /\ state' = "AwaitingConfirmation" /\ armed' = TRUE
        /\ token' = 0 /\ UNCHANGED nextToken
        /\ UNCHANGED <<journal, journalActive, survivors, attempt, revertRequested,
                       abandonAfterSettle, cleanupOnly, pending>>
    BY <1>3 DEF awaitConfirmation, storedDurably, installDeadline
  <2>2. disk' \in Disk BY <2>1, WrittenTyped
  <2>3. token' \in 0 .. MaxToken BY <2>1, BoundsAssumption
  <2> QED BY <1>1, <2>1, <2>2, <2>3
<1> QED BY <1>2, <1>3

LEMMA CompletedTyped ==
    ASSUME TypeInv, NEW t, NEW outcome, applyCompleted(t, outcome)
    PROVE  TypeInv'
<1>1. safe' = safe /\ snap' = snap BY DEF applyCompleted
<1>2. state \in {"Applying", "RevertingApply"}
  BY DEF applyCompleted, applyCompletedForward, applyCompletedRevert
<1>3. journal \in Journal /\ snap \in Snapshot BY <1>2
<1>4. snap.layout \in Layouts BY <1>3 DEF Snapshot
<1>5. CASE applyCompletedForward(outcome)
  <2>1. CASE awaitConfirmation(snap.layout) BY <1>1, <1>3, <1>4, <2>1, AwaitTyped
  <2>2. CASE ~awaitConfirmation(snap.layout)
    <3>1. /\ state' \in {"ResolvingUncertain", "Observing"}
          /\ fresh' = FALSE /\ token' = 0 /\ armed' = TRUE
          /\ UNCHANGED <<journal, journalActive, survivors, attempt, revertRequested,
                         abandonAfterSettle, cleanupOnly, nextToken, pending, disk>>
      BY <1>5, <2>2 DEF applyCompletedForward, installDeadline
    <3>2. token' \in 0 .. MaxToken BY <3>1, BoundsAssumption
    <3> QED BY <1>1, <1>3, <3>1, <3>2
  <2> QED BY <2>1, <2>2
<1>6. CASE applyCompletedRevert(outcome)
  <2>1. CASE clearJournalThenReady(FALSE, survivors, {disk})
    BY <1>1, <1>3, <2>1, ClearThenReadyTyped
  <2>2. CASE scheduleRevertRetry BY <1>1, <1>3, <2>2, ScheduleTyped
  <2>3. CASE ~clearJournalThenReady(FALSE, survivors, {disk}) /\ ~scheduleRevertRetry
    <3>1. /\ state' = "RevertingObserve" /\ token' = 0 /\ armed' = TRUE
          /\ UNCHANGED <<journal, journalActive, survivors, attempt, flags,
                         nextToken, pending, disk>>
      BY <1>6, <2>3 DEF applyCompletedRevert, installDeadline
    <3>2. token' \in 0 .. MaxToken BY <3>1, BoundsAssumption
    <3> QED BY <1>1, <1>3, <3>1, <3>2 DEF flags
  <2> QED BY <2>1, <2>2, <2>3
<1> QED BY <1>5, <1>6 DEF applyCompleted

LEMMA SettleTyped ==
    ASSUME TypeInv, journal \in Journal, NEW s \in Snapshot, settleTopology(s)
    PROVE  TypeInv'
<1>1. journal' \in Journal BY AbandonTyped DEF settleTopology, Journal
<1>2. disk' \in Disk BY <1>1, WrittenTyped DEF settleTopology
<1>3. token' \in 0 .. MaxToken BY BoundsAssumption DEF settleTopology
<1>4. abandonAfterSettle' \in BOOLEAN /\ revertRequested' \in BOOLEAN BY DEF settleTopology
<1> QED BY <1>1, <1>2, <1>3, <1>4 DEF settleTopology

LEMMA ObservedStuckTyped ==
    ASSUME TypeInv, NEW s \in Snapshot, observedStuck(s)
    PROVE  TypeInv'
<1>1. journal \in Journal /\ snap' \in Snapshot /\ survivors' = {} /\ safe' = safe
      /\ fresh' = fresh /\ state = "Stuck"
  BY DEF observedStuck, flags
<1>2. CASE enterStuck(TRUE, FALSE, {disk}) BY <1>1, <1>2, StuckTyped
<1>3. CASE UNCHANGED <<state, journal, journalActive, attempt, armed, safe, flags,
                       tokens, pending, disk>>
  BY <1>1, <1>3 DEF flags, tokens
<1> QED BY <1>2, <1>3 DEF observedStuck

LEMMA TopologyTyped ==
    ASSUME TypeInv, NEW s \in Snapshot, topologyChanged(s)
    PROVE  TypeInv'
<1>1. CASE observedReady(s) BY <1>1, KeepTyped DEF observedReady
<1>2. CASE observedStuck(s) BY <1>2, ObservedStuckTyped
<1>3. CASE dropStaged /\ snap' = s /\ UNCHANGED safe BY <1>3, DropStagedTyped
<1>4. CASE state \in Timed \cup {"SettlingTopology"} /\ settleTopology(s)
  <2>1. journal \in Journal BY <1>4
  <2> QED BY <1>4, <2>1, SettleTyped
<1> QED BY <1>1, <1>2, <1>3, <1>4 DEF topologyChanged

LEMMA AbandonForExternalTyped ==
    ASSUME TypeInv, state \notin {"Discovering", "Ready"}, NEW s \in Snapshot,
           abandonForExternalIntent(s)
    PROVE  TypeInv'
<1>1. snap' = s /\ safe' = safe BY DEF abandonForExternalIntent
<1>2. CASE dropStaged BY <1>1, <1>2, DropStagedTyped
<1>3. CASE ~dropStaged
  <2> DEFINE surv == IF state = "Stuck" THEN {} ELSE survivors
             D == Written(disk, [journal EXCEPT !.abandon = TRUE])
  <2>1. clearJournalThenReady(TRUE, surv, D) BY <1>3 DEF abandonForExternalIntent
  <2>2. journal \in Journal OBVIOUS
  <2>3. D \subseteq Disk BY <2>2, AbandonTyped, WrittenTyped
  <2>4. surv \subseteq Output OBVIOUS
  <2> HIDE DEF surv, D
  <2> QED BY <1>1, <2>1, <2>2, <2>3, <2>4, ClearThenReadyTyped
<1> QED BY <1>2, <1>3

LEMMA AbandonAfterTopologyTyped ==
    ASSUME TypeInv, journal \in Journal, NEW s \in Snapshot, abandonAfterTopology(s)
    PROVE  TypeInv'
<1>1. journal' \in Journal BY AbandonTyped DEF abandonAfterTopology
<1>2. Written(disk, [journal EXCEPT !.abandon = state = "SettlingTopology" /\ @]) \subseteq Disk
  <2>1. [journal EXCEPT !.abandon = state = "SettlingTopology" /\ @] \in Journal BY DEF Journal
  <2> QED BY <2>1, WrittenTyped
<1>3. disk' \in Disk BY <1>1, <1>2, WrittenFromTyped DEF abandonAfterTopology
<1>4. token' \in 0 .. MaxToken BY BoundsAssumption DEF abandonAfterTopology
<1> QED BY <1>1, <1>3, <1>4 DEF abandonAfterTopology

LEMMA ExternalTyped ==
    ASSUME TypeInv, NEW s \in Snapshot, externalIntentObserved(s)
    PROVE  TypeInv'
<1>1. CASE observedReady(s) BY <1>1, KeepTyped DEF observedReady
<1>2. CASE state \in {"Staged", "Stuck"} \cup Timed /\ abandonForExternalIntent(s)
  BY <1>2, AbandonForExternalTyped
<1>3. CASE state \in Timed \cup {"SettlingTopology"} /\ abandonAfterTopology(s)
  <2>1. journal \in Journal BY <1>3
  <2> QED BY <1>3, <2>1, AbandonAfterTopologyTyped
<1>4. CASE state = "Staged" /\ abandonDroppedDraft(s)
  <2>1. attempt' \in 0 .. kMaximumRevertAttempts
    BY <1>4 DEF abandonDroppedDraft, kMaximumRevertAttempts
  <2>2. token' \in 0 .. MaxToken BY <1>4, BoundsAssumption DEF abandonDroppedDraft
  <2> QED BY <1>4, <2>1, <2>2 DEF abandonDroppedDraft
<1> QED BY <1>1, <1>2, <1>3, <1>4 DEF externalIntentObserved

LEMMA ObservedApplyingTyped ==
    ASSUME TypeInv, NEW s \in Snapshot, observedApplying(s)
    PROVE  TypeInv'
BY DEF observedApplying, machine, tokens

LEMMA ObservedObservingTyped ==
    ASSUME TypeInv, NEW s \in Snapshot, observedObserving(s)
    PROVE  TypeInv'
<1>1. journal \in Journal /\ s.layout \in Layouts BY DEF observedObserving, Snapshot
<1>2. CASE awaitConfirmation(s.layout) /\ snap' = s /\ UNCHANGED safe
  BY <1>1, <1>2, AwaitTyped
<1>3. CASE clearJournalThenReady(FALSE, survivors, {disk}) /\ snap' = s /\ UNCHANGED safe
  BY <1>1, <1>3, ClearThenReadyTyped
<1>4. CASE keepSnapshot(s) BY <1>4, KeepTyped
<1> QED BY <1>2, <1>3, <1>4 DEF observedObserving

LEMMA ObservedUncertainTyped ==
    ASSUME TypeInv, NEW s \in Snapshot, observedUncertain(s)
    PROVE  TypeInv'
<1>1. journal \in Journal /\ s.layout \in Layouts BY DEF observedUncertain, Snapshot
<1>2. CASE beginRevert(s.layout, survivors, {disk}) /\ snap' = s /\ UNCHANGED <<safe, fresh>>
  BY <1>1, <1>2, BeginRevertTyped
<1>3. CASE clearJournalThenReady(FALSE, survivors, {disk}) /\ snap' = s /\ UNCHANGED safe
  BY <1>1, <1>3, ClearThenReadyTyped
<1>4. CASE keepSnapshot(s) BY <1>4, KeepTyped
<1> QED BY <1>2, <1>3, <1>4 DEF observedUncertain

LEMMA ObservedRevertingTyped ==
    ASSUME TypeInv, NEW s \in Snapshot, observedReverting(s)
    PROVE  TypeInv'
<1>1. journal \in Journal BY DEF observedReverting
<1>2. CASE clearJournalThenReady(FALSE, survivors, {disk}) /\ snap' = s /\ UNCHANGED safe
  BY <1>1, <1>2, ClearThenReadyTyped
<1>3. CASE keepSnapshot(s) BY <1>3, KeepTyped
<1> QED BY <1>2, <1>3 DEF observedReverting

LEMMA ObservedTyped ==
    ASSUME TypeInv, NEW s \in Snapshot, observedSnapshot(s)
    PROVE  TypeInv'
<1>1. CASE observedReady(s) BY <1>1, KeepTyped DEF observedReady
<1>2. CASE observedStuck(s) BY <1>2, ObservedStuckTyped
<1>3. CASE state = "SettlingTopology" /\ settleTopology(s)
  <2>1. journal \in Journal BY <1>3
  <2> QED BY <1>3, <2>1, SettleTyped
<1>4. CASE topologyChanged(s) BY <1>4, TopologyTyped
<1>5. CASE observedApplying(s) BY <1>5, ObservedApplyingTyped
<1>6. CASE observedObserving(s) BY <1>6, ObservedObservingTyped
<1>7. CASE observedUncertain(s) BY <1>7, ObservedUncertainTyped
<1>8. CASE observedReverting(s) BY <1>8, ObservedRevertingTyped
<1>9. CASE observedAwaiting(s)
  <2>1. CASE keepSnapshot(s) BY <2>1, KeepTyped
  <2>2. CASE abandonForExternalIntent(s)
    BY <1>9, <2>2, AbandonForExternalTyped DEF observedAwaiting
  <2> QED BY <1>9, <2>1, <2>2 DEF observedAwaiting
<1> QED BY <1>1, <1>2, <1>3, <1>4, <1>5, <1>6, <1>7, <1>8, <1>9 DEF observedSnapshot

LEMMA TopologySettledTyped ==
    ASSUME TypeInv, NEW s \in Snapshot, topologySettled(s)
    PROVE  TypeInv'
<1>1. journal \in Journal /\ snap' = s /\ safe' = safe
  BY DEF topologySettled
<1>2. s.layout \in Layouts BY DEF Snapshot
<1> DEFINE surv == IF sameOutputSet(s.layout, journal.preimage) THEN {}
                   ELSE survivingProperties(s.layout, journal.preimage)
<1>3. surv \subseteq Output BY <1>2, SurvivorsTyped
<1>4. CASE clearJournalThenReady(FALSE, survivors, {disk})
  BY <1>1, <1>4, ClearThenReadyTyped
<1>5. CASE clearJournalThenReady(FALSE, surv, {disk})
  <2> HIDE DEF surv
  <2> QED BY <1>1, <1>3, <1>5, ClearThenReadyTyped
<1>6. CASE beginRevert(s.layout, surv, {disk}) /\ UNCHANGED fresh
  <2> HIDE DEF surv
  <2> QED BY <1>1, <1>2, <1>3, <1>6, BeginRevertTyped
<1> QED BY <1>4, <1>5, <1>6 DEF topologySettled

LEMMA SettledTyped ==
    ASSUME TypeInv, settled
    PROVE  TypeInv'
<1>1. PICK s \in Snapshot : topologySettled(s)
  <2>1. CASE topologySettled(snap)
    <3>1. snap \in Snapshot BY <2>1 DEF topologySettled
    <3> QED BY <2>1, <3>1
  <2> QED BY <2>1 DEF settled
<1> QED BY <1>1, TopologySettledTyped

LEMMA TickTyped ==
    ASSUME TypeInv, tick
    PROVE  TypeInv'
<1>1. safe' = safe /\ snap' = snap BY DEF tick
<1>2. state \in Timed BY DEF tick, tickForward, tickRevert
<1>3. journal \in Journal /\ snap \in Snapshot BY <1>2
<1>4. snap.layout \in Layouts BY <1>3 DEF Snapshot
<1>5. CASE tickForward
  <2>1. CASE beginRevert(snap.layout, survivors, {disk}) /\ UNCHANGED fresh
    BY <1>1, <1>3, <1>4, <2>1, BeginRevertTyped
  <2>2. CASE state' = "ResolvingUncertain" /\ token' = 0 /\ armed' = TRUE
             /\ UNCHANGED <<journal, journalActive, survivors, attempt, flags, nextToken,
                            pending, disk>>
    <3>1. token' \in 0 .. MaxToken BY <2>2, BoundsAssumption
    <3> QED BY <1>1, <1>3, <2>2, <3>1 DEF flags
  <2> QED BY <1>5, <2>1, <2>2 DEF tickForward, installDeadline
<1>6. CASE tickRevert
  <2>1. CASE scheduleRevertRetry BY <1>1, <1>3, <2>1, ScheduleTyped
  <2>2. CASE issueRevertApply /\ UNCHANGED <<survivors, fresh>>
    BY <1>1, <1>3, <2>2, IssueTyped
  <2> QED BY <1>6, <2>1, <2>2 DEF tickRevert
<1> QED BY <1>5, <1>6 DEF tick

LEMMA RetryStuckTyped ==
    ASSUME TypeInv, retryStuck
    PROVE  TypeInv'
<1>1. journal \in Journal /\ snap \in Snapshot /\ snap' = snap /\ safe' = safe
  BY DEF retryStuck
<1>2. snap.layout \in Layouts BY <1>1 DEF Snapshot
<1>3. CASE storedDurably(NoJournal) /\ clearTransaction
  BY <1>1, <1>3, ClearTyped, AbsentTyped DEF storedDurably, Absent
<1>4. CASE /\ disk' \in NotDurable(disk, NoJournal)
           /\ UNCHANGED <<machine, flags, tokens, pending>>
  <2>1. disk' \in Disk BY <1>4, WrittenTyped DEF Written
  <2> QED BY <1>1, <1>4, <2>1 DEF machine, flags, tokens
<1>5. CASE beginRevert(snap.layout, {}, {disk}) /\ UNCHANGED fresh
  BY <1>1, <1>2, <1>5, BeginRevertTyped
<1> QED BY <1>3, <1>4, <1>5 DEF retryStuck

LEMMA ForgetTyped ==
    ASSUME TypeInv, forgetMachine, pending' \in Journal \cup {NoJournal},
           disk' \in Disk, safe' \in BOOLEAN
    PROVE  TypeInv'
<1>1. state' = "Discovering" /\ snap' = EmptySnapshot BY DEF forgetMachine
<1>2. attempt' \in 0 .. kMaximumRevertAttempts BY DEF forgetMachine, kMaximumRevertAttempts
<1>3. token' \in 0 .. MaxToken /\ nextToken' \in 1 .. MaxToken
  BY BoundsAssumption DEF forgetMachine
<1>4. journal' = NoJournal BY DEF forgetMachine
<1> QED BY <1>1, <1>2, <1>3, <1>4 DEF forgetMachine

LEMMA FailureTyped ==
    ASSUME TypeInv, failures
    PROVE  TypeInv'
<1>1. CASE transportLost BY <1>1, ForgetTyped DEF transportLost
<1>2. CASE processCrash
  <2>1. disk.visible \in Journal \cup {NoJournal} BY DEF Disk
  <2> QED BY <1>2, <2>1, ForgetTyped DEF processCrash
<1>3. CASE powerLoss
  <2>1. pending' \in Journal \cup {NoJournal} BY <1>3 DEF powerLoss, Disk
  <2>2. disk' \in Disk BY <1>3, <2>1, WrittenTyped DEF powerLoss
  <2> QED BY <1>3, <2>1, <2>2, ForgetTyped DEF powerLoss
<1> QED BY <1>1, <1>2, <1>3 DEF failures

-----------------------------------------------------------------------------

LEMMA NextTyped == TypeInv /\ [Next]_vars => TypeInv'
<1> SUFFICES ASSUME TypeInv, [Next]_vars PROVE TypeInv'
  OBVIOUS
<1>1. CASE commands
  BY <1>1, StageTyped, PreviewTyped, ConfirmTyped, CancelTyped, RetryStuckTyped DEF commands
<1>2. CASE safetyEvents
  BY <1>2, SafetyTyped, CancelTyped DEF safetyEvents, prepareForSuspend
<1>3. CASE completions BY <1>3, CompletedTyped DEF completions
<1>4. CASE observations
  BY <1>4, InitializeTyped, RecoverTyped, ObservedTyped, TopologyTyped, ExternalTyped
  DEF observations
<1>5. CASE settled BY <1>5, SettledTyped
<1>6. CASE tick BY <1>6, TickTyped
<1>7. CASE failures BY <1>7, FailureTyped
<1>8. CASE UNCHANGED vars BY <1>8 DEF vars, machine, flags, tokens
<1> QED BY <1>1, <1>2, <1>3, <1>4, <1>5, <1>6, <1>7, <1>8 DEF Next

\* Every handler of the machine, crashes and restarts included, keeps every
\* field in its type, for any outputs, layouts and bounds.
THEOREM TypeCorrect == Spec => []TypeOK
<1>1. TypeInv => TypeOK OBVIOUS
<1> HIDE DEF TypeInv
<1> QED BY InitTyped, NextTyped, <1>1, PTL DEF Spec
=============================================================================
