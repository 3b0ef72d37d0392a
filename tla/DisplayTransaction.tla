------------------------- MODULE DisplayTransaction -------------------------
(***************************************************************************)
(* The Display1 preview transaction: the machine of                        *)
(* src/services/display_transaction together with the one-record journal  *)
(* file of src/services/display_journal it writes through.                 *)
(*                                                                         *)
(* A client stages a candidate layout, previews it (journal first, then    *)
(* the compositor request), and must confirm before a deadline; otherwise  *)
(* the machine puts the preimage back.  Everything the machine does is one *)
(* synchronous handler call, so every handler is one action.  What may     *)
(* happen between two calls is: the transport to the compositor goes away  *)
(* (the machine is destroyed), the process dies, or the power is lost.     *)
(*                                                                         *)
(* Data is kept to what the control tells apart.  A layout gives each      *)
(* connected output an enabled flag and a "mode", which stands for mode    *)
(* identity, scale and transform.  A journal record keeps the two          *)
(* endpoints and whether its reason is ExternalChange, the only journal    *)
(* fields recover() reads.  A deadline is armed or not.                    *)
(***************************************************************************)
EXTENDS Naturals, FiniteSets

CONSTANTS
    Output,       \* stable output identities
    Mode,         \* values of (modeId, scale, transform)
    Layouts,      \* the layouts the compositor can be in
    MaxRevision,  \* bound: snapshot revisions are 0..MaxRevision
    MaxToken,     \* the last apply token before the counter wraps (2^64 - 1)
    OpenDriver,   \* TRUE: any caller of the machine's interface; FALSE: only the
                  \* calls the display service makes
    NoJournal     \* no journal record

Config == [on : BOOLEAN, mode : Mode]

ASSUME LayoutsAssumption ==
    \A l \in Layouts : DOMAIN l \subseteq Output /\ l \in [DOMAIN l -> Config]

ASSUME BoundsAssumption ==
    MaxRevision \in Nat /\ MaxToken \in Nat \ {0} /\ OpenDriver \in BOOLEAN

EmptyLayout == [o \in {} |-> o]
Snapshot == [rev : 0 .. MaxRevision, layout : Layouts]
EmptySnapshot == [rev |-> 0, layout |-> EmptyLayout]

\* A journal record of different output sets is not valid.
Journal == {j \in [preimage : Layouts, target : Layouts, abandon : BOOLEAN] :
              DOMAIN j.preimage = DOMAIN j.target}

ASSUME NoJournalAssumption == NoJournal \notin Journal

kMaximumRevertAttempts == 3

VARIABLES
    state,          \* m_view.state
    safe,           \* m_view.safety = Safe
    snap,           \* m_snapshot: the last accepted live snapshot
    journal,        \* m_journal, with m_preimage and m_staged as its endpoints
    journalActive,  \* m_view.journalActive
    survivors,      \* outputs listed in m_survivingProperties
    attempt,        \* m_view.revertAttempt
    armed,          \* m_view.deadlineMonotonicMilliseconds # 0
    token,          \* m_activeToken, 0 when no apply is in flight
    nextToken,      \* m_nextToken
    revertRequested,    \* m_revertRequested
    abandonAfterSettle, \* m_abandonAfterSettle
    cleanupOnly,        \* m_cleanupOnlyStuck
    fresh,          \* m_freshObservationDuringApply
    pending,        \* the journal the next recover() will receive
    disk            \* the journal file: visible value, and the values a power
                    \* loss may leave

flags == <<revertRequested, abandonAfterSettle, cleanupOnly, fresh>>
tokens == <<token, nextToken>>
machine == <<state, journal, journalActive, survivors, attempt, armed>>
vars == <<machine, safe, snap, flags, tokens, pending, disk>>

Timed == {"Applying", "Observing", "AwaitingConfirmation", "ResolvingUncertain",
          "RevertingApply", "RevertingObserve", "RevertBackoff"}
rollbackInProgress ==
    state \in {"SettlingTopology", "RevertingApply", "RevertingObserve", "RevertBackoff"}

-----------------------------------------------------------------------------
(* Layout comparisons.                                                      *)

sameOutputSet(l, m) == DOMAIN l = DOMAIN m

\* Outputs of the live layout that the preimage had enabled: the others have
\* no restorable mode.
M_survivingProperties(live, pre) == DOMAIN live \cap DOMAIN pre
survivingProperties(live, pre) == {o \in DOMAIN live \cap DOMAIN pre : pre[o].on}

M_snapshotMatchesSurvivingProperties(live, surv, pre) == surv \subseteq DOMAIN live
snapshotMatchesSurvivingProperties(live, surv, pre) ==
    \A o \in surv : o \in DOMAIN live /\ live[o].mode = pre[o].mode

\* The machine takes a snapshot only if it advances the revision or repeats
\* the current one exactly.
followsCurrentLineage(s) == s.rev > snap.rev \/ s = snap

M_nextTokenAfter(t) == t + 1
M2_nextTokenAfter(t) == IF t = MaxToken THEN 0 ELSE t + 1
nextTokenAfter(t) == IF t = MaxToken THEN 1 ELSE t + 1

-----------------------------------------------------------------------------
(* The journal file.  A mutation either leaves the file alone (Unchanged), *)
(* crosses the directory barrier (Durable), or is visible while a power    *)
(* loss may still undo it (DurabilityUncertain).                           *)

Disk == [visible : Journal \cup {NoJournal}, durable : SUBSET (Journal \cup {NoJournal})]

Uncertain(d, v) == [visible |-> v, durable |-> d.durable \cup {v}]
NotDurable(d, v) == {d, Uncertain(d, v)}
Durable(v) == [visible |-> v, durable |-> {v}]
Written(d, v) == NotDurable(d, v) \cup {Durable(v)}
Absent == Durable(NoJournal)
\* Best effort: any outcome, starting from any of the contents in D.
WrittenFrom(D, v) == UNION {Written(d, v) : d \in D}
FailedClear(D) == UNION {NotDurable(d, NoJournal) : d \in D}

\* The mutation is known to have crossed the barrier.
M_storedDurably(v) == disk' \in Written(disk, v)
storedDurably(v) == disk' = Durable(v)

-----------------------------------------------------------------------------
(* What the handlers share.  Each of these settles every machine variable   *)
(* but snap, safe, survivors and fresh, which their callers settle.         *)

\* saturatedDeadline(): now + duration, which must not come out as 0, "no
\* deadline".
M_installDeadline == armed' \in BOOLEAN
installDeadline == armed' = TRUE

\* clearTransaction(), which also ends finishReady().
clearTransaction ==
    /\ state' = "Ready"
    /\ journal' = NoJournal /\ journalActive' = FALSE
    /\ survivors' = {}
    /\ attempt' = 0 /\ armed' = FALSE
    /\ token' = 0 /\ UNCHANGED nextToken
    /\ revertRequested' = FALSE /\ abandonAfterSettle' = FALSE
    /\ cleanupOnly' = FALSE /\ fresh' = FALSE
    /\ UNCHANGED pending

\* enterStuck(cleanup, durable reason), on top of the file contents D.
enterStuck(cleanup, external, D) ==
    /\ state' = "Stuck"
    /\ token' = 0 /\ UNCHANGED nextToken
    /\ revertRequested' = FALSE /\ cleanupOnly' = cleanup
    /\ UNCHANGED abandonAfterSettle
    /\ armed' = FALSE /\ journalActive' = TRUE
    /\ attempt' = IF cleanup THEN 0 ELSE attempt
    /\ journal' = [journal EXCEPT !.abandon = external]
    /\ disk' \in WrittenFrom(D, journal')
    /\ UNCHANGED pending

\* The ending nearly every handler has: clear the journal; a clear that is
\* not proved durable keeps the machine stuck on the clean-up alone.
M_clearJournalThenReady(external, surv, D) ==
    /\ disk' \in {Absent} \cup FailedClear(D)
    /\ clearTransaction
clearJournalThenReady(external, surv, D) ==
    \/ storedDurably(NoJournal) /\ clearTransaction
    \/ /\ enterStuck(TRUE, external, FailedClear(D))
       /\ survivors' = surv /\ UNCHANGED fresh

attemptsExhausted == attempt >= kMaximumRevertAttempts

\* issueRevertApply()
issueRevertApply ==
    IF attemptsExhausted
    THEN enterStuck(FALSE, FALSE, {disk})
    ELSE /\ attempt' = attempt + 1
         /\ disk' \in Written(disk, journal)
         /\ token' = nextToken /\ nextToken' = nextTokenAfter(nextToken)
         /\ state' = "RevertingApply" /\ installDeadline
         /\ UNCHANGED <<journal, journalActive, revertRequested,
                        abandonAfterSettle, cleanupOnly, pending>>

\* beginRevert() against live layout l, with m_survivingProperties = surv:
\* resets the attempt counter, fixes the scope, journals, requests attempt 1.
beginRevert(l, surv, D) ==
    /\ state' = "RevertingApply" /\ installDeadline /\ attempt' = 1
    /\ token' = nextToken /\ nextToken' = nextTokenAfter(nextToken)
    /\ revertRequested' = FALSE /\ abandonAfterSettle' = FALSE /\ cleanupOnly' = FALSE
    /\ survivors' = IF sameOutputSet(l, journal.preimage) THEN {}
                    ELSE IF surv = {} THEN survivingProperties(l, journal.preimage)
                    ELSE surv
    /\ journal' = [journal EXCEPT !.abandon = FALSE]
    /\ disk' \in WrittenFrom(D, journal')
    /\ UNCHANGED <<journalActive, pending>>

\* scheduleRevertRetry()
scheduleRevertRetry ==
    /\ IF attemptsExhausted
       THEN enterStuck(FALSE, FALSE, {disk})
       ELSE /\ state' = "RevertBackoff" /\ installDeadline
            /\ token' = 0 /\ UNCHANGED nextToken
            /\ UNCHANGED <<journal, journalActive, attempt, revertRequested,
                           abandonAfterSettle, cleanupOnly, pending, disk>>
    /\ UNCHANGED <<survivors, fresh>>

\* Only m_snapshot moves.
keepSnapshot(s) ==
    /\ snap' = s
    /\ UNCHANGED <<machine, safe, flags, tokens, pending, disk>>

-----------------------------------------------------------------------------
(* Birth of a machine.                                                      *)

Init ==
    /\ state = "Discovering"
    /\ safe = FALSE
    /\ snap = EmptySnapshot
    /\ journal = NoJournal /\ journalActive = FALSE
    /\ survivors = {} /\ attempt = 0 /\ armed = FALSE
    /\ token = 0 /\ nextToken = 1
    /\ revertRequested = FALSE /\ abandonAfterSettle = FALSE
    /\ cleanupOnly = FALSE /\ fresh = FALSE
    /\ disk = Absent
    /\ pending = NoJournal

initialize(s) ==
    /\ state = "Discovering" /\ pending = NoJournal
    /\ state' = "Ready" /\ snap' = s
    /\ UNCHANGED <<journal, journalActive, survivors, attempt, armed, safe, flags,
                   tokens, pending, disk>>

\* The part of recover() that starts from the loaded journal j and only waits
\* for the output set to settle.
recoverSettling(j) ==
    /\ state' = "SettlingTopology"
    /\ journal' = j /\ journalActive' = TRUE
    /\ disk' \in Written(disk, j)
    /\ abandonAfterSettle' = j.abandon
    /\ UNCHANGED <<survivors, attempt, armed, revertRequested, cleanupOnly, fresh, tokens>>

\* The part of recover() that only has the journal left to clear.  A clear
\* that fails journals reason JournalFailure, whatever reason was loaded.
recoverClear(j) ==
    \/ /\ storedDurably(NoJournal) /\ state' = "Ready"
       /\ UNCHANGED <<journal, journalActive, survivors, attempt, armed, flags, tokens>>
    \/ /\ state' = "Stuck" /\ cleanupOnly' = TRUE
       /\ journal' = [j EXCEPT !.abandon = FALSE] /\ journalActive' = TRUE
       /\ disk' \in WrittenFrom(FailedClear({disk}), journal')
       /\ UNCHANGED <<survivors, attempt, armed, revertRequested, abandonAfterSettle,
                      fresh, tokens>>

\* recover() ending in beginRevert(): the target is live.
recoverRevert(j) ==
    /\ state' = "RevertingApply" /\ installDeadline /\ attempt' = 1
    /\ journal' = j /\ journalActive' = TRUE
    /\ disk' \in Written(disk, j)
    /\ token' = nextToken /\ nextToken' = nextTokenAfter(nextToken)
    /\ UNCHANGED <<survivors, flags>>

recover(s) ==
    /\ state = "Discovering" /\ pending # NoJournal
    /\ snap' = s /\ pending' = NoJournal /\ UNCHANGED safe
    /\ LET j == pending
           sameSet == sameOutputSet(s.layout, j.preimage)
       IN  \/ /\ ~sameSet
              /\ recoverSettling(j)
           \/ /\ sameSet
              /\ j.abandon \/ s.layout = j.preimage \/ s.layout # j.target
              /\ recoverClear(j)
           \/ /\ sameSet /\ ~j.abandon
              /\ s.layout = j.target /\ s.layout # j.preimage
              /\ recoverRevert(j)

-----------------------------------------------------------------------------
(* Client operations.                                                       *)

\* A candidate must name the connected outputs, enable one, and differ from
\* the live layout; the candidate's base is the current revision.
stage(t) ==
    /\ state = "Ready"
    /\ sameOutputSet(t, snap.layout) /\ t # snap.layout
    /\ \E o \in DOMAIN t : t[o].on
    /\ state' = "Staged"
    /\ journal' = [preimage |-> snap.layout, target |-> t, abandon |-> FALSE]
    /\ UNCHANGED <<journalActive, survivors, attempt, armed, safe, snap, flags,
                   tokens, pending, disk>>

\* retainUncertainJournalForCleanup()
retainUncertainJournalForCleanup ==
    /\ state' = "Stuck" /\ journalActive' = TRUE
    /\ token' = 0 /\ UNCHANGED nextToken
    /\ revertRequested' = FALSE /\ abandonAfterSettle' = FALSE /\ cleanupOnly' = TRUE
    /\ armed' = FALSE /\ attempt' = 0
    /\ UNCHANGED <<journal, survivors, fresh>>

mayPreview == state = "Staged" /\ safe

\* The journal is on disk before the forward request leaves; a store that is
\* Unchanged rejects the command and leaves everything as it was.
preview ==
    /\ mayPreview
    /\ UNCHANGED <<safe, snap, pending>>
    /\ \/ /\ storedDurably(journal)
          /\ state' = "Applying" /\ journalActive' = TRUE /\ installDeadline
          /\ fresh' = FALSE
          /\ token' = nextToken /\ nextToken' = nextTokenAfter(nextToken)
          /\ UNCHANGED <<journal, survivors, attempt, revertRequested,
                         abandonAfterSettle, cleanupOnly>>
       \/ /\ disk' = Uncertain(disk, journal)
          /\ retainUncertainJournalForCleanup

\* Confirming is clearing the journal.  When the clear is not durable the
\* command fails and the deadline keeps running.
confirm ==
    /\ state = "AwaitingConfirmation"
    /\ UNCHANGED <<safe, snap>>
    /\ \/ storedDurably(NoJournal) /\ clearTransaction
       \/ /\ disk' \in NotDurable(disk, NoJournal)
          /\ UNCHANGED <<machine, flags, tokens, pending>>

\* What cancel, loss of safety and suspend have in common: a draft is
\* dropped, a rollback is recorded while the apply or the topology is
\* unresolved, and begun otherwise.
dropStaged ==
    /\ state = "Staged"
    /\ clearTransaction
    /\ UNCHANGED disk

recordRevert ==
    /\ state \in {"SettlingTopology", "Applying"} /\ ~revertRequested
    /\ state = "SettlingTopology" => ~abandonAfterSettle
    /\ revertRequested' = TRUE
    /\ journal' = [journal EXCEPT !.abandon = FALSE]
    /\ disk' \in Written(disk, journal')
    /\ UNCHANGED <<state, journalActive, survivors, attempt, armed,
                   abandonAfterSettle, cleanupOnly, fresh, tokens, pending>>

startRevert ==
    /\ state \in {"Observing", "AwaitingConfirmation", "ResolvingUncertain"}
    /\ ~revertRequested
    /\ beginRevert(snap.layout, survivors, {disk})
    /\ UNCHANGED fresh

M_nothingToRevert == state # "Staged"
nothingToRevert ==
    \/ state \in {"Discovering", "Ready", "Stuck"}
    \/ rollbackInProgress /\ state # "SettlingTopology"
    \/ state # "Staged" /\ revertRequested
    \/ state = "SettlingTopology" /\ abandonAfterSettle

cancel ==
    /\ dropStaged \/ recordRevert \/ startRevert
    /\ UNCHANGED <<safe, snap>>

prepareForSuspend == cancel

safetyChanged(value) ==
    /\ safe' = value
    /\ UNCHANGED snap
    /\ \/ /\ value \/ nothingToRevert
          /\ UNCHANGED <<machine, flags, tokens, pending, disk>>
       \/ ~value /\ (dropStaged \/ recordRevert \/ startRevert)

-----------------------------------------------------------------------------
(* Compositor callbacks.                                                    *)

\* The target is live: journal phase AwaitingConfirmation, or roll back.
awaitConfirmation(l) ==
    /\ fresh' = FALSE
    /\ \/ /\ storedDurably(journal)
          /\ state' = "AwaitingConfirmation" /\ installDeadline
          /\ token' = 0 /\ UNCHANGED nextToken
          /\ UNCHANGED <<journal, journalActive, survivors, attempt, revertRequested,
                         abandonAfterSettle, cleanupOnly, pending>>
       \/ beginRevert(l, survivors, NotDurable(disk, journal))

\* A snapshot that arrived before the callback may stand in for the one after
\* it, but only if it shows the target.
M_retainedTarget == fresh
retainedTarget == fresh /\ snap.layout = journal.target

\* Any outcome of a forward request but a plain Applied leaves the result to
\* be observed under doubt.
applyCompletedForward(outcome) ==
    /\ state = "Applying"
    /\ \/ /\ ~revertRequested /\ outcome = "Applied" /\ retainedTarget
          /\ awaitConfirmation(snap.layout)
       \/ /\ state' = IF revertRequested \/ outcome # "Applied"
                      THEN "ResolvingUncertain" ELSE "Observing"
          /\ revertRequested \/ outcome # "Applied" \/ ~retainedTarget
          /\ fresh' = FALSE /\ token' = 0 /\ installDeadline
          /\ UNCHANGED <<journal, journalActive, survivors, attempt, revertRequested,
                         abandonAfterSettle, cleanupOnly, nextToken, pending, disk>>

M_applyCompletedRevert(outcome) ==
    state = "RevertingApply" /\ clearJournalThenReady(FALSE, survivors, {disk})
applyCompletedRevert(outcome) ==
    /\ state = "RevertingApply"
    /\ \/ /\ outcome = "Applied" /\ snap.layout = journal.preimage
          /\ clearJournalThenReady(FALSE, survivors, {disk})
       \/ /\ outcome = "Applied" /\ snap.layout # journal.preimage
          /\ state' = "RevertingObserve" /\ token' = 0 /\ installDeadline
          /\ UNCHANGED <<journal, journalActive, survivors, attempt, flags,
                         nextToken, pending, disk>>
       \/ outcome # "Applied" /\ scheduleRevertRetry

ApplyOutcome == {"Applied", "Rejected", "TransportUncertain"}

applyCompleted(t, outcome) ==
    /\ t # 0 /\ t = token
    /\ applyCompletedForward(outcome) \/ applyCompletedRevert(outcome)
    /\ UNCHANGED <<safe, snap>>

-----------------------------------------------------------------------------
(* Live snapshots.                                                          *)

M_observedReady(s) == state \in {"Ready", "Staged"} /\ keepSnapshot(s)
observedReady(s) ==
    /\ state = "Ready" /\ followsCurrentLineage(s)
    /\ keepSnapshot(s)

\* A stuck machine keeps following the compositor, and notices when the
\* preimage is live again.
observedStuck(s) ==
    /\ state = "Stuck"
    /\ snap' = s /\ survivors' = {}
    /\ IF ~cleanupOnly /\ s.layout = journal.preimage
       THEN enterStuck(TRUE, FALSE, {disk}) /\ UNCHANGED <<safe, fresh>>
       ELSE UNCHANGED <<state, journal, journalActive, attempt, armed, safe, flags,
                        tokens, pending, disk>>

\* The branch of topologyChanged() that (re)enters the settle window.
settleTopology(s) ==
    /\ state' = "SettlingTopology"
    /\ snap' = s
    /\ token' = 0 /\ UNCHANGED nextToken
    /\ armed' = FALSE /\ survivors' = {}
    /\ abandonAfterSettle' = (state = "SettlingTopology" /\ abandonAfterSettle)
    /\ revertRequested' = (state = "SettlingTopology" /\ revertRequested)
    /\ journal' = [journal EXCEPT !.abandon = state = "SettlingTopology" /\ @]
    /\ disk' \in Written(disk, journal')
    /\ UNCHANGED <<journalActive, attempt, safe, cleanupOnly, fresh, pending>>

topologyChanged(s) ==
    \/ observedReady(s)
    \/ observedStuck(s)
    \/ dropStaged /\ snap' = s /\ UNCHANGED safe
    \/ /\ state \in Timed \cup {"SettlingTopology"}
       /\ settleTopology(s)

\* The end of externalIntentObserved(): persist the abandon, then clear, so
\* that no recovery replays the preimage over external truth.
abandonForExternalIntent(s) ==
    /\ snap' = s /\ UNCHANGED safe
    /\ \/ dropStaged
       \/ /\ journalActive
          /\ clearJournalThenReady(TRUE, IF state = "Stuck" THEN {} ELSE survivors,
                                   Written(disk, [journal EXCEPT !.abandon = TRUE]))

\* External intent that comes with a set change, or inside the settle
\* window, is recorded and waits for the settle.
abandonAfterTopology(s) ==
    /\ state' = "SettlingTopology"
    /\ snap' = s
    /\ token' = 0 /\ UNCHANGED nextToken
    /\ armed' = FALSE /\ survivors' = {}
    /\ abandonAfterSettle' = TRUE /\ revertRequested' = FALSE
    /\ journal' = [journal EXCEPT !.abandon = TRUE]
    /\ disk' \in WrittenFrom(
          Written(disk, [journal EXCEPT !.abandon = state = "SettlingTopology" /\ @]), journal')
    /\ UNCHANGED <<journalActive, attempt, safe, cleanupOnly, fresh, pending>>

\* A draft dropped by the set change is reported as abandoned all the same:
\* the flag outlives it in Ready, while its emptied journal is no valid record
\* and the store is refused.
abandonDroppedDraft(s) ==
    /\ state' = "Ready" /\ snap' = s
    /\ journal' = NoJournal /\ journalActive' = FALSE
    /\ survivors' = {} /\ attempt' = 0 /\ armed' = FALSE
    /\ token' = 0
    /\ abandonAfterSettle' = TRUE /\ revertRequested' = FALSE
    /\ cleanupOnly' = FALSE /\ fresh' = FALSE
    /\ UNCHANGED <<safe, nextToken, pending, disk>>

externalIntentObserved(s) ==
    \/ observedReady(s)
    \/ /\ state = "Staged" /\ ~sameOutputSet(s.layout, snap.layout)
       /\ abandonDroppedDraft(s)
    \/ /\ state \in {"Staged"} \cup Timed /\ sameOutputSet(s.layout, snap.layout)
       /\ abandonForExternalIntent(s)
    \/ state = "Stuck" /\ abandonForExternalIntent(s)
    \/ /\ state \in Timed => ~sameOutputSet(s.layout, snap.layout)
       /\ state \in Timed \cup {"SettlingTopology"}
       /\ abandonAfterTopology(s)

observedApplying(s) ==
    /\ state = "Applying" /\ followsCurrentLineage(s)
    /\ snap' = s /\ fresh' = (fresh \/ s # snap)
    /\ UNCHANGED <<machine, safe, revertRequested, abandonAfterSettle, cleanupOnly,
                   tokens, pending, disk>>

observedObserving(s) ==
    /\ state = "Observing"
    /\ \/ /\ s.layout = journal.target
          /\ awaitConfirmation(s.layout)
          /\ snap' = s /\ UNCHANGED safe
       \/ /\ s.layout # journal.target /\ s.layout = journal.preimage
          /\ clearJournalThenReady(FALSE, survivors, {disk})
          /\ snap' = s /\ UNCHANGED safe
       \/ /\ s.layout \notin {journal.target, journal.preimage}
          /\ keepSnapshot(s)

observedUncertain(s) ==
    /\ state = "ResolvingUncertain"
    /\ \/ /\ s.layout = journal.preimage
          /\ clearJournalThenReady(FALSE, survivors, {disk})
          /\ snap' = s /\ UNCHANGED safe
       \/ /\ s.layout # journal.preimage /\ s.layout = journal.target
          /\ beginRevert(s.layout, survivors, {disk})
          /\ snap' = s /\ UNCHANGED <<safe, fresh>>
       \/ /\ s.layout \notin {journal.target, journal.preimage}
          /\ keepSnapshot(s)

observedReverting(s) ==
    \/ /\ state = "RevertingApply" /\ followsCurrentLineage(s)
       /\ keepSnapshot(s)
    \/ /\ state = "RevertingObserve"
       /\ LET matched == IF survivors = {} THEN s.layout = journal.preimage
                         ELSE snapshotMatchesSurvivingProperties(s.layout, survivors,
                                                                 journal.preimage)
          IN  \/ ~matched /\ keepSnapshot(s)
              \/ /\ matched
                 /\ clearJournalThenReady(FALSE, survivors, {disk})
                 /\ snap' = s /\ UNCHANGED safe

observedAwaiting(s) ==
    /\ state = "AwaitingConfirmation"
    /\ \/ s.layout # snap.layout /\ abandonForExternalIntent(s)
       \/ s.layout = snap.layout /\ keepSnapshot(s)

\* In Staged and RevertBackoff a snapshot of the same set is rejected.
observedSnapshot(s) ==
    \/ observedReady(s) \/ observedStuck(s)
    \/ state = "SettlingTopology" /\ settleTopology(s)
    \/ /\ state \in {"Staged"} \cup Timed /\ ~sameOutputSet(s.layout, snap.layout)
       /\ topologyChanged(s)
    \/ /\ sameOutputSet(s.layout, snap.layout)
       /\ \/ observedApplying(s) \/ observedObserving(s) \/ observedUncertain(s)
          \/ observedReverting(s) \/ observedAwaiting(s)

topologySettled(s) ==
    /\ state = "SettlingTopology"
    /\ snap' = s /\ UNCHANGED safe
    /\ LET pre == journal.preimage
           surv == IF sameOutputSet(s.layout, pre) THEN {}
                   ELSE survivingProperties(s.layout, pre)
           restored == IF sameOutputSet(s.layout, pre) THEN s.layout = pre
                       ELSE snapshotMatchesSurvivingProperties(s.layout, surv, pre)
       IN  \/ /\ abandonAfterSettle
              /\ clearJournalThenReady(FALSE, survivors, {disk})
           \/ /\ ~abandonAfterSettle /\ restored
              /\ clearJournalThenReady(FALSE, surv, {disk})
           \/ /\ ~abandonAfterSettle /\ ~restored
              /\ beginRevert(s.layout, surv, {disk}) /\ UNCHANGED fresh

-----------------------------------------------------------------------------
(* Time, retries, and the ends of a machine.                                *)

\* The deadline of an unanswered request, asking the compositor again.
M_tickForward ==
    /\ state = "Applying"
    /\ token' = nextToken /\ nextToken' = nextTokenAfter(nextToken)
    /\ UNCHANGED <<machine, flags, pending, disk>>

tickForward ==
    \/ /\ state = "Applying"
       /\ state' = "ResolvingUncertain" /\ token' = 0 /\ installDeadline
       /\ UNCHANGED <<journal, journalActive, survivors, attempt, flags, nextToken,
                      pending, disk>>
    \/ /\ state \in {"ResolvingUncertain", "Observing", "AwaitingConfirmation"}
       /\ beginRevert(snap.layout, survivors, {disk})
       /\ UNCHANGED fresh

M_tickRevert == state \in {"RevertingApply", "RevertingObserve"} /\ scheduleRevertRetry
tickRevert ==
    \/ state \in {"RevertingApply", "RevertingObserve"} /\ scheduleRevertRetry
    \/ state = "RevertBackoff" /\ issueRevertApply /\ UNCHANGED <<survivors, fresh>>

tick ==
    /\ armed
    /\ tickForward \/ tickRevert
    /\ UNCHANGED <<safe, snap>>

retryStuck ==
    /\ state = "Stuck"
    /\ UNCHANGED <<safe, snap>>
    /\ \/ /\ cleanupOnly \/ snap.layout = journal.preimage
          /\ \/ storedDurably(NoJournal) /\ clearTransaction
             \/ /\ disk' \in NotDurable(disk, NoJournal)
                /\ UNCHANGED <<machine, flags, tokens, pending>>
       \/ /\ ~cleanupOnly /\ snap.layout # journal.preimage
          /\ beginRevert(snap.layout, {}, {disk})
          /\ UNCHANGED fresh

\* A new machine with an empty memory; the owner's safety value survives.
forgetMachine ==
    /\ state' = "Discovering"
    /\ snap' = EmptySnapshot
    /\ journal' = NoJournal /\ journalActive' = FALSE
    /\ survivors' = {} /\ attempt' = 0 /\ armed' = FALSE
    /\ token' = 0 /\ nextToken' = 1
    /\ revertRequested' = FALSE /\ abandonAfterSettle' = FALSE
    /\ cleanupOnly' = FALSE /\ fresh' = FALSE

\* The compositor or its inventory went away: an active journal waits in the
\* owner for the next machine.
transportLost ==
    /\ state # "Discovering"
    /\ forgetMachine
    /\ pending' = IF journalActive THEN journal ELSE pending
    /\ UNCHANGED <<safe, disk>>

\* The process dies and its successor loads the journal file as it is.
processCrash ==
    /\ forgetMachine
    /\ safe' = FALSE
    /\ pending' = disk.visible
    /\ UNCHANGED disk

\* The power fails: only what crossed a barrier is sure to be there.
powerLoss ==
    /\ forgetMachine
    /\ safe' = FALSE
    /\ pending' \in disk.durable
    /\ disk' = Durable(pending')

commands ==
    \/ \E t \in Layouts : stage(t)
    \/ preview \/ confirm \/ cancel
    \/ OpenDriver /\ retryStuck

safetyEvents == (\E value \in BOOLEAN : safetyChanged(value)) \/ prepareForSuspend

completions == \E t \in 0 .. MaxToken, outcome \in ApplyOutcome : applyCompleted(t, outcome)

observations ==
    \E s \in Snapshot :
        \/ initialize(s) \/ recover(s)
        \/ observedSnapshot(s)
        \/ OpenDriver /\ topologyChanged(s)
        \/ /\ OpenDriver \/ (state = "Staged" /\ sameOutputSet(s.layout, snap.layout))
           /\ externalIntentObserved(s)

\* The service settles on the snapshot it has just shown the machine; the
\* interface takes any valid one.
settled ==
    \/ topologySettled(snap)
    \/ OpenDriver /\ (\E s \in Snapshot : topologySettled(s))

failures == transportLost \/ processCrash \/ powerLoss

Next == commands \/ safetyEvents \/ completions \/ observations \/ settled \/ tick \/ failures

Spec == Init /\ [][Next]_vars

-----------------------------------------------------------------------------
(* Properties.                                                              *)

States == Timed \cup {"Discovering", "Ready", "Staged", "SettlingTopology", "Stuck"}

\* Every variable has its type.
TypeOK ==
    /\ state \in States
    /\ safe \in BOOLEAN
    /\ snap \in Snapshot \cup {EmptySnapshot}
    /\ journal \in Journal \cup {NoJournal}
    /\ journalActive \in BOOLEAN
    /\ survivors \subseteq Output
    /\ attempt \in 0 .. kMaximumRevertAttempts
    /\ armed \in BOOLEAN
    /\ token \in 0 .. MaxToken
    /\ nextToken \in 1 .. MaxToken
    /\ revertRequested \in BOOLEAN /\ abandonAfterSettle \in BOOLEAN
    /\ cleanupOnly \in BOOLEAN /\ fresh \in BOOLEAN
    /\ pending \in Journal \cup {NoJournal}
    /\ disk \in Disk

\* No durable preimage is stranded: while a journal is active, either a
\* deadline is running, or the settle window is open, or the machine is
\* visibly stuck.  (AGENT-GUARD of tick().)
NoStrandedPreimage ==
    /\ armed <=> state \in Timed
    /\ journalActive <=> state \in Timed \cup {"SettlingTopology", "Stuck"}

\* A completion can be accepted exactly while a request is in flight: token 0
\* means none, so the counter must never issue it, wrap-around included.
TokenFence == token # 0 <=> state \in {"Applying", "RevertingApply"}

\* A machine that no longer holds a transaction has left no journal for a
\* restarted service to find and roll back over the user's layout.
NoOrphanJournal ==
    \/ state \in {"Ready", "Staged"}
    \/ state = "Discovering" /\ pending = NoJournal
    => disk.visible = NoJournal

\* From the forward request until the target is confirmable, any failure at
\* any moment, power loss included, finds a journal with the preimage.
ForwardCovered ==
    state \in {"Applying", "Observing", "ResolvingUncertain"} =>
        /\ disk.visible # NoJournal
        /\ \A j \in disk.durable \cup {disk.visible} :
              j # NoJournal /\ j.preimage = journal.preimage /\ j.target = journal.target

\* An unsafe session (locked, unknown, about to suspend) never has a preview
\* on trial, and an apply in flight is already marked for rollback.
UnsafeNeverForward ==
    ~safe => /\ state \notin {"Observing", "AwaitingConfirmation"}
             /\ state = "Applying" => revertRequested

\* The user is asked to confirm, and confirms, only the layout that is live.
AwaitingShowsTarget ==
    state = "AwaitingConfirmation" => snap.layout = journal.target

\* A draft is only ever previewed against the layout it was staged from.
StagedFence == state = "Staged" => snap.layout = journal.preimage

\* A rollback of a changed output set is confined to the outputs that survive,
\* and there is one; a rollback of the same set restores the whole preimage.
RollbackScope ==
    state \in {"RevertingApply", "RevertingObserve", "RevertBackoff"} =>
        IF sameOutputSet(snap.layout, journal.preimage) THEN survivors = {}
        ELSE /\ survivors # {}
             /\ \A o \in Output :
                   o \in survivors <=> /\ o \in DOMAIN snap.layout
                                       /\ o \in DOMAIN journal.preimage
                                       /\ journal.preimage[o].on

\* Three attempts and no more, counted over the retries of one rollback.
AttemptsBounded ==
    /\ state \in {"RevertingApply", "RevertingObserve"} => attempt \in 1 .. kMaximumRevertAttempts
    /\ state = "RevertBackoff" => attempt \in 1 .. kMaximumRevertAttempts - 1
    /\ state = "Stuck" /\ ~cleanupOnly => attempt = kMaximumRevertAttempts

\* The transaction ends only in one of four ways: the user confirmed the
\* layout on screen; the preimage (or what survives of it) is on screen; the
\* layout was changed by someone else; or only the journal was left to clear.
Restored(l, pre) ==
    IF DOMAIN l = DOMAIN pre THEN l = pre
    ELSE \A o \in DOMAIN l \cap DOMAIN pre : pre[o].on => l[o].mode = pre[o].mode

RestoreOrConsent ==
    [][journalActive /\ state' = "Ready" =>
         \/ state = "AwaitingConfirmation" /\ snap' = snap /\ snap.layout = journal.target
         \/ Restored(snap'.layout, journal.preimage)
         \/ state = "AwaitingConfirmation" /\ snap'.layout # snap.layout
         \/ cleanupOnly \/ (state = "SettlingTopology" /\ abandonAfterSettle)]_vars

\* The machine returns to work only over a journal whose absence is durable.
ReadyIsDurable == [][journalActive /\ state' = "Ready" => disk' = Absent]_vars

\* A forward request (Applying is entered, or its token replaced) opens a
\* transaction: it leaves a safe session, behind its own durable record, and
\* only when no earlier record is held in memory or visible on disk.  Since a
\* transaction keeps its record until its end, none is asked for twice: not by
\* the apply timeout, not by a retry, not by a restart that finds the record.
ForwardOnce ==
    [][state' = "Applying" /\ (state # "Applying" \/ token' # token) =>
         /\ safe /\ ~journalActive /\ disk.visible = NoJournal
         /\ disk'.durable = {journal}]_vars

\* A transaction whose layout an external client has replaced stays
\* abandoned: an abandon that has crossed the barrier, and so survives any
\* crash, is never traded for an order to roll back.
DurablyAbandoned ==
    \A j \in disk.durable \cup {disk.visible} : j # NoJournal /\ j.abandon
AbandonIsFinal ==
    [][DurablyAbandoned /\ disk'.visible # NoJournal => disk'.visible.abandon]_vars

\* Every deadline does something: no timed state is waited in forever.
DeadlineResolves == armed ~> ~armed

FairSpec == Spec /\ WF_vars(tick)
=============================================================================
