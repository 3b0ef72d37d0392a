----------------------------- MODULE DoNotDisturb -----------------------------
(***************************************************************************)
(* The Do Not Disturb switch (do_not_disturb_controller.cpp) on the        *)
(* Settings1 client it shares with the quiet-hours schedule.               *)
(*                                                                         *)
(* The client emits its signals while it handles an event, so every action *)
(* here is an action of the client together with what the switch does on   *)
(* the signals of that action, in the order they are emitted.  The signals *)
(* that end a write do not say whose write it was.                         *)
(***************************************************************************)
EXTENDS SettingsClient

\* The flag m_hasRequestedValue tells a choice from none.
ASSUME NoChoiceAssumption == None \notin BOOLEAN

VARIABLE dnd

switchVars == <<settingsVars, dnd>>

Dnd == [state : {"Loading", "Ready", "Saving", "Conflict", "Unavailable"},
        enabled : BOOLEAN,                \* m_enabled
        baseline : BOOLEAN,               \* m_hasBaseline
        requested : BOOLEAN \cup {None},  \* m_requestedValue, m_hasRequestedValue
        inFlight : BOOLEAN,               \* m_commitInFlight
        waiting : BOOLEAN,                \* m_waitingForCommitSnapshot
        intent : BOOLEAN,                 \* m_conflictIntent
        readback : 0 .. MaxRevision,      \* m_readbackRevision
        writeOwner : Owner \cup {NoOwner}]

InitSwitch ==
    dnd = [state |-> "Loading", enabled |-> FALSE, baseline |-> FALSE, requested |-> None,
           inFlight |-> FALSE, waiting |-> FALSE, intent |-> FALSE, readback |-> 0,
           writeOwner |-> NoOwner]

-----------------------------------------------------------------------------
(* What the switch does on the client's signals.                            *)

\* handleClientState(), with the client as the event leaves it.
retired(d) == [d EXCEPT !.waiting = FALSE, !.requested = None, !.readback = 0]
M_handleClientState(d) ==
    CASE clientState' = "Ready" ->
             IF d.baseline /\ ~d.waiting THEN [d EXCEPT !.state = "Ready"] ELSE d
      [] clientState' = "Authenticating" ->
             [d EXCEPT !.state = IF d.waiting THEN "Saving" ELSE "Loading"]
      [] OTHER -> [d EXCEPT !.state = "Unavailable"]
handleClientState(d) ==
    LET e == IF d.waiting /\ d.writeOwner # owner' THEN retired(d) ELSE d
    IN  CASE clientState' = "Ready" ->
                 IF e.baseline /\ ~e.waiting /\ ~e.intent THEN [e EXCEPT !.state = "Ready"]
                 ELSE e
          [] clientState' = "Authenticating" ->
                 [e EXCEPT !.state =
                     IF snapshot' # None /\ snapshot'.owner = owner'
                     THEN IF e.waiting THEN "Saving" ELSE "Loading"
                     ELSE IF e.baseline THEN "Unavailable" ELSE "Loading"]
          [] OTHER ->
                 [(IF e.waiting THEN retired(e) ELSE [e EXCEPT !.readback = 0])
                     EXCEPT !.state = "Unavailable"]

\* stateChanged and ownerChanged: publish() signals a new state or a new error,
\* and the errors of two failures are taken to differ; setOwner() signals a new
\* owner.  When both signal, the later call decides.
published ==
    /\ client' # client
    /\ \/ clientState' # clientState
       \/ owner' # owner
       \/ clientState' \in {"Unavailable", "Degraded"}

M_follow(d) ==
    IF clientState' \in {clientState, "Degraded"} THEN d ELSE handleClientState(d)
follow(d) == IF published THEN handleClientState(d) ELSE d

\* The commitUncertain signal.
M_handleUncertain(d) == d
handleUncertain(d) ==
    IF write = None \/ ~d.inFlight THEN d
    ELSE [d EXCEPT !.inFlight = FALSE, !.waiting = FALSE, !.intent = FALSE,
                   !.requested = None, !.state = "Unavailable"]

\* The snapshotChanged signal.
M_settleIntent(e, lost) == [e EXCEPT !.state = "Conflict"]
settleIntent(e, lost) ==
    IF lost THEN [e EXCEPT !.state = "Conflict"]
    ELSE [e EXCEPT !.intent = FALSE, !.requested = None, !.state = "Ready"]

afterSnapshot(d) ==
    LET e == [d EXCEPT !.enabled = snapshot'.value, !.baseline = TRUE, !.waiting = FALSE]
        lost == d.requested # None /\ d.requested # e.enabled
    IN  IF d.intent
        THEN settleIntent(e, lost)
        ELSE IF d.waiting /\ snapshot'.rev < d.readback
             THEN [retired(e) EXCEPT !.state = "Unavailable"]
        ELSE IF d.waiting /\ lost
             THEN [e EXCEPT !.readback = 0, !.intent = TRUE, !.state = "Conflict"]
        ELSE IF d.waiting THEN [retired(e) EXCEPT !.state = "Ready"]
        ELSE [e EXCEPT !.state = "Ready"]

\* The commitFinished signal.
M_afterCommit(d, m) ==
    IF d.inFlight
    THEN [d EXCEPT !.inFlight = FALSE, !.waiting = (m.status = "applied"), !.intent = FALSE,
                   !.readback = m.snapshot.rev + 1, !.state = "Saving"]
    ELSE d
afterCommit(d, m) ==
    LET e == [d EXCEPT !.inFlight = FALSE]
    IN  IF ~d.inFlight THEN d
        ELSE IF m.status = "applied"
        THEN [e EXCEPT !.waiting = TRUE, !.readback = m.snapshot.rev, !.intent = FALSE,
                       !.state = "Saving"]
        ELSE IF m.status = "conflict" /\ d.requested = m.snapshot.value
        THEN [e EXCEPT !.waiting = TRUE, !.intent = FALSE, !.state = "Saving"]
        ELSE IF m.status = "conflict"
        THEN [e EXCEPT !.waiting = FALSE, !.intent = TRUE, !.state = "Conflict"]
        ELSE [e EXCEPT !.requested = None, !.waiting = FALSE, !.intent = FALSE,
                       !.state = "Ready"]

-----------------------------------------------------------------------------
(* The user's calls: the switch, and the schedule beside it.                *)

choose(v) ==
    /\ [by |-> "switch", value |-> v] \in Write
    /\ setUserValue([by |-> "switch", value |-> v])
    /\ dnd' = [dnd EXCEPT !.state = "Saving", !.requested = v, !.inFlight = TRUE,
                          !.waiting = FALSE, !.intent = FALSE, !.readback = 0,
                          !.writeOwner = owner]
requestSet == dnd.state = "Ready" /\ \E v \in BOOLEAN : choose(v)
applyMyChoice == dnd.state = "Conflict" /\ dnd.requested # None /\ choose(dnd.requested)
setSchedule ==
    /\ [by |-> "schedule", value |-> FALSE] \in Write
    /\ setUserValue([by |-> "schedule", value |-> FALSE]) /\ UNCHANGED dnd

-----------------------------------------------------------------------------
(* The client's events.                                                     *)

snapshotAccepted == answers(Head(inbox)) /\ ~regressed(Head(inbox).snapshot)

onSnapshot ==
    /\ handleSnapshot
    /\ dnd' = IF snapshotAccepted THEN afterSnapshot(follow(dnd)) ELSE follow(dnd)
onCommit ==
    /\ handleCommit
    /\ dnd' = IF finishes(Head(inbox)) THEN follow(afterCommit(dnd, Head(inbox))) ELSE dnd
onLoss ==
    /\ handleOwnerChanged \/ handleFailure \/ timeout \/ handleBusDisconnected
    /\ dnd' = IF write' = None THEN handleUncertain(follow(dnd)) ELSE dnd
\* (The shell stops the client of the switch only when it ends itself.)
onOther ==
    \/ (start \/ handleActivation) /\ dnd' = follow(dnd)
    \/ (refresh \/ handleInvalidation \/ handleRefreshTimer) /\ UNCHANGED dnd
elsewhere ==
    /\ answersOfTheBus \/ otherCommit \/ otherActivation \/ die \/ reconnect
    /\ UNCHANGED dnd

InitDnd == Init /\ InitSwitch
NextDnd ==
    \/ requestSet \/ applyMyChoice \/ setSchedule
    \/ onSnapshot \/ onCommit \/ onLoss \/ onOther \/ elsewhere
SpecDnd == InitDnd /\ [][NextDnd]_switchVars

-----------------------------------------------------------------------------
(* Properties.                                                              *)

\* Type invariant of the switch.
TypeOKDnd == TypeOK /\ dnd \in Dnd

\* The switch takes the end of a write for its own exactly when the write in
\* flight is its own, though the completion signals are untagged and the
\* schedule's writes end on them too (AGENT-GUARD in handleCommit).
OwnCompletion == dnd.inFlight <=> write # None /\ write.by = "switch"

\* "Saving" is shown only for a write of the switch that is in flight, or while
\* the client is about to read its result back.
SavingMeansPending ==
    dnd.state = "Saving" =>
        \/ dnd.inFlight
        \/ dnd.waiting /\ clientState = "Authenticating" /\ (timer \/ request # None)

\* Once the client is Ready the switch shows the setting of its snapshot; when
\* nothing is in flight either, it can be used, and a conflict it shows is one.
SwitchFollowsClient ==
    clientState = "Ready" =>
        /\ dnd.baseline /\ dnd.enabled = snapshot.value
        /\ request = None =>
              \/ dnd.state = "Ready"
              \/ dnd.state = "Conflict" /\ dnd.requested = ~dnd.enabled

\* A save is shown as done only when a snapshot taken after the commit, from the
\* service that applied it, shows the requested value.
SavedIsConfirmed ==
    [][dnd.state = "Saving" /\ dnd'.state = "Ready" =>
           /\ dnd.waiting
           /\ snapshot'.owner = dnd.writeOwner /\ snapshot'.rev >= dnd.readback
           /\ dnd'.enabled = dnd.requested]_switchVars
=============================================================================
