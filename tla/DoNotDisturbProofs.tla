------------------------- MODULE DoNotDisturbProofs -------------------------
(***************************************************************************)
(* The switch on its client, for any number of processes, revisions and    *)
(* requests: it adds nothing to what the client may do, it knows its own   *)
(* writes among those of the schedule, and it never stays in Saving when   *)
(* nothing is under way.                                                   *)
(***************************************************************************)
EXTENDS DoNotDisturb, SettingsClientRefinement

\* Waiting for the read-back means that the client has an owner and is about to
\* read: the timer runs, or a request is in flight.
WaitingMeansReading ==
    dnd.waiting => /\ clientState = "Authenticating" /\ owner # NoOwner
                   /\ timer \/ request # None

\* "Saving" has one of two reasons.
SavingHasReason == dnd.state = "Saving" => dnd.inFlight \/ dnd.waiting

SwitchInv ==
    ClientInv /\ dnd \in Dnd /\ OwnCompletion /\ WaitingMeansReading /\ SavingHasReason

-----------------------------------------------------------------------------
(* The switch takes the client by steps of its own.                         *)

LEMMA SwitchStepsAreClientSteps == NextDnd => Next
BY DEF NextDnd, requestSet, applyMyChoice, choose, setSchedule, onSnapshot, onCommit, onLoss,
       onOther, elsewhere, Next, deliveries

\* The switch composed with its client implements the client.
THEOREM SwitchImplementsClient == SpecDnd => Spec
<1>1. InitDnd => Init BY DEF InitDnd
<1>2. [NextDnd]_switchVars => [Next]_settingsVars
  BY SwitchStepsAreClientSteps DEF switchVars
<1> QED BY <1>1, <1>2, PTL DEF SpecDnd, Spec

\* The promise to a writer holds for the switch and the schedule together.
THEOREM SwitchKeepsPromise == SpecDnd => KeepsPromise
BY SwitchImplementsClient, ClientKeepsPromise, PTL

-----------------------------------------------------------------------------
(* The switch's functions.                                                  *)

LEMMA RetiredKeeps ==
    ASSUME NEW d \in Dnd
    PROVE  /\ retired(d) \in Dnd /\ ~retired(d).waiting
           /\ retired(d).inFlight = d.inFlight /\ retired(d).state = d.state
           /\ retired(d).baseline = d.baseline /\ retired(d).intent = d.intent
<1>1. 0 \in 0 .. MaxRevision BY BoundsAssumption
<1> QED BY <1>1 DEF retired, Dnd

\* handleClientState() leaves the write alone; a client that is not reading or
\* ready ends the wait, and "Saving" is only shown in a wait.
LEMMA FollowKeeps ==
    ASSUME NEW d \in Dnd
    PROVE  /\ follow(d) \in Dnd /\ follow(d).inFlight = d.inFlight
           /\ follow(d).waiting => d.waiting
           /\ published /\ clientState' \notin {"Ready", "Authenticating"} =>
                 ~follow(d).waiting /\ follow(d).state = "Unavailable"
           /\ published /\ clientState' # "Ready" =>
                 (follow(d).state = "Saving" => follow(d).waiting)
           /\ ~published =>
                 follow(d) = d /\ UNCHANGED <<clientState, owner>>
<1> DEFINE e == IF d.waiting /\ d.writeOwner # owner' THEN retired(d) ELSE d
<1>1. /\ e \in Dnd /\ e.inFlight = d.inFlight /\ e.state = d.state /\ (e.waiting => d.waiting)
  BY RetiredKeeps
<1> HIDE DEF e
<1>2. 0 \in 0 .. MaxRevision BY BoundsAssumption
<1>3. CASE ~published
  <2>1. follow(d) = d BY <1>3 DEF follow
  <2>2. UNCHANGED <<clientState, owner>> BY <1>3 DEF published, client
  <2> QED BY <1>3, <2>1, <2>2
<1>4. CASE published /\ clientState' = "Ready"
  BY <1>1, <1>4 DEF follow, handleClientState, e, Dnd
<1>5. CASE published /\ clientState' = "Authenticating"
  BY <1>1, <1>5 DEF follow, handleClientState, e, Dnd
<1>6. CASE published /\ clientState' \notin {"Ready", "Authenticating"}
  BY <1>1, <1>2, <1>6, RetiredKeeps DEF follow, handleClientState, e, Dnd
<1> QED BY <1>3, <1>4, <1>5, <1>6

\* A snapshot ends every wait.
LEMMA AfterSnapshotKeeps ==
    ASSUME NEW d \in Dnd, snapshot' \in Snapshot
    PROVE  /\ afterSnapshot(d) \in Dnd /\ afterSnapshot(d).inFlight = d.inFlight
           /\ ~afterSnapshot(d).waiting /\ afterSnapshot(d).state # "Saving"
<1> DEFINE e == [d EXCEPT !.enabled = snapshot'.value, !.baseline = TRUE, !.waiting = FALSE]
           lost == d.requested # None /\ d.requested # e.enabled
<1>1. /\ e \in Dnd /\ e.inFlight = d.inFlight /\ ~e.waiting BY DEF Dnd, Snapshot
<1>2. 0 \in 0 .. MaxRevision BY BoundsAssumption
<1>3. afterSnapshot(d) \in
         {settleIntent(e, lost), [retired(e) EXCEPT !.state = "Unavailable"],
          [e EXCEPT !.readback = 0, !.intent = TRUE, !.state = "Conflict"],
          [retired(e) EXCEPT !.state = "Ready"], [e EXCEPT !.state = "Ready"]}
  BY DEF afterSnapshot
<1> HIDE DEF e, lost
<1>4. \A x \in {"Unavailable", "Ready"} :
         LET f == [retired(e) EXCEPT !.state = x]
         IN  f \in Dnd /\ f.inFlight = e.inFlight /\ ~f.waiting /\ f.state # "Saving"
  <2>1. retired(e) \in Dnd /\ ~retired(e).waiting /\ retired(e).inFlight = e.inFlight
    BY <1>1, RetiredKeeps
  <2> QED BY <2>1 DEF Dnd
<1>5. LET f == settleIntent(e, lost)
      IN  f \in Dnd /\ f.inFlight = e.inFlight /\ ~f.waiting /\ f.state # "Saving"
  BY <1>1 DEF settleIntent, Dnd
<1>6. LET f == [e EXCEPT !.readback = 0, !.intent = TRUE, !.state = "Conflict"]
      IN  f \in Dnd /\ f.inFlight = e.inFlight /\ ~f.waiting /\ f.state # "Saving"
  BY <1>1, <1>2 DEF Dnd
<1>7. LET f == [e EXCEPT !.state = "Ready"]
      IN  f \in Dnd /\ f.inFlight = e.inFlight /\ ~f.waiting /\ f.state # "Saving"
  BY <1>1 DEF Dnd
<1> QED BY <1>1, <1>3, <1>4, <1>5, <1>6, <1>7

\* The end of a commit ends the switch's own write, if it is one.
LEMMA AfterCommitKeeps ==
    ASSUME NEW d \in Dnd, NEW m, m.snapshot \in Snapshot
    PROVE  /\ afterCommit(d, m) \in Dnd /\ ~afterCommit(d, m).inFlight
           /\ afterCommit(d, m).state = "Saving" /\ d.inFlight => afterCommit(d, m).waiting
           /\ ~d.inFlight => afterCommit(d, m) = d
<1>1. m.snapshot.rev \in 0 .. MaxRevision BY DEF Snapshot
<1>2. CASE ~d.inFlight BY <1>2 DEF afterCommit
<1>3. CASE d.inFlight
  <2> DEFINE e == [d EXCEPT !.inFlight = FALSE]
  <2>1. e \in Dnd /\ ~e.inFlight BY DEF Dnd
  <2>2. afterCommit(d, m) \in
          {[e EXCEPT !.waiting = TRUE, !.readback = m.snapshot.rev, !.intent = FALSE,
                     !.state = "Saving"],
           [e EXCEPT !.waiting = TRUE, !.intent = FALSE, !.state = "Saving"],
           [e EXCEPT !.waiting = FALSE, !.intent = TRUE, !.state = "Conflict"],
           [e EXCEPT !.requested = None, !.waiting = FALSE, !.intent = FALSE, !.state = "Ready"]}
    BY <1>3 DEF afterCommit
  <2> HIDE DEF e
  <2>3. \A f \in {[e EXCEPT !.waiting = TRUE, !.readback = m.snapshot.rev, !.intent = FALSE,
                         !.state = "Saving"],
               [e EXCEPT !.waiting = TRUE, !.intent = FALSE, !.state = "Saving"]} :
           f \in Dnd /\ ~f.inFlight /\ f.waiting
    BY <1>1, <2>1 DEF Dnd
  <2>4. \A f \in {[e EXCEPT !.waiting = FALSE, !.intent = TRUE, !.state = "Conflict"],
               [e EXCEPT !.requested = None, !.waiting = FALSE, !.intent = FALSE, !.state = "Ready"]} :
           f \in Dnd /\ ~f.inFlight /\ f.state # "Saving"
    BY <2>1 DEF Dnd
  <2> QED BY <1>3, <2>2, <2>3, <2>4
<1> QED BY <1>2, <1>3

LEMMA UncertainKeeps ==
    ASSUME NEW d \in Dnd
    PROVE  /\ handleUncertain(d) \in Dnd
           /\ write = None \/ ~d.inFlight => handleUncertain(d) = d
           /\ write # None /\ d.inFlight =>
                 /\ ~handleUncertain(d).inFlight /\ ~handleUncertain(d).waiting
                 /\ handleUncertain(d).state # "Saving"
BY DEF handleUncertain, Dnd

-----------------------------------------------------------------------------
(* The steps keep the invariant.                                            *)

SwitchPart == dnd \in Dnd /\ OwnCompletion /\ WaitingMeansReading /\ SavingHasReason

\* The switch is Ready or in Conflict while no write is under way, and starts one.
LEMMA ChooseStep ==
    ASSUME SwitchInv, requestSet \/ applyMyChoice
    PROVE  SwitchPart'
<1>1. PICK v \in BOOLEAN : choose(v)
  BY DEF requestSet, applyMyChoice, SwitchInv, Dnd
<1>2. owner \in Owner /\ clientState' = clientState /\ clientState = "Ready"
  BY <1>1 DEF choose, setUserValue, canSetUserValue, SwitchInv, ClientInv, TypeOK, Linked, NoOwner, Owner
<1>3. /\ dnd' \in Dnd /\ dnd'.inFlight /\ ~dnd'.waiting
  <2>1. 0 \in 0 .. MaxRevision BY BoundsAssumption
  <2> QED BY <1>1, <1>2, <2>1 DEF choose, SwitchInv, Dnd
<1>4. write' # None /\ write'.by = "switch"
  BY <1>1, NoneAssumption DEF choose, setUserValue
<1> QED BY <1>3, <1>4 DEF SwitchPart, OwnCompletion, WaitingMeansReading, SavingHasReason

LEMMA ScheduleStep ==
    ASSUME SwitchInv, setSchedule
    PROVE  SwitchPart'
<1>1. /\ dnd' = dnd /\ write = None /\ write' # None /\ write'.by = "schedule"
      /\ clientState = "Ready" /\ clientState' = "Ready"
  BY NoneAssumption DEF setSchedule, setUserValue, canSetUserValue
<1> QED BY <1>1 DEF SwitchInv, SwitchPart, OwnCompletion, WaitingMeansReading, SavingHasReason

\* Steps that leave the client and the switch alone.
LEMMA ElsewhereStep ==
    ASSUME SwitchInv, UNCHANGED <<dnd, write, clientState, owner, timer, request>>
    PROVE  SwitchPart'
BY DEF SwitchInv, SwitchPart, OwnCompletion, WaitingMeansReading, SavingHasReason

\* What the switch makes of a change of the client's state while a write stays,
\* or is not there.
LEMMA FollowStep ==
    ASSUME SwitchInv, UNCHANGED <<write, owner>>,
           dnd' = follow(dnd) \/ UNCHANGED <<dnd, clientState>>,
           clientState' \in {"Ready", "Authenticating", "Degraded", "Unavailable"},
           clientState' = "Ready" => clientState = "Ready",
           owner # NoOwner /\ (timer \/ request # None) => timer' \/ request' # None
    PROVE  SwitchPart'
<1>1. dnd \in Dnd /\ OwnCompletion /\ WaitingMeansReading /\ SavingHasReason BY DEF SwitchInv
<1>2. /\ follow(dnd) \in Dnd /\ follow(dnd).inFlight = dnd.inFlight
      /\ follow(dnd).waiting => dnd.waiting
      /\ published /\ clientState' \notin {"Ready", "Authenticating"} =>
             ~follow(dnd).waiting /\ follow(dnd).state = "Unavailable"
      /\ published /\ clientState' # "Ready" =>
              (follow(dnd).state = "Saving" => follow(dnd).waiting)
      /\ ~published => follow(dnd) = dnd /\ clientState' = clientState
  BY <1>1, FollowKeeps
<1>3. OwnCompletion' BY <1>1, <1>2 DEF OwnCompletion
<1>4. CASE UNCHANGED <<dnd, clientState>>
  BY <1>1, <1>3, <1>4 DEF SwitchPart, WaitingMeansReading, SavingHasReason
<1>5. CASE published /\ dnd' = follow(dnd)
  <2>1. clientState' # "Ready" BY <1>5 DEF published
  <2>2. dnd'.waiting => /\ clientState' = "Authenticating" /\ owner' # NoOwner
                        /\ timer' \/ request' # None
    BY <1>1, <1>2, <1>5, <2>1 DEF WaitingMeansReading
  <2> QED BY <1>2, <1>3, <1>5, <2>1, <2>2 DEF SwitchPart, WaitingMeansReading, SavingHasReason
<1> QED BY <1>2, <1>4, <1>5

LEMMA SnapshotSwitchStep ==
    ASSUME SwitchInv, onSnapshot
    PROVE  SwitchPart'
<1>1. /\ TypeOK /\ Linked /\ dnd \in Dnd /\ OwnCompletion /\ WaitingMeansReading /\ SavingHasReason
  BY DEF SwitchInv, ClientInv
<1>2. CASE answers(Head(inbox))
  <2>1. write = None /\ write' = None BY <1>1, <1>2 DEF onSnapshot, handleSnapshot, receive, answers, Linked
  <2>2. CASE regressed(Head(inbox).snapshot)
    <3>1. dnd' = follow(dnd) /\ clientState' = "Degraded" /\ owner' = owner /\ timer'
      BY <1>2, <2>2 DEF onSnapshot, handleSnapshot, snapshotAccepted
    <3> QED BY <2>1, <3>1, FollowStep
  <2>3. CASE ~regressed(Head(inbox).snapshot)
    <3>1. /\ dnd' = afterSnapshot(follow(dnd)) /\ snapshot' = Head(inbox).snapshot
      BY <1>2, <2>3 DEF onSnapshot, handleSnapshot, snapshotAccepted
    <3>2. snapshot' \in Snapshot
      BY <1>1, <3>1, ReceivedTyped, MessageFields DEF onSnapshot, handleSnapshot
    <3>3. follow(dnd) \in Dnd /\ follow(dnd).inFlight = dnd.inFlight BY <1>1, FollowKeeps
    <3>4. dnd' \in Dnd /\ dnd'.inFlight = dnd.inFlight /\ ~dnd'.waiting /\ dnd'.state # "Saving"
      BY <3>1, <3>2, <3>3, AfterSnapshotKeeps
    <3> QED BY <1>1, <2>1, <3>4 DEF SwitchPart, OwnCompletion, WaitingMeansReading, SavingHasReason
  <2> QED BY <2>2, <2>3
<1>3. CASE ~answers(Head(inbox))
  <2>1. dnd' = dnd /\ UNCHANGED <<write, clientState, owner, timer, request>>
    BY <1>3 DEF onSnapshot, handleSnapshot, snapshotAccepted, follow, published, client
  <2> QED BY <2>1, ElsewhereStep
<1> QED BY <1>2, <1>3

LEMMA CommitSwitchStep ==
    ASSUME SwitchInv, onCommit
    PROVE  SwitchPart'
<1>1. /\ TypeOK /\ Linked /\ dnd \in Dnd /\ OwnCompletion /\ WaitingMeansReading /\ SavingHasReason
  BY DEF SwitchInv, ClientInv
<1>2. CASE finishes(Head(inbox))
  <2> DEFINE d == afterCommit(dnd, Head(inbox))
  <2>1. /\ dnd' = follow(d) /\ write' = None /\ clientState' = "Authenticating" /\ timer'
        /\ owner' = owner /\ owner # NoOwner
    BY <1>1, <1>2 DEF onCommit, handleCommit, finishes, answers, TypeOK, Request, Owner, NoOwner
  <2>2. Head(inbox).snapshot \in Snapshot
    BY <1>1, ReceivedTyped, MessageFields DEF onCommit, handleCommit
  <2>3. /\ d \in Dnd /\ ~d.inFlight
        /\ d.state = "Saving" /\ dnd.inFlight => d.waiting
        /\ ~dnd.inFlight => d = dnd
    BY <1>1, <2>2, AfterCommitKeeps
  <2> HIDE DEF d
  <2>4. /\ follow(d) \in Dnd /\ ~follow(d).inFlight
        /\ published => (follow(d).state = "Saving" => follow(d).waiting)
        /\ ~published => follow(d) = d
    BY <2>1, <2>3, FollowKeeps
  <2>6. d.state = "Saving" => d.waiting BY <1>1, <2>3 DEF SavingHasReason
  <2> QED BY <2>1, <2>4, <2>6 DEF SwitchPart, OwnCompletion, WaitingMeansReading, SavingHasReason
<1>3. CASE ~finishes(Head(inbox))
  <2>1. dnd' = dnd /\ UNCHANGED <<write, clientState, owner, timer, request>>
    BY <1>3 DEF onCommit, handleCommit
  <2> QED BY <2>1, ElsewhereStep
<1> QED BY <1>2, <1>3

\* A loss that changes anything for the client is published, and ends the write.
LEMMA LossPublishes ==
    ASSUME handleOwnerChanged \/ handleFailure \/ timeout \/ handleBusDisconnected,
           ~UNCHANGED client
    PROVE  /\ write' = None /\ published
           /\ \/ clientState' \in {"Degraded", "Unavailable"}
              \/ clientState' = "Authenticating" /\ owner' # NoOwner /\ owner' # owner /\ timer'
<1>1. CASE handleOwnerChanged
  BY <1>1 DEF handleOwnerChanged, giveUpWrite, published
<1>2. CASE handleFailure \/ timeout
  BY <1>2 DEF handleFailure, timeout, fail, giveUpWrite, published
<1>3. CASE handleBusDisconnected
  BY <1>3 DEF handleBusDisconnected, giveUpWrite, client, published
<1> QED BY <1>1, <1>2, <1>3

LEMMA LossSwitchStep ==
    ASSUME SwitchInv, onLoss
    PROVE  SwitchPart'
<1>1. /\ TypeOK /\ Linked /\ dnd \in Dnd /\ OwnCompletion /\ WaitingMeansReading /\ SavingHasReason
  BY DEF SwitchInv, ClientInv
<1>2. CASE UNCHANGED client
  <2>1. follow(dnd) = dnd BY <1>2 DEF follow, published
  <2>2. UNCHANGED <<write, clientState, owner, timer, request>> BY <1>2 DEF client
  <2>3. write' = None => handleUncertain(dnd) = dnd BY <1>1, <2>2, UncertainKeeps
  <2>4. dnd' = dnd BY <2>1, <2>3 DEF onLoss
  <2> QED BY <2>2, <2>4, ElsewhereStep
<1>3. CASE ~UNCHANGED client
  <2>1. /\ write' = None /\ dnd' = handleUncertain(follow(dnd)) /\ published
        /\ \/ clientState' \in {"Degraded", "Unavailable"}
           \/ clientState' = "Authenticating" /\ owner' # NoOwner /\ timer'
    BY <1>3, LossPublishes DEF onLoss
  <2> DEFINE e == follow(dnd)
  <2>2. /\ e \in Dnd /\ e.inFlight = dnd.inFlight
        /\ e.waiting => dnd.waiting
        /\ clientState' \notin {"Ready", "Authenticating"} =>
              ~e.waiting /\ e.state = "Unavailable"
        /\ e.state = "Saving" => e.waiting
    BY <1>1, <2>1, FollowKeeps
  <2> HIDE DEF e
  <2>4. /\ handleUncertain(e) \in Dnd
        /\ write = None \/ ~e.inFlight => handleUncertain(e) = e
        /\ write # None /\ e.inFlight =>
              /\ ~handleUncertain(e).inFlight /\ ~handleUncertain(e).waiting
              /\ handleUncertain(e).state # "Saving"
    BY <2>2, UncertainKeeps
  <2>5. dnd' = handleUncertain(e) BY <2>1 DEF e
  <2>6. CASE write # None /\ e.inFlight
    BY <2>1, <2>4, <2>5, <2>6 DEF SwitchPart, OwnCompletion, WaitingMeansReading, SavingHasReason
  <2>7. CASE write = None \/ ~e.inFlight
    <3>1. dnd' = e /\ ~e.inFlight BY <1>1, <2>2, <2>4, <2>5, <2>7 DEF OwnCompletion
    <3>2. OwnCompletion' BY <2>1, <3>1 DEF OwnCompletion
    <3>3. e.waiting => clientState' = "Authenticating" BY <2>1, <2>2
    <3> QED BY <2>1, <2>2, <3>1, <3>2, <3>3 DEF SwitchPart, WaitingMeansReading, SavingHasReason
  <2> QED BY <2>6, <2>7
<1> QED BY <1>2, <1>3

LEMMA OtherSwitchStep ==
    ASSUME SwitchInv, onOther
    PROVE  SwitchPart'
<1>1. TypeOK /\ Linked BY DEF SwitchInv, ClientInv
<1>2. /\ dnd' = follow(dnd) \/ UNCHANGED <<dnd, clientState>>
      /\ UNCHANGED <<write, owner>>
      /\ clientState' \in {"Ready", "Authenticating", "Degraded", "Unavailable"}
      /\ clientState' = "Ready" => clientState = "Ready"
  BY <1>1 DEF onOther, start, startTransport, refresh, handleInvalidation, handleActivation,
     handleRefreshTimer, TypeOK
<1>3. owner # NoOwner /\ (timer \/ request # None) => timer' \/ request' # None
  <2>1. CASE start \/ refresh \/ handleInvalidation \/ handleActivation
    BY <2>1 DEF start, refresh, handleInvalidation, handleActivation
  <2>2. CASE handleRefreshTimer /\ owner # NoOwner
    BY <1>1, <2>2, NoneAssumption, NextTokenFresh
       DEF handleRefreshTimer, requestSnapshotNow, TypeOK, Request, Owner, NoOwner
  <2> QED BY <2>1, <2>2 DEF onOther
<1> QED BY <1>2, <1>3, FollowStep

\* The types of the switch; it knows its own writes; Saving always has a reason.
THEOREM SwitchInvariant == SpecDnd => []SwitchInv
<1>1. InitDnd => SwitchPart
  <2>1. ASSUME InitDnd
        PROVE  /\ dnd \in Dnd /\ ~dnd.inFlight /\ ~dnd.waiting
               /\ dnd.state = "Loading" /\ write = None
    <3>1. 0 \in 0 .. MaxRevision BY BoundsAssumption
    <3> QED BY <2>1, <3>1 DEF InitDnd, InitSwitch, Init, Dnd
  <2> QED BY <2>1 DEF SwitchPart, OwnCompletion, WaitingMeansReading, SavingHasReason
<1>2. SwitchInv /\ [NextDnd]_switchVars => SwitchPart'
  <2> SUFFICES ASSUME SwitchInv, [NextDnd]_switchVars PROVE SwitchPart' OBVIOUS
  <2>1. CASE elsewhere
    <3>1. UNCHANGED <<write, clientState, owner, timer, request>>
      BY <2>1 DEF elsewhere, answersOfTheBus, serveSnapshot, serveCommit, resolveOwner, activate,
         otherCommit, otherActivation, die, reconnect, client
    <3> QED BY <2>1, <3>1, ElsewhereStep DEF elsewhere
  <2>2. CASE UNCHANGED switchVars
    BY <2>2, ElsewhereStep DEF switchVars, settingsVars, client
  <2> QED BY <2>1, <2>2, ChooseStep, ScheduleStep, SnapshotSwitchStep, CommitSwitchStep,
             LossSwitchStep, OtherSwitchStep DEF NextDnd
<1>3. SwitchInv <=> ClientInv /\ SwitchPart BY DEF SwitchInv, SwitchPart
<1>4. SpecDnd => []ClientInv BY SwitchImplementsClient, ClientInvariant, PTL
<1> QED BY <1>1, <1>2, <1>3, <1>4, PTL DEF SpecDnd

\* The switch and its client are well typed.
THEOREM SwitchTypeCorrect == SpecDnd => []TypeOKDnd
<1>1. SwitchInv => TypeOKDnd BY DEF SwitchInv, ClientInv, TypeOKDnd
<1> QED BY <1>1, SwitchInvariant, PTL

\* Untagged as the client's signals are, the switch ends its own writes on them
\* and no other.
THEOREM EndsItsOwn == SpecDnd => []OwnCompletion
<1>1. SwitchInv => OwnCompletion BY DEF SwitchInv
<1> QED BY <1>1, SwitchInvariant, PTL

\* The switch is never left in Saving with nothing under way.
THEOREM NeverStuckSaving == SpecDnd => []SavingMeansPending
<1>1. SwitchInv => SavingMeansPending
  BY DEF SwitchInv, SavingMeansPending, SavingHasReason, WaitingMeansReading
<1> QED BY <1>1, SwitchInvariant, PTL

-----------------------------------------------------------------------------
(* What a save is confirmed by.                                             *)

\* What is read back from the owner is not older than revision r.
ReadsBack(r) ==
    /\ owner = serving => r <= rev
    /\ \A i \in 1 .. Len(inbox) :
          /\ request # None /\ inbox[i].kind = "snapshot"
          /\ inbox[i].token = request.token
          => r <= inbox[i].snapshot.rev

\* A save of the switch, in flight or read back, is with the client's owner.
SentTrue ==
    dnd.inFlight => /\ dnd.requested # None /\ ~dnd.waiting /\ ~dnd.intent
                    /\ dnd.readback = 0 /\ dnd.writeOwner = owner
AwaitedTrue ==
    dnd.waiting => /\ dnd.requested # None /\ ~dnd.intent /\ dnd.writeOwner = owner
                   /\ ReadsBack(dnd.readback)
SaveTrue ==
    /\ dnd.writeOwner <= births /\ SentTrue /\ AwaitedTrue
    /\ write # None => clientState = "Ready"

ConfirmInv == SwitchInv /\ NewsInv /\ SaveTrue /\ SwitchFollowsClient

\* Whatever the client and the service do, the read-back stays at least as new.
LEMMA ReadsBackStep ==
    ASSUME ClientInv, TypeOK', NewsInv, [Next]_settingsVars, NEW r \in Nat, ReadsBack(r),
           owner # NoOwner, owner' = owner, owner <= births
    PROVE  ReadsBack(r)'
<1>1. TypeOK /\ transportStarted BY DEF ClientInv, NewsInv, Deaf
<1>2. ASSUME Stays, inbox' = inbox, request' \in {request, None} PROVE ReadsBack(r)'
  BY <1>2 DEF ReadsBack, Stays
<1>3. CASE deliveries
  <2>1. /\ inbox # <<>> /\ inbox' = Tail(inbox) /\ UNCHANGED service /\ request' \in {request, None}
    BY <1>3 DEF deliveries, handleOwnerChanged, handleInvalidation, handleSnapshot, handleCommit,
           handleFailure, handleActivation, receive, fail, client
  <2>2. \A i \in 1 .. Len(inbox') : i + 1 \in 1 .. Len(inbox) /\ inbox'[i] = inbox[i + 1]
    BY <1>1, <2>1, ShiftOf DEF TypeOK
  <2> QED BY <2>1, <2>2 DEF ReadsBack, service
<1>4. ASSUME UNCHANGED <<serving, rev>>, Free # {}, request'.token = nextToken,
             NEW c, c.token = nextToken, send(c)
      PROVE  ReadsBack(r)'
  <2>1. nextToken \in Token /\ Fresh(inbox, calls, nextToken) BY <1>1, <1>4, NextTokenFresh
  <2>2. inbox' = inbox \/ inbox' = Append(inbox, Failure(nextToken, owner)) BY <1>4 DEF send
  <2>3. Failure(nextToken, owner) \in Message BY <1>1, <2>1, MessagesTyped DEF TypeOK, NoOwner
  <2>4. Grown /\ \A i : Later(i) => inbox'[i] = Failure(nextToken, owner)
    BY <1>1, <2>2, <2>3, AddsOne, AddsNone
  <2>5. ASSUME NEW i \in 1 .. Len(inbox'), inbox'[i].kind = "snapshot"
        PROVE  inbox'[i].token # nextToken
    <3>1. i \in 1 .. Len(inbox) \/ Later(i) BY <1>1, NewsTyped DEF Later, TypeOK
    <3>2. i \in 1 .. Len(inbox) /\ inbox'[i] = inbox[i] BY <2>4, <2>5, <3>1 DEF Grown, Failure
    <3> QED BY <2>1, <2>5, <3>2 DEF Fresh, Carrier
  <2> QED BY <1>4, <2>5 DEF ReadsBack
<1>5. CASE refresh \/ timeout \/ reconnect
  BY <1>2, <1>5 DEF refresh, timeout, fail, reconnect, client, service, Stays
<1>6. CASE \E w \in Write : setUserValue(w)
  <2>1. PICK w \in Write : setUserValue(w) BY <1>6
  <2> DEFINE c == CommitUserTransaction(nextToken, snapshot.rev, w)
  <2>2. /\ UNCHANGED <<serving, rev>> /\ Free # {} /\ request'.token = nextToken
        /\ c.token = nextToken /\ send(c)
    BY <2>1 DEF setUserValue, CommitUserTransaction
  <2> HIDE DEF c
  <2> QED BY <1>4, <2>2
<1>7. CASE handleRefreshTimer
  <2>1. Stays /\ requestSnapshotNow BY <1>7 DEF handleRefreshTimer, Stays
  <2>2. CASE request # None BY <1>2, <2>1, <2>2 DEF requestSnapshotNow
  <2>3. CASE request = None
    <3> DEFINE c == GetSnapshot(nextToken)
    <3>1. /\ UNCHANGED <<serving, rev>> /\ Free # {} /\ request'.token = nextToken
          /\ c.token = nextToken /\ send(c)
      BY <2>1, <2>3 DEF requestSnapshotNow, Stays, GetSnapshot
    <3> HIDE DEF c
    <3> QED BY <1>4, <3>1
  <2> QED BY <2>2, <2>3
<1>8. CASE answersOfTheBus \/ otherCommit \/ otherActivation \/ die
  <2>1. Moves /\ Tells /\ CallsTold
    BY <1>1, <1>8, SnapshotTells, CommitTells, BusTells, DeathTells DEF answersOfTheBus
  <2>2. request' = request
    BY <1>8 DEF answersOfTheBus, serveSnapshot, serveCommit, resolveOwner, activate, otherCommit,
                otherActivation, die, client
  <2>3. serving \in Nat /\ births \in Nat /\ rev \in Nat /\ owner \in Nat BY <1>1, NewsTyped
  <2>4. owner = serving' => r <= rev'
    BY <2>1, <2>3 DEF ReadsBack, Moves, Stays, Commits, Dies, IsBorn
  <2>5. ASSUME NEW i \in 1 .. Len(inbox'), request # None, inbox'[i].kind = "snapshot",
               inbox'[i].token = request.token
        PROVE  r <= inbox'[i].snapshot.rev
    <3>1. CASE i \in 1 .. Len(inbox) BY <2>1, <2>5, <3>1 DEF ReadsBack, Tells, Grown
    <3>2. CASE Later(i)
      <4>1. /\ inbox'[i].snapshot = SettingsNow' /\ calls # <<>> /\ serving' = serving
            /\ Head(calls).token = request.token
        BY <2>1, <2>5, <3>2 DEF Tells, CallsTold, Shows
      <4>2. 1 \in 1 .. Len(calls) /\ Head(calls) = calls[1]
        BY <1>1, <4>1, TailOf DEF TypeOK
      <4>3. serving = owner BY <2>5, <4>1, <4>2 DEF NewsInv, RequestTrue
      <4> QED BY <2>4, <4>1, <4>3 DEF SettingsNow
    <3> QED BY <1>1, <3>1, <3>2, NewsTyped DEF Later, TypeOK
  <2> QED BY <2>2, <2>4, <2>5 DEF ReadsBack
<1>9. CASE UNCHANGED settingsVars
  BY <1>2, <1>9 DEF settingsVars, client, bus, service, Stays
<1>10. ~start /\ ~stop /\ ~handleBusDisconnected
  BY <1>1 DEF start, stop, handleBusDisconnected
<1> QED BY <1>3, <1>5, <1>6, <1>7, <1>8, <1>9, <1>10 DEF Next

\* handleClientState() keeps the save that is awaited, until it retires it.
LEMMA FollowSaves ==
    ASSUME NEW d \in Dnd
    PROVE  /\ follow(d).writeOwner = d.writeOwner /\ follow(d).intent = d.intent
           /\ follow(d).waiting => follow(d).readback = d.readback
           /\ follow(d).waiting \/ ~d.waiting => follow(d).requested = d.requested
           /\ d.readback = 0 => follow(d).readback = 0
           /\ clientState' # "Ready" =>
                 (follow(d).state = "Ready" => ~published /\ d.state = "Ready")
           /\ d.waiting /\ d.writeOwner = owner' /\ clientState' = "Ready" => follow(d) = d
<1> DEFINE e == IF d.waiting /\ d.writeOwner # owner' THEN retired(d) ELSE d
<1>1. /\ retired(d) \in Dnd /\ retired(d).writeOwner = d.writeOwner
      /\ retired(d).intent = d.intent /\ ~retired(d).waiting /\ retired(d).readback = 0
      /\ retired(d).state = d.state
  <2>1. 0 \in 0 .. MaxRevision BY BoundsAssumption
  <2> QED BY <2>1 DEF retired, Dnd
<1>2. /\ e \in Dnd /\ e.writeOwner = d.writeOwner /\ e.intent = d.intent
      /\ e = d \/ (d.waiting /\ ~e.waiting /\ e.readback = 0 /\ d.writeOwner # owner')
  BY <1>1
<1>3. /\ retired(e) \in Dnd /\ retired(e).writeOwner = e.writeOwner
      /\ retired(e).intent = e.intent /\ ~retired(e).waiting /\ retired(e).readback = 0
  <2>1. 0 \in 0 .. MaxRevision BY BoundsAssumption
  <2> HIDE DEF e
  <2> QED BY <1>2, <2>1 DEF retired, Dnd
<1> HIDE DEF e
<1>4. CASE ~published BY <1>4 DEF follow
<1>5. CASE published /\ clientState' = "Ready"
  <2>1. follow(d) = IF e.baseline /\ ~e.waiting /\ ~e.intent THEN [e EXCEPT !.state = "Ready"] ELSE e
    BY <1>5 DEF follow, handleClientState, e
  <2> QED BY <1>2, <1>5, <2>1 DEF Dnd
<1>6. CASE published /\ clientState' = "Authenticating"
  <2>1. PICK s \in {"Saving", "Loading", "Unavailable"} : follow(d) = [e EXCEPT !.state = s]
    BY <1>6 DEF follow, handleClientState, e
  <2> QED BY <1>2, <1>6, <2>1 DEF Dnd
<1>7. CASE published /\ clientState' \notin {"Ready", "Authenticating"}
  <2> DEFINE f == IF e.waiting THEN retired(e) ELSE [e EXCEPT !.readback = 0]
  <2>1. follow(d) = [f EXCEPT !.state = "Unavailable"]
    BY <1>7 DEF follow, handleClientState, e
  <2>2. 0 \in 0 .. MaxRevision BY BoundsAssumption
  <2>3. /\ f \in Dnd /\ f.writeOwner = d.writeOwner /\ f.intent = d.intent /\ ~f.waiting
        /\ f.readback = 0 /\ (~d.waiting => f.requested = d.requested)
    BY <1>2, <1>3, <2>2 DEF Dnd
  <2> HIDE DEF f
  <2> QED BY <1>7, <2>1, <2>3 DEF Dnd
<1> QED BY <1>4, <1>5, <1>6, <1>7

\* What an accepted snapshot makes of the switch.
LEMMA AfterSnapshotShows ==
    ASSUME NEW d \in Dnd, snapshot' \in Snapshot,
           d.waiting => ~d.intent /\ d.requested # None /\ d.readback <= snapshot'.rev
    PROVE  /\ afterSnapshot(d).baseline /\ afterSnapshot(d).enabled = snapshot'.value
           /\ afterSnapshot(d).writeOwner = d.writeOwner
           /\ \/ afterSnapshot(d).state = "Ready"
              \/ /\ afterSnapshot(d).state = "Conflict"
                 /\ afterSnapshot(d).requested = ~snapshot'.value
           /\ d.waiting /\ afterSnapshot(d).state = "Ready" => d.requested = snapshot'.value
<1> DEFINE e == [d EXCEPT !.enabled = snapshot'.value, !.baseline = TRUE, !.waiting = FALSE]
           lost == d.requested # None /\ d.requested # snapshot'.value
<1>1. /\ e \in Dnd /\ e.baseline /\ e.enabled = snapshot'.value /\ ~e.waiting
      /\ e.requested = d.requested /\ e.writeOwner = d.writeOwner
  BY DEF Dnd, Snapshot
<1>2. snapshot'.rev \in Nat /\ d.readback \in Nat BY BoundsAssumption DEF Dnd, Snapshot
<1>3. ~(d.waiting /\ snapshot'.rev < d.readback) BY <1>2
<1>4. afterSnapshot(d) =
        IF d.intent THEN settleIntent(e, lost)
        ELSE IF d.waiting /\ lost
             THEN [e EXCEPT !.readback = 0, !.intent = TRUE, !.state = "Conflict"]
        ELSE IF d.waiting THEN [retired(e) EXCEPT !.state = "Ready"]
        ELSE [e EXCEPT !.state = "Ready"]
  BY <1>1, <1>3, Zenon DEF afterSnapshot
<1>5. lost => d.requested = ~snapshot'.value
  <2>1. d.requested \in BOOLEAN \cup {None} /\ snapshot'.value \in BOOLEAN BY DEF Dnd, Snapshot
  <2> QED BY <2>1
<1>6. 0 \in 0 .. MaxRevision BY BoundsAssumption
<1> HIDE DEF e
<1>7. CASE d.intent
  BY <1>1, <1>4, <1>5, <1>7 DEF settleIntent, Dnd
<1>8. CASE ~d.intent /\ d.waiting /\ lost
  BY <1>1, <1>4, <1>5, <1>6, <1>8 DEF Dnd
<1>9. CASE ~d.intent /\ d.waiting /\ ~lost
  BY <1>1, <1>4, <1>6, <1>9 DEF retired, Dnd
<1>10. CASE ~d.intent /\ ~d.waiting
  BY <1>1, <1>4, <1>10 DEF Dnd
<1> QED BY <1>7, <1>8, <1>9, <1>10

\* What the end of its own write makes of the switch.
LEMMA AfterCommitSaves ==
    ASSUME NEW d \in Dnd, NEW m, m.snapshot \in Snapshot, d.inFlight,
           d.requested # None, d.readback = 0
    PROVE  /\ afterCommit(d, m).writeOwner = d.writeOwner
           /\ afterCommit(d, m).waiting =>
                 /\ afterCommit(d, m).requested # None /\ ~afterCommit(d, m).intent
                 /\ afterCommit(d, m).readback <= m.snapshot.rev
<1> DEFINE e == [d EXCEPT !.inFlight = FALSE]
<1>1. /\ e \in Dnd /\ e.requested # None /\ e.readback = 0 /\ e.writeOwner = d.writeOwner
  BY DEF Dnd
<1>2. m.snapshot.rev \in 0 .. MaxRevision /\ m.snapshot.rev \in Nat
  BY BoundsAssumption DEF Snapshot
<1>3. afterCommit(d, m) \in
        {[e EXCEPT !.waiting = TRUE, !.readback = m.snapshot.rev, !.intent = FALSE,
                   !.state = "Saving"],
         [e EXCEPT !.waiting = TRUE, !.intent = FALSE, !.state = "Saving"],
         [e EXCEPT !.waiting = FALSE, !.intent = TRUE, !.state = "Conflict"],
         [e EXCEPT !.requested = None, !.waiting = FALSE, !.intent = FALSE, !.state = "Ready"]}
  BY DEF afterCommit
<1> DEFINE Saves(f) == /\ f.writeOwner = d.writeOwner
                       /\ f.waiting => /\ f.requested # None /\ ~f.intent
                                       /\ f.readback <= m.snapshot.rev
<1> HIDE DEF e
<1>4. Saves([e EXCEPT !.waiting = TRUE, !.readback = m.snapshot.rev, !.intent = FALSE,
                      !.state = "Saving"])
  BY <1>1, <1>2 DEF Dnd
<1>5. Saves([e EXCEPT !.waiting = TRUE, !.intent = FALSE, !.state = "Saving"])
  BY <1>1, <1>2 DEF Dnd
<1>6. /\ Saves([e EXCEPT !.waiting = FALSE, !.intent = TRUE, !.state = "Conflict"])
      /\ Saves([e EXCEPT !.requested = None, !.waiting = FALSE, !.intent = FALSE,
                         !.state = "Ready"])
  BY <1>1 DEF Dnd
<1>7. Saves(afterCommit(d, m))
  <2> HIDE DEF Saves
  <2> QED BY <1>3, <1>4, <1>5, <1>6
<1> QED BY <1>7

-----------------------------------------------------------------------------
(* The steps keep a save confirmed.                                         *)

\* A save that ends as done is confirmed by a snapshot of its own service.
Confirmed ==
    dnd.state = "Saving" /\ dnd'.state = "Ready" =>
        /\ dnd.waiting
        /\ snapshot'.owner = dnd.writeOwner /\ snapshot'.rev >= dnd.readback
        /\ dnd'.enabled = dnd.requested
ConfirmedPart == SaveTrue' /\ SwitchFollowsClient' /\ Confirmed

LEMMA ConfirmFacts ==
    ASSUME ConfirmInv
    PROVE  /\ ClientInv /\ TypeOK /\ Linked /\ NewsInv /\ dnd \in Dnd
           /\ OwnCompletion /\ WaitingMeansReading /\ SavingHasReason
           /\ dnd.writeOwner <= births /\ SentTrue /\ AwaitedTrue
           /\ write # None => clientState = "Ready"
           /\ dnd.waiting => write = None /\ clientState = "Authenticating"
           /\ clientState = "Ready" =>
                 owner # NoOwner /\ transportStarted /\ snapshot \in Snapshot /\ Known(snapshot)
                 /\ snapshot.owner = owner
<1>1. /\ ClientInv /\ TypeOK /\ Linked /\ NewsInv /\ dnd \in Dnd
      /\ OwnCompletion /\ WaitingMeansReading /\ SavingHasReason
      /\ dnd.writeOwner <= births /\ SentTrue /\ AwaitedTrue
      /\ write # None => clientState = "Ready"
  BY DEF ConfirmInv, SwitchInv, ClientInv, SaveTrue
<1>2. dnd.waiting => write = None /\ clientState = "Authenticating" BY <1>1 DEF WaitingMeansReading
<1>3. clientState = "Ready" =>
          owner # NoOwner /\ transportStarted /\ snapshot \in Snapshot /\ Known(snapshot)
          /\ snapshot.owner = owner
  BY <1>1, BoundsAssumption
  DEF NewsInv, SnapshotTrue, Deaf, TypeOK, Snapshot, Owner, NoOwner
<1> QED BY <1>1, <1>2, <1>3

LEMMA BirthsGrow ==
    ASSUME TypeOK, [Next]_settingsVars
    PROVE  births <= births'
<1>1. births \in Nat BY NewsTyped
<1>2. births' = births \/ births' = births + 1
  BY DEF Next, start, refresh, stop, setUserValue, deliveries, handleOwnerChanged,
         handleInvalidation, handleSnapshot, handleCommit, handleFailure, handleActivation, timeout,
         fail, handleRefreshTimer, handleBusDisconnected, answersOfTheBus, serveSnapshot,
         serveCommit, resolveOwner, activate, otherCommit, otherActivation, die, reconnect,
         settingsVars, service
<1> QED BY <1>1, <1>2

\* A step that starts no write and no wait.
LEMMA SaveKept ==
    ASSUME ConfirmInv, [Next]_settingsVars, TypeOK', dnd'.writeOwner = dnd.writeOwner,
           write' # None => clientState' = "Ready",
           dnd'.inFlight =>
               /\ dnd.inFlight /\ dnd'.requested = dnd.requested /\ dnd'.intent = dnd.intent
               /\ dnd'.readback = dnd.readback /\ owner' = owner /\ (dnd'.waiting => dnd.waiting),
           dnd'.waiting =>
               /\ dnd.waiting /\ dnd'.requested = dnd.requested /\ dnd'.intent = dnd.intent
               /\ dnd'.readback = dnd.readback /\ owner' = owner
    PROVE  SaveTrue'
<1>1. /\ ClientInv /\ TypeOK /\ NewsInv /\ dnd \in Dnd /\ WaitingMeansReading
      /\ dnd.writeOwner <= births /\ SentTrue /\ AwaitedTrue
  BY ConfirmFacts
<1>2. dnd'.writeOwner <= births'
  <2>1. dnd.writeOwner \in Nat /\ births \in Nat /\ births' \in Nat
    BY <1>1, BoundsAssumption DEF TypeOK, Dnd, Owner, NoOwner
  <2> QED BY <1>1, <2>1, BirthsGrow
<1>3. SentTrue' BY <1>1 DEF SentTrue
<1>4. AwaitedTrue'
  <2> SUFFICES ASSUME dnd'.waiting PROVE AwaitedTrue' BY DEF AwaitedTrue
  <2>1. /\ dnd'.requested # None /\ ~dnd'.intent /\ dnd'.writeOwner = owner'
        /\ owner # NoOwner /\ owner' = owner /\ owner <= births
    BY <1>1 DEF AwaitedTrue, WaitingMeansReading
  <2>2. PICK r \in Nat : r = dnd.readback BY <1>1, BoundsAssumption DEF Dnd
  <2>3. ReadsBack(r) BY <1>1, <2>2 DEF AwaitedTrue
  <2>4. ReadsBack(r)' BY <1>1, <2>1, <2>3, ReadsBackStep
  <2>5. dnd'.readback = r BY <2>2
  <2>6. ReadsBack(dnd.readback)' BY <2>4, <2>5 DEF ReadsBack
  <2> QED BY <2>1, <2>6 DEF AwaitedTrue
<1> QED BY <1>2, <1>3, <1>4 DEF SaveTrue

\* A step that leaves the switch and what it looks at alone.
LEMMA ElsewhereConfirms ==
    ASSUME ConfirmInv, [Next]_settingsVars, TypeOK',
           UNCHANGED <<dnd, write, clientState, owner, snapshot>>,
           request' = None => request = None
    PROVE  ConfirmedPart
<1>1. SaveTrue' BY SaveKept, ConfirmFacts
<1>2. SwitchFollowsClient' BY DEF ConfirmInv, SwitchFollowsClient
<1> QED BY <1>1, <1>2 DEF ConfirmedPart, Confirmed

LEMMA ChooseConfirms ==
    ASSUME ConfirmInv, TypeOK', requestSet \/ applyMyChoice
    PROVE  ConfirmedPart
<1>1. /\ TypeOK /\ NewsInv /\ dnd \in Dnd BY ConfirmFacts
<1>2. PICK v \in BOOLEAN : choose(v)
  BY <1>1 DEF requestSet, applyMyChoice, Dnd
<1> DEFINE w == [by |-> "switch", value |-> v]
<1>3. /\ setUserValue(w) /\ clientState = "Ready"
      /\ UNCHANGED <<owner, births, clientState, snapshot>> /\ Free # {}
      /\ request' = [token |-> nextToken, owner |-> owner, kind |-> "commit"]
  BY <1>2 DEF choose, setUserValue, canSetUserValue
<1>4. owner # NoOwner /\ owner <= births BY <1>3, ConfirmFacts DEF Known
<1>5. /\ dnd'.state = "Saving" /\ dnd'.requested = v /\ dnd'.inFlight /\ ~dnd'.waiting
      /\ ~dnd'.intent /\ dnd'.readback = 0 /\ dnd'.writeOwner = owner
      /\ dnd'.baseline = dnd.baseline /\ dnd'.enabled = dnd.enabled
  BY <1>1, <1>2 DEF choose, Dnd
<1>6. v # None BY NoChoiceAssumption
<1>7. request' # None
  <2>1. request' \in Request
    BY <1>1, <1>3, <1>4, NextTokenFresh DEF Request, TypeOK, NoOwner
  <2> QED BY <2>1, NoneAssumption
<1>8. SaveTrue' BY <1>3, <1>4, <1>5, <1>6 DEF SaveTrue, SentTrue, AwaitedTrue
<1>9. SwitchFollowsClient' BY <1>3, <1>5, <1>7 DEF ConfirmInv, SwitchFollowsClient
<1> QED BY <1>5, <1>8, <1>9 DEF ConfirmedPart, Confirmed

LEMMA ScheduleConfirms ==
    ASSUME ConfirmInv, TypeOK', setSchedule
    PROVE  ConfirmedPart
<1>1. /\ TypeOK /\ NewsInv /\ dnd \in Dnd /\ OwnCompletion BY ConfirmFacts
<1>2. PICK w \in Write : setUserValue(w) /\ dnd' = dnd BY DEF setSchedule
<1>3. /\ clientState = "Ready" /\ UNCHANGED <<owner, clientState, snapshot>> /\ Free # {}
      /\ request' = [token |-> nextToken, owner |-> owner, kind |-> "commit"]
      /\ write = None /\ Next
  BY <1>2 DEF setUserValue, canSetUserValue, Next
<1>4. ~dnd'.inFlight /\ ~dnd'.waiting BY <1>2, <1>3, ConfirmFacts DEF OwnCompletion
<1>5. request' # None
  <2>1. owner # NoOwner BY <1>3, ConfirmFacts
  <2>2. request' \in Request
    BY <1>1, <1>3, <2>1, NextTokenFresh DEF Request, TypeOK, NoOwner
  <2> QED BY <2>2, NoneAssumption
<1>6. SaveTrue' BY <1>2, <1>3, <1>4, SaveKept
<1>7. SwitchFollowsClient' BY <1>2, <1>3, <1>5 DEF ConfirmInv, SwitchFollowsClient
<1> QED BY <1>2, <1>6, <1>7 DEF ConfirmedPart, Confirmed

LEMMA SnapshotConfirms ==
    ASSUME ConfirmInv, TypeOK', onSnapshot
    PROVE  ConfirmedPart
<1> DEFINE m == Head(inbox)
<1>1. /\ TypeOK /\ Linked /\ NewsInv /\ dnd \in Dnd /\ OwnCompletion /\ SavingHasReason
      /\ SentTrue /\ AwaitedTrue /\ handleSnapshot /\ Next
  BY ConfirmFacts DEF onSnapshot, Next, deliveries
<1>2. CASE ~answers(m)
  <2>1. UNCHANGED <<dnd, write, clientState, owner, snapshot, request>>
    BY <1>1, <1>2 DEF onSnapshot, handleSnapshot, snapshotAccepted, follow, published, client
  <2> QED BY <1>1, <2>1, ElsewhereConfirms
<1>3. CASE answers(m)
  <2>1. /\ write = None /\ write' = None /\ owner' = owner /\ request' = None
        /\ ~dnd.inFlight /\ request # None /\ m.kind = "snapshot" /\ inbox # <<>>
        /\ m.token = request.token
    BY <1>1, <1>3 DEF onSnapshot, handleSnapshot, receive, answers, Linked, OwnCompletion
  <2>2. m = inbox[1] /\ 1 \in 1 .. Len(inbox) BY <1>1, <2>1, ShiftOf DEF TypeOK
  <2>3. m.snapshot \in Snapshot /\ m.snapshot.owner = owner
    BY <1>1, <2>1, <2>2, NewsTyped DEF NewsInv, RequestTrue, Shows
  <2>f. /\ follow(dnd) \in Dnd /\ follow(dnd).inFlight = dnd.inFlight
        /\ follow(dnd).waiting => dnd.waiting
        /\ published /\ clientState' \notin {"Ready", "Authenticating"} => ~follow(dnd).waiting
        /\ ~published => follow(dnd) = dnd /\ clientState' = clientState
    BY <1>1, FollowKeeps
  <2>g. /\ follow(dnd).writeOwner = dnd.writeOwner /\ follow(dnd).intent = dnd.intent
        /\ follow(dnd).waiting => follow(dnd).readback = dnd.readback
        /\ follow(dnd).waiting => follow(dnd).requested = dnd.requested
        /\ clientState' # "Ready" =>
              (follow(dnd).state = "Ready" => ~published /\ dnd.state = "Ready")
        /\ dnd.waiting /\ dnd.writeOwner = owner' /\ clientState' = "Ready" => follow(dnd) = dnd
    BY <1>1, FollowSaves
  <2>4. CASE regressed(m.snapshot)
    <3>1. dnd' = follow(dnd) /\ clientState' = "Degraded" /\ snapshot' = snapshot
      BY <1>3, <2>4 DEF onSnapshot, handleSnapshot, snapshotAccepted
    <3>2. ~dnd'.waiting BY <2>f, <3>1, ConfirmFacts
    <3>3. SaveTrue' BY <1>1, <2>1, <2>f, <2>g, <3>1, <3>2, SaveKept
    <3>4. SwitchFollowsClient' BY <3>1 DEF SwitchFollowsClient
    <3> QED BY <2>g, <3>1, <3>3, <3>4 DEF ConfirmedPart, Confirmed
  <2>5. CASE ~regressed(m.snapshot)
    <3>1. /\ dnd' = afterSnapshot(follow(dnd)) /\ clientState' = "Ready"
          /\ snapshot' = m.snapshot
      BY <1>3, <2>5 DEF onSnapshot, handleSnapshot, snapshotAccepted
    <3>2. dnd.waiting => ~dnd.intent /\ dnd.requested # None /\ dnd.writeOwner = owner
                         /\ dnd.readback <= m.snapshot.rev
      BY <1>1, <2>1, <2>2 DEF AwaitedTrue, ReadsBack
    <3> DEFINE d == follow(dnd)
    <3>3. d.waiting => ~d.intent /\ d.requested # None /\ d.readback <= snapshot'.rev
      BY <2>f, <2>g, <3>1, <3>2
    <3> HIDE DEF m
    <3>4. /\ dnd'.inFlight = d.inFlight /\ ~dnd'.waiting
      BY <2>3, <2>f, <3>1, AfterSnapshotKeeps
    <3>5. /\ dnd'.baseline /\ dnd'.enabled = snapshot'.value /\ dnd'.writeOwner = d.writeOwner
          /\ dnd'.state = "Ready" \/ (dnd'.state = "Conflict" /\ dnd'.requested = ~snapshot'.value)
          /\ d.waiting /\ dnd'.state = "Ready" => d.requested = snapshot'.value
      BY <2>3, <2>f, <3>1, <3>3, AfterSnapshotShows
    <3>6. SaveTrue' BY <1>1, <2>1, <2>f, <2>g, <3>4, <3>5, SaveKept
    <3>7. SwitchFollowsClient' BY <3>5, Zenon DEF SwitchFollowsClient
    <3>8. ASSUME dnd.state = "Saving", dnd'.state = "Ready"
          PROVE  /\ dnd.waiting /\ snapshot'.owner = dnd.writeOwner
                 /\ snapshot'.rev >= dnd.readback /\ dnd'.enabled = dnd.requested
      <4>1. dnd.waiting BY <1>1, <2>1, <3>8 DEF SavingHasReason
      <4>2. d = dnd BY <2>1, <2>g, <3>1, <3>2, <4>1
      <4>3. dnd'.enabled = dnd.requested BY <3>5, <3>8, <4>1, <4>2
      <4>4. snapshot'.rev \in Nat /\ dnd.readback \in Nat
        BY <1>1, <2>3, <3>1, BoundsAssumption DEF Dnd, Snapshot
      <4> QED BY <2>3, <3>1, <3>2, <4>1, <4>3, <4>4
    <3> QED BY <3>6, <3>7, <3>8 DEF ConfirmedPart, Confirmed
  <2> QED BY <2>4, <2>5
<1> QED BY <1>2, <1>3

LEMMA CommitConfirms ==
    ASSUME ConfirmInv, TypeOK', onCommit
    PROVE  ConfirmedPart
<1> DEFINE m == Head(inbox)  d == afterCommit(dnd, m)
<1>1. /\ TypeOK /\ NewsInv /\ dnd \in Dnd /\ OwnCompletion
      /\ SentTrue /\ AwaitedTrue /\ handleCommit /\ Next
      /\ dnd.writeOwner <= births /\ births' = births
      /\ UNCHANGED <<owner, snapshot>>
  BY ConfirmFacts DEF onCommit, Next, deliveries, handleCommit, service
<1>2. CASE ~finishes(m)
  <2>1. UNCHANGED <<dnd, write, clientState, owner, snapshot, request>>
    BY <1>1, <1>2 DEF onCommit, handleCommit
  <2> QED BY <1>1, <2>1, ElsewhereConfirms
<1>3. CASE finishes(m)
  <2>1. /\ write # None /\ write' = None /\ request' = None /\ request # None /\ inbox # <<>>
        /\ m.kind = "commit" /\ m.token = request.token
        /\ clientState' = "Authenticating" /\ dnd' = follow(d) /\ UNCHANGED <<serving, rev>>
    BY <1>1, <1>3 DEF onCommit, handleCommit, receive, finishes, answers, service
  <2>2. clientState = "Ready" /\ ~dnd.waiting BY <2>1, ConfirmFacts
  <2>3. m = inbox[1] /\ 1 \in 1 .. Len(inbox) BY <1>1, <2>1, ShiftOf DEF TypeOK
  <2>4. m.snapshot \in Snapshot /\ m.snapshot.owner = owner /\ Known(m.snapshot)
    BY <1>1, <2>1, <2>3, NewsTyped DEF NewsInv, RequestTrue, RepliesTrue, Shows
  <2> HIDE DEF m
  <2>5. d \in Dnd /\ ~d.inFlight /\ (~dnd.inFlight => d = dnd)
    BY <1>1, <2>4, AfterCommitKeeps
  <2>6. dnd.inFlight => d.writeOwner = dnd.writeOwner
                        /\ (d.waiting => d.requested # None /\ ~d.intent
                                         /\ d.readback <= m.snapshot.rev)
    BY <1>1, <2>4, AfterCommitSaves DEF SentTrue
  <2> HIDE DEF d
  <2>7. /\ ~follow(d).inFlight /\ (follow(d).waiting => d.waiting)
        /\ ~published => clientState' = clientState
    BY <2>5, FollowKeeps
  <2>8. /\ follow(d).writeOwner = d.writeOwner /\ follow(d).intent = d.intent
        /\ follow(d).waiting => follow(d).readback = d.readback
        /\ follow(d).waiting => follow(d).requested = d.requested
        /\ follow(d).state = "Ready" => ~published
    BY <2>1, <2>5, FollowSaves
  <2>9. SaveTrue'
    <3>1. CASE ~dnd.inFlight
      BY <1>1, <2>1, <2>2, <2>5, <2>7, <2>8, <3>1, SaveKept
    <3>2. CASE dnd.inFlight
      <4>1. /\ dnd'.writeOwner = dnd.writeOwner /\ dnd.writeOwner = owner /\ ~dnd'.inFlight
        BY <1>1, <2>1, <2>6, <2>7, <2>8, <3>2 DEF SentTrue
      <4>2. ASSUME dnd'.waiting
            PROVE  /\ dnd'.requested # None /\ ~dnd'.intent
                   /\ owner = serving => dnd'.readback <= rev
        <5>1. /\ dnd'.requested # None /\ ~dnd'.intent /\ dnd'.readback = d.readback
              /\ d.readback <= m.snapshot.rev
          BY <2>1, <2>6, <2>7, <2>8, <3>2, <4>2
        <5>2. m.snapshot.rev \in Nat /\ rev \in Nat /\ d.readback \in Nat
          BY <1>1, <2>4, <2>5, BoundsAssumption DEF TypeOK, Snapshot, Dnd
        <5>3. owner = serving => m.snapshot.rev <= rev BY <2>4 DEF Known
        <5> QED BY <5>1, <5>2, <5>3
      <4>3. SentTrue' BY <4>1 DEF SentTrue
      <4>4. AwaitedTrue' BY <1>1, <2>1, <4>1, <4>2 DEF AwaitedTrue, ReadsBack
      <4> QED BY <1>1, <2>1, <4>1, <4>3, <4>4 DEF SaveTrue
    <3> QED BY <3>1, <3>2
  <2>10. SwitchFollowsClient' BY <2>1 DEF SwitchFollowsClient
  <2> QED BY <2>1, <2>2, <2>7, <2>8, <2>9, <2>10 DEF ConfirmedPart, Confirmed
<1> QED BY <1>2, <1>3

LEMMA LossConfirms ==
    ASSUME ConfirmInv, TypeOK', onLoss
    PROVE  ConfirmedPart
<1>1. /\ ClientInv /\ TypeOK /\ NewsInv /\ dnd \in Dnd /\ OwnCompletion /\ WaitingMeansReading
      /\ SentTrue /\ Next /\ snapshot' = snapshot
  BY ConfirmFacts DEF onLoss, Next, deliveries, handleOwnerChanged, handleFailure, timeout, fail,
                      handleBusDisconnected, client
<1>2. CASE UNCHANGED client
  <2>1. follow(dnd) = dnd BY <1>2 DEF follow, published
  <2>2. UNCHANGED <<write, clientState, owner, request>> BY <1>2 DEF client
  <2>3. write' = None => handleUncertain(dnd) = dnd BY <1>1, <2>2, UncertainKeeps
  <2>4. dnd' = dnd BY <2>1, <2>3 DEF onLoss
  <2> QED BY <1>1, <2>2, <2>4, ElsewhereConfirms
<1>3. CASE ~UNCHANGED client
  <2>1. /\ write' = None /\ dnd' = handleUncertain(follow(dnd)) /\ published
        /\ \/ clientState' \in {"Degraded", "Unavailable"}
           \/ clientState' = "Authenticating" /\ owner' # NoOwner /\ owner' # owner
    BY <1>3, LossPublishes DEF onLoss
  <2> DEFINE e == follow(dnd)
  <2>2. /\ e \in Dnd /\ e.inFlight = dnd.inFlight /\ (e.waiting => dnd.waiting)
        /\ clientState' \notin {"Ready", "Authenticating"} => ~e.waiting
    BY <1>1, <2>1, FollowKeeps
  <2>3. /\ e.writeOwner = dnd.writeOwner
        /\ e.state # "Ready"
    BY <1>1, <2>1, FollowSaves
  <2> HIDE DEF e
  <2>4. /\ dnd' = handleUncertain(e)
        /\ write = None \/ ~e.inFlight => dnd' = e
        /\ write # None /\ e.inFlight =>
              ~dnd'.inFlight /\ ~dnd'.waiting /\ dnd'.state = "Unavailable"
        /\ dnd'.writeOwner = e.writeOwner
    BY <2>1, <2>2 DEF handleUncertain, Dnd, e
  <2>5. ~dnd'.inFlight /\ (dnd'.waiting => dnd.waiting /\ e.waiting)
    BY <1>1, <2>2, <2>4 DEF OwnCompletion
  <2>6. ASSUME dnd'.waiting PROVE FALSE
    <3>1. dnd.waiting /\ e.waiting BY <2>5, <2>6
    <3>2. clientState = "Authenticating" /\ owner # NoOwner BY <1>1, <3>1 DEF WaitingMeansReading
    <3>3. clientState' = "Authenticating" BY <2>1, <2>2, <3>1, <3>2
    <3>4. owner' # NoOwner /\ owner' # owner BY <2>1, <3>3
    <3> QED BY <1>1, <3>2, <3>4, NewsStep
  <2>7. SaveTrue' BY <1>1, <2>1, <2>3, <2>4, <2>5, <2>6, SaveKept
  <2>8. SwitchFollowsClient' BY <2>1 DEF SwitchFollowsClient
  <2>9. Confirmed BY <2>3, <2>4 DEF Confirmed
  <2> QED BY <2>7, <2>8, <2>9 DEF ConfirmedPart
<1> QED BY <1>2, <1>3

LEMMA OtherConfirms ==
    ASSUME ConfirmInv, TypeOK', onOther
    PROVE  ConfirmedPart
<1>1. /\ TypeOK /\ NewsInv /\ dnd \in Dnd /\ OwnCompletion /\ SentTrue /\ Next
      /\ UNCHANGED <<owner, snapshot, write>>
      /\ dnd' = follow(dnd) \/ UNCHANGED <<dnd, clientState>>
  BY ConfirmFacts DEF onOther, Next, deliveries, start, refresh, handleInvalidation,
                      handleActivation, handleRefreshTimer
<1>2. /\ clientState = "Ready" => clientState' = clientState
      /\ clientState' = "Ready" => clientState = "Ready"
      /\ request' = None => request = None
  <2>1. clientState = "Ready" => owner # NoOwner /\ transportStarted BY ConfirmFacts
  <2>2. CASE start BY <2>1, <2>2 DEF start, startTransport
  <2>3. CASE refresh \/ handleInvalidation BY <2>3 DEF refresh, handleInvalidation
  <2>4. CASE handleActivation BY <2>1, <2>4 DEF handleActivation
  <2>5. CASE handleRefreshTimer
    <3>1. clientState' = clientState BY <2>5 DEF handleRefreshTimer
    <3>2. ASSUME request # None PROVE request' # None
      BY <2>5, <3>2 DEF handleRefreshTimer, requestSnapshotNow
    <3> QED BY <3>1, <3>2
  <2> QED BY <2>2, <2>3, <2>4, <2>5 DEF onOther
<1>3. /\ dnd'.inFlight = dnd.inFlight /\ (dnd'.waiting => dnd.waiting) BY <1>1, FollowKeeps
<1>4. /\ dnd'.writeOwner = dnd.writeOwner /\ dnd'.intent = dnd.intent
      /\ dnd'.waiting => dnd'.readback = dnd.readback /\ dnd'.requested = dnd.requested
      /\ ~dnd.waiting => dnd'.requested = dnd.requested
      /\ dnd.readback = 0 => dnd'.readback = 0
      /\ clientState' # "Ready" =>
            (dnd'.state = "Ready" => dnd.state = "Ready")
  BY <1>1, FollowSaves
<1>5. dnd.inFlight => dnd.readback = 0 /\ ~dnd.waiting BY <1>1 DEF SentTrue
<1>6. write' # None => clientState' = "Ready" BY <1>1, <1>2, ConfirmFacts
<1>7. SaveTrue' BY <1>1, <1>3, <1>4, <1>5, <1>6, SaveKept
<1>8. clientState' = "Ready" => dnd' = dnd BY <1>1, <1>2 DEF follow, published
<1>9. SwitchFollowsClient' BY <1>1, <1>2, <1>8 DEF ConfirmInv, SwitchFollowsClient
<1>10. Confirmed BY <1>4, <1>8 DEF Confirmed
<1> QED BY <1>7, <1>9, <1>10 DEF ConfirmedPart

LEMMA ConfirmStep ==
    ASSUME ConfirmInv, [NextDnd]_switchVars
    PROVE  ConfirmedPart
<1>1. [Next]_settingsVars BY SwitchStepsAreClientSteps DEF switchVars
<1>2. TypeOK'
  <2>1. ClientInv BY ConfirmFacts
  <2>2. CASE Next BY <2>1, <2>2, TypeStep DEF ClientInv
  <2>3. CASE UNCHANGED settingsVars
    BY <2>1, <2>3 DEF ClientInv, TypeOK, settingsVars, client, bus, busState, service, history
  <2> QED BY <1>1, <2>2, <2>3
<1>3. CASE elsewhere \/ UNCHANGED switchVars
  <2>1. UNCHANGED <<dnd, write, clientState, owner, snapshot, request>>
    BY <1>3 DEF elsewhere, answersOfTheBus, serveSnapshot, serveCommit, resolveOwner, activate,
                otherCommit, otherActivation, die, reconnect, switchVars, settingsVars, client
  <2> QED BY <1>1, <1>2, <2>1, ElsewhereConfirms
<1> QED BY <1>2, <1>3, ChooseConfirms, ScheduleConfirms, SnapshotConfirms, CommitConfirms,
           LossConfirms, OtherConfirms DEF NextDnd

\* The news the client hears, the saves of the switch, and what it shows.
THEOREM ConfirmInvariant == SpecDnd => []ConfirmInv
<1>1. InitDnd => NewsInv BY NewsInit DEF InitDnd
<1>2. InitDnd => SaveTrue /\ SwitchFollowsClient
  <2> SUFFICES ASSUME InitDnd PROVE SaveTrue /\ SwitchFollowsClient OBVIOUS
  <2>1. /\ ~dnd.inFlight /\ ~dnd.waiting /\ dnd.writeOwner = 0 /\ births \in {0, 1}
        /\ write = None /\ clientState = "Unavailable"
    BY DEF InitDnd, InitSwitch, Init, NoOwner
  <2> QED BY <2>1 DEF SaveTrue, SentTrue, AwaitedTrue, SwitchFollowsClient
<1>3. ClientInv /\ NewsInv /\ [NextDnd]_switchVars => NewsInv'
  BY SwitchStepsAreClientSteps, NewsStep DEF switchVars
<1>4. ConfirmInv /\ [NextDnd]_switchVars => SaveTrue' /\ SwitchFollowsClient'
  BY ConfirmStep DEF ConfirmedPart
<1>5. ConfirmInv <=> SwitchInv /\ NewsInv /\ SaveTrue /\ SwitchFollowsClient BY DEF ConfirmInv
<1>6. SwitchInv => ClientInv BY DEF SwitchInv
<1> QED BY <1>1, <1>2, <1>3, <1>4, <1>5, <1>6, SwitchInvariant, PTL DEF SpecDnd

\* A switch on a Ready client shows the setting of the client's snapshot, and
\* can be used once nothing is in flight: no signal of the schedule's writes,
\* late reply or restart of the service leaves it behind (handleClientState).
THEOREM ShowsTheSetting == SpecDnd => []SwitchFollowsClient
<1>1. ConfirmInv => SwitchFollowsClient BY DEF ConfirmInv
<1> QED BY <1>1, ConfirmInvariant, PTL

\* A save is shown as done only on a snapshot of the service that applied it,
\* taken after the commit, that shows the requested value (handleSnapshot).
THEOREM SavesAreConfirmed == SpecDnd => SavedIsConfirmed
<1>1. ConfirmInv /\ [NextDnd]_switchVars =>
        [dnd.state = "Saving" /\ dnd'.state = "Ready" =>
            /\ dnd.waiting
            /\ snapshot'.owner = dnd.writeOwner /\ snapshot'.rev >= dnd.readback
            /\ dnd'.enabled = dnd.requested]_switchVars
  BY ConfirmStep DEF ConfirmedPart, Confirmed
<1> QED BY <1>1, ConfirmInvariant, PTL DEF SpecDnd, SavedIsConfirmed

=============================================================================
