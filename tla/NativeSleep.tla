----------------------------- MODULE NativeSleep -----------------------------
(***************************************************************************)
(* The supervisor's sleep: SleepCoordinator between logind, reached over   *)
(* LogindSleepTransport, and the native lock, reached over the lock        *)
(* runtime.  A client's request to sleep first locks the session and is    *)
(* sent to logind only behind the lock; and when any sleep is announced a  *)
(* gate locks the session and gives the delay inhibitor back once the lock *)
(* is on screen.                                                           *)
(*                                                                         *)
(* A handler calls back and forth between the three objects before it      *)
(* returns.  Their state is one record, and what each function does is a   *)
(* function from records to records, so that an action is the composition  *)
(* its handler is.  Whether the compositor takes a request for the lock is *)
(* the argument ok.                                                        *)
(*                                                                         *)
(* External: logind, whose signals and replies arrive in the order it sent *)
(* them, and the compositor's lock, of which the monitor is told late.     *)
(***************************************************************************)
EXTENDS Naturals, Sequences

CONSTANTS
    MaxRequests, \* bound: requests to sleep
    MaxSignals,  \* bound: messages of logind under way
    Faults       \* bound: "expire", logind sleeps though a delay is held;
                 \* "fail", it refuses calls or does not answer; "owner", it is
                 \* replaced; "admission", the session loses its admission;
                 \* "lock", the lock cannot be requested

ASSUME SleepBounds ==
    /\ MaxRequests \in Nat \ {0} /\ MaxSignals \in Nat \ {0}
    /\ Faults \subseteq {"expire", "fail", "owner", "admission", "lock"}

Requests == 1 .. MaxRequests

\* Calls to logind; "Can" and "Sleep" belong to a request.
Call == [method : {"Inhibit", "HintYes", "HintNo", "Can", "Sleep"}, id : 0 .. MaxRequests]
call(method) == [method |-> method, id |-> 0]

VARIABLES
    s,       \* the supervisor's record, below
    screen,  \* the compositor's lock: "Unlocked", "Locking", "Locked"
    news,    \* a change of it the monitor has not been told of
    system,  \* logind: "awake", "going" to sleep, "asleep"
    signals, \* logind's messages under way
    hint     \* logind's LockedHint: "yes", "no"

vars == <<s, screen, news, system, signals, hint>>

Supervisor ==
    [ready : BOOLEAN,           \* transport: bound to logind and subscribed
     admitted : BOOLEAN,        \* m_admission()
     preparing : BOOLEAN,       \* m_preparing
     delay : BOOLEAN,           \* m_delayFd >= 0
     acquiring : BOOLEAN,       \* m_acquiring
     retry : BOOLEAN,           \* m_maintenanceRetry is armed
     desired : {"none", "yes", "no"},   \* m_desiredHint
     confirmed : {"none", "yes", "no"}, \* m_confirmedHint
     hinting : BOOLEAN,         \* m_hintPending
     asking : BOOLEAN,          \* m_suspendPending
     dispatched : BOOLEAN,      \* m_mutationDispatched
     calls : SUBSET Call,       \* calls logind has not answered
     published : [available : BOOLEAN, delay : BOOLEAN, preparing : BOOLEAN],
     manual : BOOLEAN,          \* coordinator: m_manual
     authorized : BOOLEAN,      \* the request's serial is still m_serial
     sleepGate : BOOLEAN,       \* m_sleepGate
     offered : BOOLEAN,         \* m_published
     dispatch : {"none", "manual", "gate"}, \* runtime: m_suspendDispatch
     requesting : BOOLEAN,      \* m_requestPending
     slept : BOOLEAN,           \* m_preparingForSleep
     resumeLock : BOOLEAN,      \* m_resumeLockPending
     view : {"Unknown", "Unlocked", "Locking", "Locked"}, \* the lock monitor
     id : 0 .. MaxRequests,     \* requests accepted so far
     sent : SUBSET Requests,    \* requests whose action left for logind
     result : [Requests -> {"none", "Confirmed", "Refused", "Uncertain"}]]

available(r) == r.ready /\ r.admitted
preparingForSleep(r) == available(r) /\ r.preparing
hasDelayInhibitor(r) == available(r) /\ r.delay
Snapshot(r) == [available |-> available(r), delay |-> hasDelayInhibitor(r),
                preparing |-> preparingForSleep(r)]
M_presentationProtected(r) == r.view \in {"Locking", "Locked"}
\* Only a lock that is on screen protects the session.
presentationProtected(r) == r.view = "Locked"

canSuspend(r) ==
    /\ ~r.manual /\ ~preparingForSleep(r) /\ hasDelayInhibitor(r)
    /\ r.view \in {"Unlocked", "Locked"}

-----------------------------------------------------------------------------
(* What the functions of the three objects do to the record.                *)

notifyAvailability[r \in Supervisor] == [r EXCEPT !.offered = canSuspend(r)]

M_finishManual(r, result) ==
    IF ~r.manual THEN r ELSE [r EXCEPT !.manual = FALSE, !.result[r.id] = result]
finishManual(r, result) ==
    IF ~r.manual THEN r
    ELSE notifyAvailability[[r EXCEPT !.manual = FALSE, !.result[r.id] = result]]

M_outcome(r) == "Refused"
\* An action already sent cannot be called back: it is reported as uncertain.
outcome(r) == IF r.asking /\ r.dispatched THEN "Uncertain" ELSE "Refused"

cancelSleep[r \in Supervisor] ==
    IF ~r.asking THEN r
    ELSE finishManual([r EXCEPT !.asking = FALSE, !.dispatched = FALSE], outcome(r))

refuseManual[r \in Supervisor] == finishManual(cancelSleep[r], outcome(r))

sendLockedHint[r \in Supervisor] ==
    IF available(r) /\ r.desired # "none" /\ ~r.hinting /\ r.confirmed # r.desired
    THEN [r EXCEPT !.hinting = TRUE,
                   !.calls = @ \cup {call(IF r.desired = "yes" THEN "HintYes" ELSE "HintNo")}]
    ELSE r

\* Unknown and Locking leave the hint alone.
syncLockedHint[r \in Supervisor] ==
    notifyAvailability[
        CASE r.view = "Unlocked" -> sendLockedHint[[r EXCEPT !.desired = "no"]]
          [] r.view = "Locked" -> sendLockedHint[[r EXCEPT !.desired = "yes"]]
          [] OTHER -> r]

\* cancelSuspend(): a retired dispatch also ends the client's request.
cancelSuspend[r \in Supervisor] ==
    IF r.dispatch = "none" THEN r ELSE refuseManual[[r EXCEPT !.dispatch = "none"]]

authorityChanged[r \in Supervisor] ==
    syncLockedHint[
        IF available(r) THEN r
        ELSE refuseManual[cancelSuspend[[r EXCEPT !.authorized = FALSE, !.sleepGate = FALSE]]]]

publishAvailability[r \in Supervisor] ==
    IF Snapshot(r) = r.published THEN r
    ELSE authorityChanged[[r EXCEPT !.published = Snapshot(r)]]

acquireDelayInhibitor[r \in Supervisor] ==
    IF available(r) /\ ~r.preparing /\ ~r.acquiring /\ ~r.delay
    THEN [r EXCEPT !.acquiring = TRUE, !.calls = @ \cup {call("Inhibit")}] ELSE r

\* The two dispatches of the lock runtime: the request goes to logind, the
\* gate gives the delay back.
protectedAdmission(r) == r.manual /\ r.authorized /\ presentationProtected(r)

dispatchManual(r) ==
    IF protectedAdmission(r) /\ hasDelayInhibitor(r) /\ ~r.preparing /\ ~r.asking
    THEN [r EXCEPT !.asking = TRUE, !.dispatched = FALSE,
                   !.calls = @ \cup {[method |-> "Can", id |-> r.id]}]
    ELSE refuseManual[r]

dispatchGate(r) ==
    IF r.sleepGate /\ preparingForSleep(r) /\ presentationProtected(r)
    THEN publishAvailability[[r EXCEPT !.delay = FALSE]] ELSE r

dispatched(r, kind) == IF kind = "gate" THEN dispatchGate(r) ELSE dispatchManual(r)

finishSuspend[r \in Supervisor] ==
    IF r.dispatch = "none" THEN r
    ELSE IF presentationProtected(r)
         THEN dispatched([r EXCEPT !.dispatch = "none"], r.dispatch)
         ELSE cancelSuspend[r]

\* acquireForReason()
acquireForReason(r, ok) ==
    IF ok /\ ~r.requesting /\ r.view = "Unlocked" THEN [r EXCEPT !.requesting = TRUE] ELSE r

\* requestSuspend(): dispatched at once behind the lock, or once the lock is
\* there.  Without a known state the monitor is asked to look again.
requestSuspend(r, kind, ok) ==
    IF r.dispatch # "none" THEN r
    ELSE IF presentationProtected(r) THEN dispatched(r, kind)
    ELSE LET waiting == [r EXCEPT !.dispatch = kind]
             locked == acquireForReason(waiting, ok)
         IN  IF r.view # "Unlocked" THEN notifyAvailability[[waiting EXCEPT !.view = "Unknown"]]
             ELSE IF locked = waiting THEN cancelSuspend[waiting] ELSE locked

\* nativeStateChanged()
nativeStateChanged(r, ok) ==
    LET resumed == IF r.resumeLock /\ r.view # "Unknown"
                   THEN acquireForReason([r EXCEPT !.resumeLock = FALSE], ok) ELSE r
        retried == acquireForReason(resumed, ok)
    IN  IF resumed.dispatch # "none" /\ r.view = "Unlocked" /\ ~resumed.requesting
        THEN IF retried = resumed THEN cancelSuspend[resumed] ELSE retried
        ELSE resumed

\* A state the monitor publishes: stateChanged reaches the runtime and then
\* the coordinator, and after it protectionChanged does.
published(r, state, ok) ==
    LET changed == syncLockedHint[nativeStateChanged([r EXCEPT !.view = state], ok)]
    IN  IF state = r.view THEN r
        ELSE IF state = "Locked" THEN syncLockedHint[finishSuspend[changed]]
        ELSE changed

\* preparing() of the coordinator.
announced(r, ok) ==
    LET retired == cancelSuspend[[r EXCEPT !.slept = TRUE, !.authorized = FALSE]]
    IN  notifyAvailability[requestSuspend([retired EXCEPT !.sleepGate = TRUE], "gate", ok)]

ended(r, ok) ==
    LET awake == [IF r.slept THEN nativeStateChanged([r EXCEPT !.resumeLock = TRUE], ok) ELSE r
                  EXCEPT !.slept = FALSE, !.authorized = FALSE, !.sleepGate = FALSE]
    IN  notifyAvailability[acquireDelayInhibitor[refuseManual[cancelSuspend[awake]]]]

preparing(r, value, ok) ==
    IF ~available(r) THEN r ELSE IF value THEN announced(r, ok) ELSE ended(r, ok)

-----------------------------------------------------------------------------
(* The supervisor's events.                                                 *)

Oks == IF "lock" \in Faults THEN BOOLEAN ELSE {TRUE}
Frozen == system = "asleep"

keepWorld == UNCHANGED <<screen, news, system, hint>>
supervisor(r) == ~Frozen /\ s' = r /\ keepWorld /\ UNCHANGED signals

requestSleep ==
    /\ canSuspend(s) /\ s.id < MaxRequests
    /\ \E ok \in Oks :
          LET accepted == notifyAvailability[[s EXCEPT !.manual = TRUE, !.authorized = TRUE,
                                                       !.id = @ + 1]]
          IN  supervisor(IF s.dispatch = "none" THEN requestSuspend(accepted, "manual", ok)
                         ELSE refuseManual[accepted])

cancelRequest ==
    s.manual /\ supervisor(refuseManual[cancelSuspend[[s EXCEPT !.authorized = FALSE]]])

\* The deadlines: 17 s for a request, 15 s for the lock behind it or a gate.
M_requestDeadline == s.manual /\ supervisor(cancelSuspend[[s EXCEPT !.authorized = FALSE]])
requestDeadline ==
    s.manual /\ supervisor(refuseManual[cancelSuspend[[s EXCEPT !.authorized = FALSE]]])
suspendDeadline == s.dispatch # "none" /\ supervisor(cancelSuspend[s])

\* The user or an idle timeout asks for the lock.
requestLock == ~s.requesting /\ supervisor(acquireForReason(s, TRUE))

lockRefused ==
    /\ s.requesting /\ "lock" \in Faults
    /\ supervisor(cancelSuspend[[s EXCEPT !.requesting = FALSE]])

\* stateInvalidated and stateResolved of the monitor.
stateInvalidated ==
    /\ ~Frozen /\ news /\ news' = FALSE
    /\ s' = published(s, "Unknown", TRUE)
    /\ UNCHANGED <<screen, system, signals, hint>>

stateResolved ==
    \E ok \in Oks : s.view = "Unknown" /\ supervisor(published(s, screen, ok))

maintenanceRetry ==
    /\ s.retry
    /\ supervisor(sendLockedHint[acquireDelayInhibitor[[s EXCEPT !.retry = FALSE]]])

reevaluateAdmission ==
    /\ "admission" \in Faults
    /\ LET r == [s EXCEPT !.admitted = ~@]
       IN  supervisor(publishAvailability[
               IF ~r.admitted THEN [r EXCEPT !.delay = FALSE, !.retry = FALSE]
               ELSE IF r.ready /\ ~r.preparing THEN sendLockedHint[acquireDelayInhibitor[r]]
               ELSE r])

\* unbind(): logind's name changes hands.
unbind ==
    /\ ~Frozen /\ "owner" \in Faults /\ s.ready
    /\ s' = publishAvailability[cancelSleep[
               [s EXCEPT !.ready = FALSE, !.preparing = FALSE, !.acquiring = FALSE,
                         !.hinting = FALSE, !.confirmed = "none", !.delay = FALSE,
                         !.retry = FALSE, !.calls = {}]]]
    /\ signals' = <<>> /\ keepWorld

\* subscribe(), with logind's PreparingForSleep read back.
bind ==
    /\ ~s.ready
    /\ \E ok \in Oks :
          LET ready == publishAvailability[[s EXCEPT !.ready = TRUE]]
              known == preparing([ready EXCEPT !.preparing = system = "going"],
                                 system = "going", ok)
              kept == IF known.preparing THEN known ELSE acquireDelayInhibitor[known]
          IN  supervisor(publishAvailability[sendLockedHint[kept]])

-----------------------------------------------------------------------------
(* Messages of logind.                                                      *)

received(kind) == ~Frozen /\ signals # <<>> /\ Head(signals).kind = kind /\ signals' = Tail(signals)
message(kind) == [kind |-> kind, id |-> 0]

\* receivePrepare()
receivePrepare(value) ==
    /\ received(IF value THEN "sleep" ELSE "resume")
    /\ \E ok \in Oks :
          LET told == preparing([s EXCEPT !.preparing = value, !.retry = @ /\ ~value], value, ok)
          IN  s' = publishAvailability[IF value THEN told ELSE acquireDelayInhibitor[told]]
    /\ keepWorld

M_inhibited(granted) ==
    /\ received(IF granted THEN "granted" ELSE "denied")
    /\ s' = publishAvailability[[s EXCEPT !.acquiring = FALSE, !.delay = @ \/ granted]]
    /\ keepWorld
\* The reply to Inhibit.  A descriptor that comes during a sleep is closed.
inhibited(granted) ==
    /\ received(IF granted THEN "granted" ELSE "denied")
    /\ LET r == [s EXCEPT !.acquiring = FALSE]
       IN  s' = publishAvailability[
                  IF ~granted THEN [r EXCEPT !.retry = @ \/ ~r.preparing]
                  ELSE IF r.delay \/ (~r.preparing /\ r.admitted)
                       THEN [r EXCEPT !.delay = TRUE, !.retry = FALSE] ELSE r]
    /\ keepWorld

M_hinted(v) ==
    /\ received(v)
    /\ s' = IF v = "unhinted" THEN [s EXCEPT !.hinting = FALSE, !.confirmed = "none", !.retry = TRUE]
            ELSE [s EXCEPT !.hinting = FALSE, !.confirmed = v]
    /\ keepWorld
M2_hinted(v) ==
    received(v) /\ s' = [s EXCEPT !.hinting = FALSE, !.confirmed = v] /\ keepWorld
\* The reply to SetLockedHint: what is desired may have moved meanwhile.
hinted(v) ==
    /\ received(v)
    /\ LET r == [s EXCEPT !.hinting = FALSE]
       IN  s' = IF v = "unhinted" THEN [r EXCEPT !.confirmed = "none", !.retry = TRUE]
                ELSE sendLockedHint[[r EXCEPT !.confirmed = v]]
    /\ keepWorld

current(id) == s.asking /\ id = s.id

\* The reply to CanSuspend, then the one to Suspend, of the current request.
capable(yes) ==
    /\ received(IF yes THEN "able" ELSE "unable")
    /\ s' = IF ~current(Head(signals).id) THEN s
            ELSE IF yes /\ hasDelayInhibitor(s) /\ ~s.preparing /\ protectedAdmission(s)
                 THEN [s EXCEPT !.dispatched = TRUE, !.sent = @ \cup {s.id},
                                !.calls = @ \cup {[method |-> "Sleep", id |-> s.id]}]
                 ELSE cancelSleep[s]
    /\ keepWorld

sleepReplied(done) ==
    /\ received(IF done THEN "done" ELSE "failed")
    /\ s' = IF ~current(Head(signals).id) THEN s
            ELSE finishManual([s EXCEPT !.asking = FALSE, !.dispatched = FALSE],
                              IF done THEN "Confirmed" ELSE "Uncertain")
    /\ keepWorld

-----------------------------------------------------------------------------
(* logind.                                                                  *)

sends(m) == Len(signals) < MaxSignals /\ signals' = Append(signals, m)
answered(c) == s' = [s EXCEPT !.calls = @ \ {c}]

goesToSleep ==
    /\ system = "awake" /\ system' = "going"
    /\ IF s.ready THEN sends(message("sleep")) ELSE UNCHANGED signals
    /\ UNCHANGED <<s, screen, news, hint>>

\* A delay lasts while its descriptor is open, in the transport or on the way.
delayed == s.delay \/ \E i \in DOMAIN signals : signals[i].kind = "granted"

suspends ==
    /\ system = "going" /\ system' = "asleep"
    /\ ~delayed \/ "expire" \in Faults
    /\ UNCHANGED <<s, screen, news, signals, hint>>

wakes ==
    /\ system = "asleep" /\ system' = "awake"
    /\ signals' = IF s.ready THEN Append(signals, message("resume")) ELSE signals
    /\ UNCHANGED <<s, screen, news, hint>>

Answers(method) ==
    CASE method = "Inhibit" -> <<"granted", "denied">>
      [] method = "HintYes" -> <<"yes", "unhinted">>
      [] method = "HintNo" -> <<"no", "unhinted">>
      [] method = "Can" -> <<"able", "unable">>
      [] method = "Sleep" -> <<"done", "failed">>

accepts(c) ==
    /\ ~Frozen /\ c \in s.calls /\ answered(c)
    /\ sends([kind |-> Answers(c.method)[1], id |-> c.id])
    /\ hint' = CASE c.method = "HintYes" -> "yes" [] c.method = "HintNo" -> "no" [] OTHER -> hint
    /\ UNCHANGED <<screen, news, system>>

\* A refusal, or a timeout after which logind may still have done it.
refuses(c) ==
    /\ ~Frozen /\ "fail" \in Faults /\ c \in s.calls /\ answered(c)
    /\ sends([kind |-> Answers(c.method)[2], id |-> c.id])
    /\ hint' \in {hint} \cup (IF c.method = "HintYes" THEN {"yes"} ELSE {})
                        \cup (IF c.method = "HintNo" THEN {"no"} ELSE {})
    /\ UNCHANGED <<screen, news, system>>

-----------------------------------------------------------------------------
(* The compositor.                                                          *)

\* The admission of the supervisor's request, and the lock it starts.
lockAdmitted ==
    /\ ~Frozen /\ s.requesting /\ s' = [s EXCEPT !.requesting = FALSE]
    /\ screen' = IF screen = "Unlocked" THEN "Locking" ELSE screen
    /\ news' = (news \/ screen = "Unlocked")
    /\ UNCHANGED <<system, signals, hint>>

screenChanges(from, to) ==
    /\ ~Frozen /\ screen = from /\ screen' = to /\ news' = TRUE
    /\ UNCHANGED <<s, system, signals, hint>>

lockShown == screenChanges("Locking", "Locked")
authenticated == screenChanges("Locked", "Unlocked")

-----------------------------------------------------------------------------
Start ==
    [ready |-> FALSE, admitted |-> TRUE, preparing |-> FALSE, delay |-> FALSE,
     acquiring |-> FALSE, retry |-> FALSE, desired |-> "none", confirmed |-> "none",
     hinting |-> FALSE, asking |-> FALSE, dispatched |-> FALSE, calls |-> {},
     published |-> [available |-> FALSE, delay |-> FALSE, preparing |-> FALSE],
     manual |-> FALSE, authorized |-> FALSE, sleepGate |-> FALSE, offered |-> FALSE,
     dispatch |-> "none", requesting |-> FALSE, slept |-> FALSE, resumeLock |-> FALSE,
     view |-> "Unknown", id |-> 0, sent |-> {}, result |-> [i \in Requests |-> "none"]]

Init ==
    /\ s = Start
    /\ screen = "Unlocked" /\ news = FALSE
    /\ system = "awake" /\ signals = <<>> /\ hint = "no"

timers == requestDeadline \/ suspendDeadline \/ maintenanceRetry

messages ==
    \/ \E value \in BOOLEAN :
          receivePrepare(value) \/ inhibited(value) \/ capable(value) \/ sleepReplied(value)
    \/ \E v \in {"yes", "no", "unhinted"} : hinted(v)

lockEvents ==
    requestLock \/ lockRefused \/ lockAdmitted \/ lockShown \/ authenticated
    \/ stateInvalidated \/ stateResolved

Next ==
    \/ requestSleep \/ cancelRequest \/ timers \/ messages \/ lockEvents
    \/ reevaluateAdmission \/ unbind \/ bind
    \/ goesToSleep \/ suspends \/ wakes \/ \E c \in Call : accepts(c) \/ refuses(c)

Spec == Init /\ [][Next]_vars

-----------------------------------------------------------------------------
(* Properties.                                                              *)

TypeOK ==
    /\ s \in Supervisor
    /\ screen \in {"Unlocked", "Locking", "Locked"} /\ news \in BOOLEAN
    /\ system \in {"awake", "going", "asleep"} /\ hint \in {"yes", "no"}
    /\ \A i \in DOMAIN signals : signals[i].id \in 0 .. MaxRequests

\* The lock is on screen, as far as anybody could have told the supervisor.
BehindLock == screen = "Locked" \/ news

\* The delay is given to a sleep, and a request is sent to logind, only behind
\* the lock: nothing else the gate and the request wait for stands in for it.
OnlyBehindLock ==
    [][/\ s.sent # s'.sent => BehindLock
       /\ s.delay /\ ~s'.delay /\ available(s') /\ s'.preparing => BehindLock]_vars

\* What a client is told stays true: a request that was refused never
\* reached logind and never will, and one confirmed did reach it.
ResultIsTrue ==
    \A i \in Requests :
        /\ s.result[i] = "Refused" => i \notin s.sent
        /\ s.result[i] = "Confirmed" => i \in s.sent

\* Sleep1 announces exactly what canSuspend() says: no way to lose or regain
\* the ability goes unannounced.
OfferIsCurrent == s.offered <=> canSuspend(s)

\* A request is answered, whatever the lock and logind do, unless the system
\* sleeps on for ever.
RequestEnds == s.manual ~> ~s.manual \/ Frozen

\* The system stays awake, with logind bound and the session admitted.
Calm == system = "awake" /\ s.ready /\ s.admitted

\* Once it is calm the next sleep will be delayed again: no sleep, refusal or
\* late reply leaves the session without an inhibitor for good.
DelayReturns == <>[]Calm => []<>s.delay

\* And logind's hint comes to agree with the lock, however often it changed
\* while calls were under way.
HintAgrees == screen # "Locking" => (hint = "yes" <=> screen = "Locked")
HintConverges == <>[]Calm => []<>HintAgrees

\* A message is taken from the queue: the actions of messages do that, or unbind.
delivers == ~Frozen /\ signals # <<>> /\ signals' = Tail(signals)

FairSpec ==
    /\ Spec
    /\ WF_vars(requestDeadline) /\ WF_vars(maintenanceRetry) /\ WF_signals(delivers)
    /\ WF_vars(stateInvalidated \/ stateResolved)
    /\ SF_vars(accepts(call("Inhibit")))
    /\ SF_vars(accepts(call("HintYes")) \/ accepts(call("HintNo")))
=============================================================================
