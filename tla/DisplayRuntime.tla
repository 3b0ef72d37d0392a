--------------------------- MODULE DisplayRuntime ---------------------------
(***************************************************************************)
(* The Display1 process: the transaction machine, the session-safety port  *)
(* that watches the lock and holds a logind delay inhibitor, and the       *)
(* runtime that combines them.  The runtime tells the machine the session  *)
(* is safe only while it is unlocked, the writer has authority and the     *)
(* delay is held; when the system is about to sleep it withdraws that and  *)
(* gives the delay back once no apply is in flight.                        *)
(*                                                                         *)
(* What the resident service does to the machine is any step the machine's *)
(* interface has: DisplayService implements DisplayTransaction.            *)
(*                                                                         *)
(* logind is external: its signals and replies reach the port in the order *)
(* it sent them, and while the system sleeps nothing else happens.         *)
(***************************************************************************)
EXTENDS DisplayTransaction, Sequences

CONSTANTS
    Mishaps,    \* bound: "expire", logind sleeps though a delay is held;
                \* "authority", the bus or logind is lost;
                \* "refuse", logind fails a request for the delay
    MaxSignals  \* bound: messages of logind under way

ASSUME RuntimeBounds ==
    Mishaps \subseteq {"expire", "authority", "refuse"} /\ MaxSignals \in Nat \ {0}

Safety == {"Safe", "Locked", "Unknown"}

VARIABLES
    lock,           \* what the lock monitor reports
    delay,          \* m_delayDescriptor is valid
    preparing,      \* m_sleepPreparing
    inhibiting,     \* m_inhibitPending
    retrying,       \* the retry timer of m_inhibitRetry runs
    safety,         \* the port's m_safety
    session,        \* the runtime's m_sessionState
    suspendPending, \* m_suspendPending
    writerAvailable,\* m_writerAvailable
    ready, failed,  \* m_ready, m_failed
    system,         \* logind: "awake", "going" to sleep, "asleep"
    requested,      \* an Inhibit call logind has not answered
    signals,        \* logind's messages under way to the port
    overslept       \* some sleep was forced while a delay was held

safetyPort == <<lock, delay, preparing, inhibiting, retrying, safety>>
runtime == <<session, suspendPending, writerAvailable, ready, failed>>
logind == <<system, requested, signals, overslept>>
runtimeVars == <<vars, safetyPort, runtime, logind>>

Running == system # "asleep" /\ ~failed

-----------------------------------------------------------------------------
(* What the handlers share.                                                 *)

\* updateSafety() of the port: a change is reported to the runtime at once.
\* held is whether the delay is held when the handler asks.
currentSafety(held) ==
    IF lock' = "Locked" THEN "Locked"
    ELSE IF lock' = "Unlocked" /\ held /\ ~preparing' /\ ~failed' THEN "Safe" ELSE "Unknown"

updateSafety(held) ==
    /\ safety' = currentSafety(held)
    /\ session' = IF safety' # safety THEN safety' ELSE session

\* updateCombinedSafety(): what the machine is told.
M_combined(held) == session' = "Safe" /\ held /\ ~suspendPending'
combined(held) == session' = "Safe" /\ held /\ writerAvailable' /\ ~suspendPending'

\* setSafetyState(), called once with the combined value, or first as unsafe
\* and then with it.
setSafetyState(held, unsafeFirst) ==
    /\ safe' = combined(held) /\ UNCHANGED snap
    /\ \/ /\ (~combined(held) \/ unsafeFirst) /\ ~nothingToRevert
          /\ dropStaged \/ recordRevert \/ startRevert
       \/ /\ (combined(held) /\ ~unsafeFirst) \/ nothingToRevert
          /\ UNCHANGED <<machine, flags, tokens, pending, disk>>

tellMachine == IF ready' THEN setSafetyState(delay, FALSE) ELSE UNCHANGED vars

\* releaseSuspendDelayWhenSafe(), on every change of the machine's state.
M_released == delay /\ ~(suspendPending' /\ preparing')
released == delay /\ ~(suspendPending' /\ preparing' /\ state' # "Applying")
M_releaseOnChange == delay' = delay
releaseOnChange == delay' = IF state' # state THEN released ELSE delay

\* requestDelayInhibitor()
requestDelayInhibitor ==
    IF inhibiting \/ delay' \/ preparing' THEN UNCHANGED <<inhibiting, requested>>
    ELSE inhibiting' = TRUE /\ requested' = TRUE

-----------------------------------------------------------------------------
(* The lock monitor and the writer.                                         *)

lockChanged ==
    /\ Running
    /\ lock' \in {"Unlocked", "Locked", "Unknown"} \ {lock}
    /\ UNCHANGED <<preparing, inhibiting, retrying, suspendPending, writerAvailable,
                   ready, failed, logind>>
    /\ updateSafety(delay)
    /\ IF safety' # safety THEN tellMachine ELSE UNCHANGED vars
    /\ releaseOnChange

writerLost ==
    /\ Running /\ ready
    /\ safetyChanged(FALSE)
    /\ writerAvailable' = FALSE
    /\ UNCHANGED <<lock, preparing, inhibiting, retrying, safety, session,
                   suspendPending, ready, failed, logind>>
    /\ releaseOnChange

writerReturned ==
    /\ Running /\ ~writerAvailable
    /\ writerAvailable' = TRUE
    /\ UNCHANGED <<lock, preparing, inhibiting, retrying, safety, session,
                   suspendPending, ready, failed, logind>>
    /\ tellMachine
    /\ releaseOnChange

-----------------------------------------------------------------------------
(* Messages of logind.                                                      *)

received(message) ==
    /\ Running
    /\ signals # <<>> /\ Head(signals) = message /\ signals' = Tail(signals)

\* prepareForSleep(true), with the runtime's sessionPreparingForSleep().
prepareForSleep ==
    /\ received("sleep")
    /\ IF preparing THEN UNCHANGED <<vars, safetyPort, runtime>>
       ELSE /\ preparing' = TRUE /\ suspendPending' = TRUE /\ retrying' = FALSE
            /\ UNCHANGED <<lock, inhibiting, writerAvailable, ready, failed>>
            /\ safety' = currentSafety(delay) /\ session' = "Unknown"
            /\ tellMachine
            /\ delay' = released
    /\ UNCHANGED <<system, requested, overslept>>

\* prepareForSleep(false): whatever delay is left is dropped, for the next
\* sleep needs a new one.
resumed ==
    /\ received("resume")
    /\ IF ~preparing THEN UNCHANGED <<vars, safetyPort, runtime, requested>>
       ELSE /\ preparing' = FALSE /\ delay' = FALSE
            /\ UNCHANGED <<lock, retrying, suspendPending, writerAvailable, ready, failed>>
            /\ updateSafety(FALSE)
            /\ IF safety' # safety THEN tellMachine ELSE UNCHANGED vars
            /\ requestDelayInhibitor
    /\ UNCHANGED <<system, overslept>>

\* The delay is granted: the first time the service starts, after a resume it
\* ends the uncertainty.  A grant that meets a new sleep is given back.
granted ==
    /\ received("granted")
    /\ inhibiting' = FALSE
    /\ UNCHANGED <<lock, preparing, system, requested, overslept>>
    /\ IF preparing
       THEN UNCHANGED <<vars, delay, safety, retrying, runtime>>
       ELSE /\ delay' = TRUE /\ retrying' = FALSE
            /\ UNCHANGED <<writerAvailable, failed>>
            /\ safety' = currentSafety(TRUE) /\ session' = safety'
            /\ suspendPending' = FALSE /\ ready' = TRUE
            /\ setSafetyState(TRUE, ready /\ suspendPending /\ safety' # safety)

M_refused ==
    /\ received("refused")
    /\ inhibiting' = FALSE /\ UNCHANGED retrying
    /\ UNCHANGED <<vars, lock, delay, preparing, safety, runtime,
                   system, requested, overslept>>
refused ==
    /\ received("refused")
    /\ inhibiting' = FALSE /\ retrying' = (retrying \/ ~preparing)
    /\ UNCHANGED <<vars, lock, delay, preparing, safety, runtime,
                   system, requested, overslept>>

inhibitRetry ==
    /\ Running /\ retrying /\ retrying' = FALSE
    /\ UNCHANGED <<delay, preparing>> /\ requestDelayInhibitor
    /\ UNCHANGED <<vars, lock, safety, runtime, system, signals, overslept>>

\* fail(): a bus or logind's owner is lost.  The machine is told, the process
\* ends, and a new one recovers what the journal holds.
authorityLost ==
    /\ Running /\ "authority" \in Mishaps
    /\ failed' = TRUE /\ ready' = FALSE
    /\ delay' = FALSE /\ preparing' = FALSE /\ inhibiting' = FALSE /\ retrying' = FALSE
    /\ safety' = "Unknown" /\ session' = "Unknown"
    /\ IF ready THEN setSafetyState(FALSE, FALSE) ELSE UNCHANGED vars
    /\ UNCHANGED <<lock, suspendPending, writerAvailable, logind>>

\* start() of a process.
started ==
    /\ lock' = "Unknown" /\ delay' = FALSE /\ preparing' = FALSE
    /\ inhibiting' = TRUE /\ requested' = TRUE /\ retrying' = FALSE
    /\ safety' = "Unknown" /\ session' = "Unknown" /\ suspendPending' = FALSE
    /\ ready' = FALSE /\ failed' = FALSE

startedAgain ==
    /\ failed /\ system # "asleep"
    /\ processCrash \/ powerLoss
    /\ started /\ writerAvailable' \in BOOLEAN
    /\ signals' = <<>> /\ UNCHANGED <<system, overslept>>

-----------------------------------------------------------------------------
(* What the resident service does to the machine, on behalf of clients,     *)
(* the compositor and its timers.                                           *)

clientCalls == (\E t \in Layouts : stage(t)) \/ preview \/ confirm \/ cancel

serviceEvents ==
    /\ Running /\ ready
    /\ clientCalls \/ completions \/ observations \/ settled \/ tick \/ transportLost
    /\ UNCHANGED <<lock, preparing, inhibiting, retrying, safety, runtime, logind>>
    /\ releaseOnChange

-----------------------------------------------------------------------------
(* logind.                                                                  *)

sends(message) == Len(signals) < MaxSignals /\ signals' = Append(signals, message)

goesToSleep ==
    /\ system = "awake" /\ system' = "going"
    /\ sends("sleep")
    /\ UNCHANGED <<vars, safetyPort, runtime, requested, overslept>>

\* A delay lasts while its descriptor is open, in the port or on the way.
delayed == delay \/ \E i \in DOMAIN signals : signals[i] = "granted"

suspends ==
    /\ system = "going" /\ system' = "asleep"
    /\ \/ ~delayed /\ UNCHANGED overslept
       \/ delayed /\ "expire" \in Mishaps /\ overslept' = TRUE
    /\ UNCHANGED <<vars, safetyPort, runtime, requested, signals>>

wakes ==
    /\ system = "asleep" /\ system' = "awake"
    /\ signals' = Append(signals, "resume")
    /\ UNCHANGED <<vars, safetyPort, runtime, requested, overslept>>

grants ==
    /\ system # "asleep" /\ requested /\ requested' = FALSE
    /\ sends("granted")
    /\ UNCHANGED <<vars, safetyPort, runtime, system, overslept>>

refuses ==
    /\ system # "asleep" /\ requested /\ requested' = FALSE
    /\ "refuse" \in Mishaps /\ sends("refused")
    /\ UNCHANGED <<vars, safetyPort, runtime, system, overslept>>

-----------------------------------------------------------------------------
RuntimeInit ==
    /\ Init
    /\ lock = "Unknown" /\ delay = FALSE /\ preparing = FALSE
    /\ inhibiting = TRUE /\ retrying = FALSE /\ safety = "Unknown"
    /\ session = "Unknown" /\ suspendPending = FALSE /\ writerAvailable \in BOOLEAN
    /\ ready = FALSE /\ failed = FALSE
    /\ system = "awake" /\ requested = TRUE /\ signals = <<>> /\ overslept = FALSE

messages == prepareForSleep \/ resumed \/ granted \/ refused

RuntimeNext ==
    \/ lockChanged \/ writerLost \/ writerReturned
    \/ messages \/ inhibitRetry \/ authorityLost \/ startedAgain
    \/ serviceEvents
    \/ goesToSleep \/ suspends \/ wakes \/ grants \/ refuses

RuntimeSpec == RuntimeInit /\ [][RuntimeNext]_runtimeVars

-----------------------------------------------------------------------------
(* Properties.                                                              *)

RuntimeTypeOK ==
    /\ lock \in {"Unlocked", "Locked", "Unknown"} /\ safety \in Safety /\ session \in Safety
    /\ delay \in BOOLEAN /\ preparing \in BOOLEAN /\ inhibiting \in BOOLEAN
    /\ retrying \in BOOLEAN /\ suspendPending \in BOOLEAN /\ writerAvailable \in BOOLEAN
    /\ ready \in BOOLEAN /\ failed \in BOOLEAN
    /\ system \in {"awake", "going", "asleep"} /\ requested \in BOOLEAN
    /\ signals \in Seq({"sleep", "resume", "granted", "refused"}) /\ overslept \in BOOLEAN

\* The machine takes a session for safe only while all of this holds now: it
\* is unlocked, a delay keeps the system from sleeping, no sleep has been
\* announced and the writer has authority.  (updateCombinedSafety(), whose
\* inputs are copies each kept by another handler.)
SafeMeansGuarded ==
    safe => /\ lock = "Unlocked" /\ delay /\ ~preparing
            /\ writerAvailable /\ ~suspendPending /\ ready

\* The system falls asleep with no preview on trial, unless logind stopped
\* waiting: the compositor is never frozen over an apply in flight, and no
\* confirmation can be missed in one's sleep.  (Contract of
\* releaseSuspendDelayWhenSafe().)
NoTrialAsleep ==
    system = "asleep" /\ ~overslept /\ ~failed
    => state \notin {"Applying", "Observing", "AwaitingConfirmation"}

\* Display1 never holds a sleep up for good: a delay it still holds when the
\* sleep reaches it is given back.
SleepNotHeld == preparing /\ delay ~> ~delay

\* Once the system stays awake, the delay is held again and previews are
\* possible again, whatever sleeps and refusals came before.
GuardReturns == <>[](system = "awake" /\ ~failed) => <>[]delay

FairRuntime ==
    /\ RuntimeSpec
    /\ WF_runtimeVars(serviceEvents /\ tick)
    /\ WF_runtimeVars(messages) /\ WF_runtimeVars(inhibitRetry)
    /\ SF_runtimeVars(grants)
=============================================================================
