------------------------ MODULE DisplayRuntimeProofs ------------------------
(***************************************************************************)
(* What the Display1 process promises about sleep and safety, for every    *)
(* set of outputs and layouts and for any number of sleeps: the machine is *)
(* told "safe" only under a guard that holds at that moment, and the       *)
(* system never falls asleep over a trial unless logind stopped waiting.   *)
(***************************************************************************)
EXTENDS DisplayRuntime, DisplayTransactionSafety, SequenceTheorems

\* The port's report is what its inputs say now, and the runtime's copy of it
\* is never more optimistic.
Agreed ==
    /\ ~failed => safety = IF lock = "Locked" THEN "Locked"
                           ELSE IF lock = "Unlocked" /\ delay /\ ~preparing THEN "Safe"
                           ELSE "Unknown"
    /\ session = "Safe" => safety = "Safe"

\* The parts updateCombinedSafety() combined last still hold.
Combined == safe => /\ session = "Safe" /\ writerAvailable /\ ~suspendPending
                    /\ ready /\ ~failed

RuntimeInv == SafetyInv /\ RuntimeTypeOK /\ Agreed /\ Combined

\* An apply in flight keeps the delay.
ApplyDelays == state = "Applying" /\ ~failed => delay \/ overslept

\* A sleep nobody delayed ends before a new delay is granted: when the resume
\* comes there is no delay, nor one before it in the queue.
NoDelayAhead(n) == ~delay /\ \A j \in 1 .. n : signals[j] # "granted"
SleepsUndelayed ==
    ~overslept =>
        /\ system = "asleep" => NoDelayAhead(Len(signals))
        /\ \A i \in 1 .. Len(signals) : signals[i] = "resume" => NoDelayAhead(i - 1)

SleepInv == RuntimeInv /\ ApplyDelays /\ SleepsUndelayed

-----------------------------------------------------------------------------
(* The machine under the runtime.                                           *)

\* One call of setSafetyState, or the two of a grant, keep the machine safe.
LEMMA SetSafetySafe ==
    ASSUME SafetyInv, NEW held \in BOOLEAN, NEW first \in BOOLEAN,
           safe' \in BOOLEAN, setSafetyState(held, first)
    PROVE  SafetyInv'
<1>1. snap' = snap /\ safe' = combined(held) BY DEF setSafetyState
<1>2. TypeInv BY DEF SafetyInv
<1>3. CASE dropStaged
  <2>1. snap \in Snapshot BY <1>2, <1>3 DEF dropStaged, TypeInv, Shape
  <2>2. TypeInv' BY <1>1, <1>2, <1>3, <2>1, DropStagedTyped
  <2> QED BY <1>3, <2>2, DropStagedSafe
<1>4. CASE recordRevert BY <1>1, <1>2, <1>4, RecordRevertTyped, RecordRevertSafe
<1>5. CASE startRevert BY <1>1, <1>2, <1>5, StartRevertTyped, StartRevertSafe
<1>6. CASE /\ combined(held) \/ nothingToRevert
           /\ UNCHANGED <<machine, flags, tokens, pending, disk>>
  <2>1. TypeInv' BY <1>1, <1>2, <1>6 DEF TypeInv, TypeOK, Shape, machine, flags, tokens
  <2>2. UnsafeNeverForward'
    BY <1>1, <1>6 DEF SafetyInv, UnsafeNeverForward, RequestActedOn, nothingToRevert,
                      rollbackInProgress, machine, flags
  <2> QED BY <1>1, <1>6, <2>1, <2>2
          DEF SafetyInv, NoStrandedPreimage, TokenFence, AttemptsBounded, RequestActedOn,
              NoOrphanJournal, ForwardCovered, AwaitingShowsTarget, StagedFence,
              Timed, machine, flags, tokens
<1> QED BY <1>3, <1>4, <1>5, <1>6 DEF setSafetyState

LEMMA SetSafetyKeepsState ==
    ASSUME NEW held, NEW first, setSafetyState(held, first)
    PROVE  state' = "Applying" => state = "Applying"
BY DEF setSafetyState, dropStaged, clearTransaction, recordRevert, startRevert, beginRevert,
       machine

LEMMA CombinedBoolean ==
    ASSUME NEW held \in BOOLEAN, RuntimeTypeOK'
    PROVE  combined(held) \in BOOLEAN
BY DEF combined, RuntimeTypeOK

\* Only the runtime moves the machine's safety.
LEMMA ServiceKeepsSafe ==
    ASSUME SafetyInv, serviceEvents
    PROVE  safe' = safe /\ [Next]_vars
<1>1. CASE clientCalls
  BY <1>1 DEF clientCalls, stage, preview, confirm, cancel, Next, commands
<1>2. CASE completions
  BY <1>2 DEF completions, applyCompleted, applyCompletedForward, applyCompletedRevert, Next
<1>3. CASE observations
  <2>1. PICK s \in Snapshot :
          initialize(s) \/ recover(s) \/ observedSnapshot(s) \/ topologyChanged(s)
            \/ externalIntentObserved(s)
    BY <1>3 DEF observations
  <2> USE DEF keepSnapshot, dropStaged, observedReady, observedStuck, settleTopology,
              abandonForExternalIntent, abandonAfterTopology, abandonDroppedDraft
  <2>2. initialize(s) \/ recover(s) => safe' = safe BY DEF initialize, recover
  <2>3. topologyChanged(s) => safe' = safe BY DEF topologyChanged
  <2>4. externalIntentObserved(s) => safe' = safe BY DEF externalIntentObserved
  <2>5. observedSnapshot(s) => safe' = safe
    BY <2>3 DEF observedSnapshot, observedApplying, observedObserving, observedUncertain,
                observedReverting, observedAwaiting
  <2> QED BY <1>3, <2>1, <2>2, <2>3, <2>4, <2>5 DEF Next
<1>4. CASE settled BY <1>4 DEF settled, topologySettled, Next
<1>5. CASE tick BY <1>5 DEF tick, Next
<1>6. CASE transportLost BY <1>6 DEF transportLost, Next, failures
<1> QED BY <1>1, <1>2, <1>3, <1>4, <1>5, <1>6 DEF serviceEvents

-----------------------------------------------------------------------------
(* The types.                                                               *)

Signals == {"sleep", "resume", "granted", "refused"}

LEMMA ReleaseTyped ==
    ASSUME delay \in BOOLEAN, releaseOnChange
    PROVE  delay' \in BOOLEAN
BY DEF releaseOnChange, released

LEMMA UpdateTyped ==
    ASSUME session \in Safety, NEW held, updateSafety(held)
    PROVE  safety' \in Safety /\ session' \in Safety
BY DEF updateSafety, currentSafety, Safety

LEMMA RequestTyped ==
    ASSUME inhibiting \in BOOLEAN, requested \in BOOLEAN, requestDelayInhibitor
    PROVE  inhibiting' \in BOOLEAN /\ requested' \in BOOLEAN
BY DEF requestDelayInhibitor

LEMMA ReceivedTyped ==
    ASSUME signals \in Seq(Signals), NEW m, received(m)
    PROVE  signals' \in Seq(Signals)
BY HeadTailProperties DEF received

LEMMA SendsTyped ==
    ASSUME signals \in Seq(Signals), NEW m \in Signals, signals' = Append(signals, m)
    PROVE  signals' \in Seq(Signals)
BY AppendProperties

LEMMA RuntimeTyped ==
    ASSUME RuntimeTypeOK, [RuntimeNext]_runtimeVars
    PROVE  RuntimeTypeOK'
<1> USE DEF RuntimeTypeOK, Signals
<1>1. CASE lockChanged
  BY <1>1, ReleaseTyped, UpdateTyped DEF lockChanged, logind
<1>2. CASE writerLost BY <1>2, ReleaseTyped DEF writerLost, logind
<1>3. CASE writerReturned BY <1>3, ReleaseTyped DEF writerReturned, logind
<1>4. CASE prepareForSleep
  <2>1. signals' \in Seq(Signals) BY <1>4, ReceivedTyped DEF prepareForSleep
  <2>2. CASE preparing BY <1>4, <2>1, <2>2 DEF prepareForSleep, safetyPort, runtime
  <2>3. CASE ~preparing
    <3>1. delay' \in BOOLEAN BY <1>4, <2>3 DEF prepareForSleep, released
    <3> QED BY <1>4, <2>1, <2>3, <3>1 DEF prepareForSleep, currentSafety, Safety
  <2> QED BY <2>2, <2>3
<1>5. CASE resumed
  <2>1. signals' \in Seq(Signals) BY <1>5, ReceivedTyped DEF resumed
  <2>2. CASE ~preparing BY <1>5, <2>1, <2>2 DEF resumed, safetyPort, runtime
  <2>3. CASE preparing BY <1>5, <2>1, <2>3, UpdateTyped, RequestTyped DEF resumed
  <2> QED BY <2>2, <2>3
<1>6. CASE granted
  <2>1. signals' \in Seq(Signals) BY <1>6, ReceivedTyped DEF granted
  <2>2. CASE preparing BY <1>6, <2>1, <2>2 DEF granted, runtime
  <2>3. CASE ~preparing
    <3>1. safety' \in Safety BY <1>6, <2>3 DEF granted, currentSafety, Safety
    <3> QED BY <1>6, <2>1, <2>3, <3>1 DEF granted
  <2> QED BY <2>2, <2>3
<1>7. CASE refused
  <2>1. signals' \in Seq(Signals) BY <1>7, ReceivedTyped DEF refused
  <2>2. retrying' \in BOOLEAN BY <1>7 DEF refused
  <2> QED BY <1>7, <2>1, <2>2 DEF refused, runtime
<1>8. CASE inhibitRetry BY <1>8, RequestTyped DEF inhibitRetry, runtime
<1>9. CASE authorityLost BY <1>9 DEF authorityLost, logind, Safety
<1>10. CASE startedAgain
  <2>1. signals' \in Seq(Signals) BY <1>10 DEF startedAgain
  <2> QED BY <1>10, <2>1 DEF startedAgain, started, Safety
<1>11. CASE serviceEvents BY <1>11, ReleaseTyped DEF serviceEvents, runtime, logind
<1>12. CASE goesToSleep
  BY <1>12, SendsTyped DEF goesToSleep, sends, safetyPort, runtime
<1>13. CASE suspends BY <1>13 DEF suspends, safetyPort, runtime
<1>14. CASE wakes BY <1>14, SendsTyped DEF wakes, safetyPort, runtime
<1>15. CASE grants BY <1>15, SendsTyped DEF grants, sends, safetyPort, runtime
<1>16. CASE refuses BY <1>16, SendsTyped DEF refuses, sends, safetyPort, runtime
<1>17. CASE UNCHANGED runtimeVars BY <1>17 DEF runtimeVars, safetyPort, runtime, logind
<1> QED BY <1>1, <1>2, <1>3, <1>4, <1>5, <1>6, <1>7, <1>8, <1>9, <1>10, <1>11, <1>12,
           <1>13, <1>14, <1>15, <1>16, <1>17 DEF RuntimeNext, messages

-----------------------------------------------------------------------------
(* The guard.                                                               *)

LEMMA TellSafe ==
    ASSUME SafetyInv, RuntimeTypeOK, RuntimeTypeOK', tellMachine
    PROVE  SafetyInv'
<1>1. CASE ready'
  <2>1. delay \in BOOLEAN BY DEF RuntimeTypeOK
  <2>2. setSafetyState(delay, FALSE) BY <1>1 DEF tellMachine
  <2>3. safe' \in BOOLEAN BY <2>1, <2>2, CombinedBoolean DEF setSafetyState
  <2> QED BY <2>1, <2>2, <2>3, SetSafetySafe
<1>2. CASE ~ready' BY <1>2, NextSafe DEF tellMachine
<1> QED BY <1>1, <1>2

LEMMA MachineSafe ==
    ASSUME RuntimeInv, [RuntimeNext]_runtimeVars
    PROVE  SafetyInv'
<1>1. SafetyInv /\ RuntimeTypeOK BY DEF RuntimeInv
<1>2. RuntimeTypeOK' BY <1>1, RuntimeTyped
<1>3. CASE UNCHANGED vars \/ tellMachine BY <1>1, <1>2, <1>3, TellSafe, NextSafe
<1>4. CASE writerLost
  <2>1. [Next]_vars BY <1>4 DEF writerLost, Next, safetyEvents
  <2> QED BY <1>1, <2>1, NextSafe
<1>5. CASE granted /\ ~preparing
  <2>1. setSafetyState(TRUE, ready /\ suspendPending /\ safety' # safety)
    BY <1>5 DEF granted
  <2>2. safe' \in BOOLEAN BY <1>2, <2>1, CombinedBoolean DEF setSafetyState
  <2> HIDE <1>5
  <2>3. (ready /\ suspendPending /\ safety' # safety) \in BOOLEAN
    BY <1>1 DEF RuntimeTypeOK
  <2> QED BY <1>1, <2>1, <2>2, <2>3, SetSafetySafe
<1>6. CASE authorityLost /\ ready
  <2>1. setSafetyState(FALSE, FALSE) BY <1>6 DEF authorityLost
  <2>2. safe' \in BOOLEAN BY <1>2, <2>1, CombinedBoolean DEF setSafetyState
  <2> QED BY <1>1, <2>1, <2>2, SetSafetySafe
<1>7. CASE startedAgain
  <2>1. [Next]_vars BY <1>7 DEF startedAgain, Next, failures
  <2> QED BY <1>1, <2>1, NextSafe
<1>8. CASE serviceEvents BY <1>1, <1>8, ServiceKeepsSafe, NextSafe
<1>9. lockChanged \/ writerReturned \/ prepareForSleep \/ resumed
        => UNCHANGED vars \/ tellMachine
  BY DEF lockChanged, writerReturned, prepareForSleep, resumed
<1>10. (granted /\ preparing) \/ refused \/ inhibitRetry \/ (authorityLost /\ ~ready)
        => UNCHANGED vars
  BY DEF granted, refused, inhibitRetry, authorityLost
<1>11. goesToSleep \/ suspends \/ wakes \/ grants \/ refuses \/ UNCHANGED runtimeVars
        => UNCHANGED vars
  BY DEF goesToSleep, suspends, wakes, grants, refuses, runtimeVars
<1> QED BY <1>3, <1>4, <1>5, <1>6, <1>7, <1>8, <1>9, <1>10, <1>11 DEF RuntimeNext, messages

LEMMA AgreedKept ==
    ASSUME RuntimeInv, [RuntimeNext]_runtimeVars
    PROVE  Agreed'
<1> USE DEF RuntimeInv, RuntimeTypeOK, Agreed, Safety
<1>1. CASE lockChanged
  BY <1>1 DEF lockChanged, Running, updateSafety, currentSafety, releaseOnChange, released
<1>2. CASE writerLost BY <1>2 DEF writerLost, releaseOnChange, released
<1>3. CASE writerReturned BY <1>3 DEF writerReturned, releaseOnChange, released
<1>4. CASE prepareForSleep
  BY <1>4 DEF prepareForSleep, currentSafety, safetyPort, runtime
<1>5. CASE resumed
  BY <1>5 DEF resumed, updateSafety, currentSafety, safetyPort, runtime
<1>6. CASE granted BY <1>6 DEF granted, currentSafety, runtime
<1>7. CASE refused BY <1>7 DEF refused, runtime
<1>8. CASE inhibitRetry BY <1>8 DEF inhibitRetry, runtime
<1>9. CASE authorityLost BY <1>9 DEF authorityLost
<1>10. CASE startedAgain BY <1>10 DEF startedAgain, started
<1>11. CASE serviceEvents BY <1>11 DEF serviceEvents, runtime, releaseOnChange, released
<1>12. goesToSleep \/ suspends \/ wakes \/ grants \/ refuses \/ UNCHANGED runtimeVars
        => UNCHANGED <<safetyPort, runtime>>
  BY DEF goesToSleep, suspends, wakes, grants, refuses, runtimeVars
<1>13. CASE UNCHANGED <<safetyPort, runtime>> BY <1>13 DEF safetyPort, runtime
<1> QED BY <1>1, <1>2, <1>3, <1>4, <1>5, <1>6, <1>7, <1>8, <1>9, <1>10, <1>11, <1>12,
           <1>13 DEF RuntimeNext, messages

LEMMA CombinedKept ==
    ASSUME RuntimeInv, [RuntimeNext]_runtimeVars
    PROVE  Combined'
<1> USE DEF RuntimeInv, RuntimeTypeOK, Agreed, Combined, Safety
<1>1. ASSUME NEW held, NEW first, setSafetyState(held, first)
      PROVE  safe' => session' = "Safe" /\ writerAvailable' /\ ~suspendPending'
  BY <1>1 DEF setSafetyState, combined
<1>2. ASSUME tellMachine, safe', ready'
      PROVE  session' = "Safe" /\ writerAvailable' /\ ~suspendPending'
  BY <1>1, <1>2 DEF tellMachine
<1>3. ASSUME tellMachine, ~ready' PROVE safe' = safe BY <1>3 DEF tellMachine, vars
<1>4. CASE lockChanged
  BY <1>2, <1>3, <1>4 DEF lockChanged, Running, updateSafety, vars
<1>5. CASE writerLost BY <1>5 DEF writerLost, safetyChanged
<1>6. CASE writerReturned BY <1>2, <1>3, <1>6 DEF writerReturned, Running
<1>7. CASE prepareForSleep
  BY <1>2, <1>3, <1>7 DEF prepareForSleep, received, Running, safetyPort, runtime, vars
<1>8. CASE resumed
  BY <1>2, <1>3, <1>8
     DEF resumed, received, Running, updateSafety, currentSafety, safetyPort, runtime, vars
<1>9. CASE granted BY <1>1, <1>9 DEF granted, received, Running, runtime, vars
<1>10. CASE authorityLost BY <1>1, <1>10 DEF authorityLost, vars
<1>11. CASE startedAgain
  BY <1>11 DEF startedAgain, processCrash, powerLoss
<1>12. CASE serviceEvents BY <1>12, ServiceKeepsSafe DEF serviceEvents, runtime
<1>13. refused \/ inhibitRetry \/ goesToSleep \/ suspends \/ wakes \/ grants \/ refuses
         \/ UNCHANGED runtimeVars => UNCHANGED <<vars, runtime>>
  BY DEF refused, inhibitRetry, goesToSleep, suspends, wakes, grants, refuses, runtimeVars
<1>14. CASE UNCHANGED <<vars, runtime>> BY <1>14 DEF vars, runtime
<1> QED BY <1>4, <1>5, <1>6, <1>7, <1>8, <1>9, <1>10, <1>11, <1>12, <1>13, <1>14
        DEF RuntimeNext, messages

LEMMA RuntimeInvInit == RuntimeInit => RuntimeInv
<1> SUFFICES ASSUME RuntimeInit PROVE RuntimeInv
  OBVIOUS
<1>1. SafetyInv BY InitSafe DEF RuntimeInit
<1>2. signals \in Seq({"sleep", "resume", "granted", "refused"}) BY DEF RuntimeInit
<1> QED BY <1>1, <1>2 DEF RuntimeInv, RuntimeInit, RuntimeTypeOK, Agreed, Combined, Safety, Init

LEMMA RuntimeInvNext == RuntimeInv /\ [RuntimeNext]_runtimeVars => RuntimeInv'
BY MachineSafe, RuntimeTyped, AgreedKept, CombinedKept DEF RuntimeInv

\* The invariant of the process, the machine's safety included.
THEOREM RuntimeInvariant == RuntimeSpec => []RuntimeInv
BY RuntimeInvInit, RuntimeInvNext, PTL DEF RuntimeSpec

\* Every value of the runtime and of the safety port has its type.
THEOREM RuntimeTypeCorrect == RuntimeSpec => []RuntimeTypeOK
<1>1. RuntimeInv => RuntimeTypeOK BY DEF RuntimeInv
<1> QED BY <1>1, RuntimeInvariant, PTL

\* The machine takes the session for safe only under a guard that holds now,
\* in whatever order the lock, the writer, logind and its own retries report.
THEOREM Guarded == RuntimeSpec => []SafeMeansGuarded
<1>1. RuntimeInv => SafeMeansGuarded
  BY DEF RuntimeInv, Agreed, Combined, SafeMeansGuarded
<1> QED BY <1>1, RuntimeInvariant, PTL

\* No preview is on trial in a session the runtime does not call safe.
THEOREM RuntimeNeverForwardUnsafe == RuntimeSpec => []UnsafeNeverForward
<1>1. RuntimeInv => UnsafeNeverForward BY DEF RuntimeInv, SafetyInv
<1> QED BY <1>1, RuntimeInvariant, PTL

-----------------------------------------------------------------------------
(* The sleep.                                                               *)

\* Only a preview of a safe session starts an apply.
LEMMA ApplyStartsDelayed ==
    ASSUME RuntimeInv, serviceEvents, state' = "Applying", state # "Applying"
    PROVE  delay
<1>1. preview BY OnlyPreviewApplies, ServiceKeepsSafe DEF RuntimeInv
<1>2. ~failed BY DEF serviceEvents, Running
<1> QED BY <1>1, <1>2 DEF preview, mayPreview, RuntimeInv, Combined, Agreed

LEMMA TellKeepsState ==
    ASSUME tellMachine \/ UNCHANGED vars
    PROVE  state' = "Applying" => state = "Applying"
<1>1. CASE UNCHANGED vars BY <1>1 DEF vars, machine
<1>2. CASE tellMachine /\ ready' BY <1>2, SetSafetyKeepsState DEF tellMachine
<1>3. CASE tellMachine /\ ~ready' BY <1>1, <1>3 DEF tellMachine
<1> QED BY <1>1, <1>2, <1>3

\* The delay outlives an apply: what releases it waits for the apply to end.
LEMMA ApplyDelaysKept ==
    ASSUME SleepInv, [RuntimeNext]_runtimeVars
    PROVE  ApplyDelays'
<1> USE DEF SleepInv, ApplyDelays
<1> SUFFICES ASSUME state' = "Applying", ~failed', ~overslept' PROVE delay'
  OBVIOUS
<1>1. CASE lockChanged
  <2>1. state = "Applying" /\ overslept' = overslept /\ failed' = failed
    BY <1>1, TellKeepsState DEF lockChanged, logind
  <2> QED BY <1>1, <2>1 DEF lockChanged, releaseOnChange
<1>2. CASE writerLost
  <2>1. state = "Applying"
    BY <1>2 DEF writerLost, safetyChanged, dropStaged, clearTransaction, recordRevert, startRevert,
                beginRevert, machine
  <2> QED BY <1>2, <2>1 DEF writerLost, releaseOnChange, logind
<1>3. CASE writerReturned
  <2>1. state = "Applying" BY <1>3, TellKeepsState DEF writerReturned
  <2> QED BY <1>3, <2>1 DEF writerReturned, releaseOnChange, logind
<1>4. CASE prepareForSleep
  <2>1. state = "Applying" BY <1>4, TellKeepsState DEF prepareForSleep
  <2> QED BY <1>4, <2>1 DEF prepareForSleep, released, safetyPort, runtime
<1>5. CASE resumed
  <2>1. state = "Applying" BY <1>5, TellKeepsState DEF resumed
  <2>2. delay /\ ~overslept BY <1>5, <2>1 DEF resumed, runtime, received, Running
  <2>3. signals # <<>> /\ signals[1] = "resume" BY <1>5 DEF resumed, received
  <2>4. 1 \in 1 .. Len(signals)
    BY <2>3, EmptySeq DEF RuntimeInv, RuntimeTypeOK
  <2> QED BY <2>2, <2>3, <2>4 DEF SleepsUndelayed, NoDelayAhead
<1>6. CASE granted
  <2>1. CASE preparing
    BY <1>6, <2>1, TellKeepsState DEF granted, runtime
  <2> QED BY <1>6, <2>1 DEF granted
<1>7. CASE serviceEvents
  <2>1. CASE state = "Applying"
    BY <1>7, <2>1 DEF serviceEvents, releaseOnChange, runtime, logind
  <2>2. CASE state # "Applying"
    <3>1. delay BY <1>7, <2>2, ApplyStartsDelayed
    <3> QED BY <1>7, <2>2, <3>1 DEF serviceEvents, releaseOnChange, released
  <2> QED BY <2>1, <2>2
<1>8. CASE authorityLost BY <1>8 DEF authorityLost
<1>9. CASE startedAgain BY <1>9 DEF startedAgain, processCrash, powerLoss, forgetMachine
<1>10. CASE refused \/ inhibitRetry \/ UNCHANGED runtimeVars
  BY <1>10, TellKeepsState
     DEF refused, inhibitRetry, runtimeVars, safetyPort, runtime, logind
<1>11. CASE goesToSleep \/ suspends \/ wakes \/ grants \/ refuses
  BY <1>11, TellKeepsState
     DEF goesToSleep, suspends, wakes, grants, refuses, safetyPort, runtime
<1> QED BY <1>1, <1>2, <1>3, <1>4, <1>5, <1>6, <1>7, <1>8, <1>9, <1>10, <1>11
        DEF RuntimeNext, messages

LEMMA KeptInPlace ==
    ASSUME SleepsUndelayed, signals' = signals, delay' => delay, overslept' = overslept,
           system' = "asleep" => system = "asleep"
    PROVE  SleepsUndelayed'
BY DEF SleepsUndelayed, NoDelayAhead

\* A message leaves the queue: the others move up, and a grant finds no resume
\* behind it.
LEMMA KeptOnReceipt ==
    ASSUME SleepsUndelayed, signals \in Seq(Signals), NEW m, received(m),
           delay' => delay \/ m = "granted", overslept' = overslept,
           system' # "asleep"
    PROVE  SleepsUndelayed'
<1> SUFFICES ASSUME ~overslept, NEW i \in 1 .. Len(signals'), signals'[i] = "resume"
             PROVE  NoDelayAhead(i - 1)'
  BY DEF SleepsUndelayed
<1>1. /\ Len(signals) \in Nat /\ signals' = Tail(signals)
      /\ Len(signals') = Len(signals) - 1 /\ signals[1] = m
      /\ \A j \in 1 .. Len(signals') : signals'[j] = signals[j + 1]
  BY HeadTailProperties, LenProperties DEF received
<1>2. i + 1 \in 1 .. Len(signals) /\ signals[i + 1] = "resume" BY <1>1
<1>3. ~delay /\ \A j \in 1 .. i : signals[j] # "granted"
  BY <1>2 DEF SleepsUndelayed, NoDelayAhead
<1>4. m # "granted" BY <1>1, <1>3
<1>5. ASSUME NEW j \in 1 .. i - 1 PROVE signals'[j] # "granted"
  <2>1. j + 1 \in 1 .. i /\ j \in 1 .. Len(signals') BY <1>1
  <2> QED BY <1>1, <1>3, <2>1
<1> QED BY <1>3, <1>4, <1>5 DEF NoDelayAhead

\* A message joins the queue; only a resume must know what is ahead of it.
LEMMA KeptOnSend ==
    ASSUME SleepsUndelayed, signals \in Seq(Signals), NEW m \in Signals,
           signals' = Append(signals, m), delay' = delay, overslept' = overslept,
           system' # "asleep",
           m = "resume" /\ ~overslept => NoDelayAhead(Len(signals))
    PROVE  SleepsUndelayed'
<1> SUFFICES ASSUME ~overslept, NEW i \in 1 .. Len(signals'), signals'[i] = "resume"
             PROVE  NoDelayAhead(i - 1)'
  BY DEF SleepsUndelayed
<1>1. /\ Len(signals) \in Nat /\ Len(signals') = Len(signals) + 1
      /\ signals'[Len(signals) + 1] = m
      /\ \A j \in 1 .. Len(signals) : signals'[j] = signals[j]
  BY AppendProperties, LenProperties
<1>2. NoDelayAhead(i - 1)
  <2>1. CASE i = Len(signals) + 1 BY <1>1, <2>1
  <2>2. CASE i # Len(signals) + 1
    <3>1. i \in 1 .. Len(signals) BY <1>1, <2>2
    <3> QED BY <1>1, <3>1 DEF SleepsUndelayed
  <2> QED BY <2>1, <2>2
<1>3. \A j \in 1 .. i - 1 : j \in 1 .. Len(signals) BY <1>1
<1> QED BY <1>1, <1>2, <1>3 DEF NoDelayAhead

LEMMA SleepsUndelayedKept ==
    ASSUME SleepInv, [RuntimeNext]_runtimeVars
    PROVE  SleepsUndelayed'
<1>1. /\ signals \in Seq(Signals) /\ delay \in BOOLEAN /\ system \in {"awake", "going", "asleep"}
      /\ overslept \in BOOLEAN /\ SleepsUndelayed
  BY DEF SleepInv, RuntimeInv, RuntimeTypeOK, Signals
<1>2. CASE lockChanged
  BY <1>1, <1>2, KeptInPlace DEF lockChanged, releaseOnChange, released, logind
<1>3. CASE writerLost
  BY <1>1, <1>3, KeptInPlace DEF writerLost, releaseOnChange, released, logind
<1>4. CASE writerReturned
  BY <1>1, <1>4, KeptInPlace DEF writerReturned, releaseOnChange, released, logind
<1>5. CASE serviceEvents
  BY <1>1, <1>5, KeptInPlace DEF serviceEvents, releaseOnChange, released, logind
<1>6. CASE inhibitRetry BY <1>1, <1>6, KeptInPlace DEF inhibitRetry
<1>7. CASE authorityLost BY <1>1, <1>7, KeptInPlace DEF authorityLost, logind
<1>8. CASE prepareForSleep
  <2>1. delay' => delay BY <1>1, <1>8 DEF prepareForSleep, released, safetyPort
  <2> QED BY <1>1, <1>8, <2>1, KeptOnReceipt DEF prepareForSleep, received, Running
<1>9. CASE resumed
  <2>1. delay' => delay BY <1>1, <1>9 DEF resumed, safetyPort
  <2> QED BY <1>1, <1>9, <2>1, KeptOnReceipt DEF resumed, received, Running
<1>10. CASE granted BY <1>1, <1>10, KeptOnReceipt DEF granted, received, Running
<1>11. CASE refused
  BY <1>1, <1>11, KeptOnReceipt DEF refused, received, Running
<1>12. CASE startedAgain BY <1>12 DEF startedAgain, SleepsUndelayed
<1>13. CASE goesToSleep
  BY <1>1, <1>13, KeptOnSend DEF goesToSleep, sends, safetyPort, Signals
<1>14. CASE grants \/ refuses
  BY <1>1, <1>14, KeptOnSend DEF grants, refuses, sends, safetyPort, Signals
<1>15. CASE wakes
  <2>1. ~overslept => NoDelayAhead(Len(signals)) BY <1>1, <1>15 DEF wakes, SleepsUndelayed
  <2> QED BY <1>1, <1>15, <2>1, KeptOnSend DEF wakes, safetyPort, Signals
<1>16. CASE suspends
  <2>1. signals' = signals /\ delay' = delay BY <1>16 DEF suspends, safetyPort
  <2>2. CASE ~delayed
    <3>1. NoDelayAhead(Len(signals)) BY <1>1, <2>2, LenProperties DEF delayed, NoDelayAhead
    <3>2. overslept' = overslept BY <1>16, <2>2 DEF suspends
    <3> QED BY <1>1, <2>1, <3>1, <3>2 DEF SleepsUndelayed, NoDelayAhead
  <2>3. CASE delayed BY <1>16, <2>3 DEF suspends, SleepsUndelayed
  <2> QED BY <2>2, <2>3
<1>17. CASE UNCHANGED runtimeVars
  BY <1>1, <1>17, KeptInPlace DEF runtimeVars, safetyPort, logind
<1> QED BY <1>2, <1>3, <1>4, <1>5, <1>6, <1>7, <1>8, <1>9, <1>10, <1>11, <1>12, <1>13,
           <1>14, <1>15, <1>16, <1>17 DEF RuntimeNext, messages

LEMMA SleepInvInit == RuntimeInit => SleepInv
<1> SUFFICES ASSUME RuntimeInit PROVE SleepInv
  OBVIOUS
<1>1. ApplyDelays BY DEF RuntimeInit, Init, ApplyDelays
<1>2. SleepsUndelayed BY DEF RuntimeInit, SleepsUndelayed
<1> QED BY <1>1, <1>2, RuntimeInvInit DEF SleepInv

LEMMA SleepInvNext == SleepInv /\ [RuntimeNext]_runtimeVars => SleepInv'
BY RuntimeInvNext, ApplyDelaysKept, SleepsUndelayedKept DEF SleepInv

LEMMA SleepsSafely == SleepInv => NoTrialAsleep
<1> SUFFICES ASSUME SleepInv, system = "asleep", ~overslept, ~failed
             PROVE  state \notin {"Applying", "Observing", "AwaitingConfirmation"}
  BY DEF NoTrialAsleep
<1>1. ~delay BY DEF SleepInv, SleepsUndelayed, NoDelayAhead
<1>2. state # "Applying" BY <1>1 DEF SleepInv, ApplyDelays
<1>3. ~safe BY <1>1 DEF SleepInv, RuntimeInv, Agreed, Combined
<1> QED BY <1>2, <1>3 DEF SleepInv, RuntimeInv, SafetyInv, UnsafeNeverForward

\* The system falls asleep over no trial, unless logind stopped waiting: for
\* any number of sleeps and messages under way.
THEOREM AsleepWithoutTrial == RuntimeSpec => []NoTrialAsleep
BY SleepInvInit, SleepInvNext, SleepsSafely, PTL DEF RuntimeSpec
=============================================================================
