------------------------ MODULE DisplayServiceProofs ------------------------
(***************************************************************************)
(* The resident service, with its stale reads, its late callbacks and its  *)
(* restarts, implements the transaction machine: every event it dispatches *)
(* is one step of the machine or leaves it alone.  What is proved of the   *)
(* machine therefore holds in the service, for every compositor.           *)
(***************************************************************************)
EXTENDS DisplayService, DisplayTransactionSafety, SequenceTheorems

Completion == [request : Issued, outcome : ApplyOutcome]

\* The port knows the lineage of every machine that exists.
LineageKnown == state # "Discovering" => lineage # 0

ServiceInv == SafetyInv /\ ServiceTypeOK /\ LineageKnown

-----------------------------------------------------------------------------
(* The port's share of a step.                                              *)

LEMMA IssuedTyped ==
    ASSUME SafetyInv', issues, NEW lin \in 1 .. MaxLineage
    PROVE  issued(lin) \in Issued
<1>1. token' \in 1 .. MaxToken /\ state' \in {"Applying", "RevertingApply"}
  BY DEF issues, SafetyInv, TypeInv, TypeOK, TokenFence
<1>2. journal'.target \in Layouts /\ journal'.preimage \in Layouts
  BY <1>1 DEF SafetyInv, TypeInv, Shape, Journal
<1>3. survivors' \in SUBSET Output BY DEF SafetyInv, TypeInv, TypeOK
<1>4. issued(lin) \in Request
  BY <1>1, <1>2, <1>3, ServiceBounds DEF issued, Request
<1>5. issued(lin).lineage # 0 /\ issued(lin).token # 0 BY <1>1, ServiceBounds DEF issued
<1> QED BY <1>4, <1>5 DEF Issued

LEMMA FinishedTyped ==
    ASSUME NEW w \in Issued \cup {NoRequest}, NEW q \in Seq(Completion),
           NEW outcome \in ApplyOutcome
    PROVE  finished(w, q, outcome) \in Seq(Completion)
<1>1. CASE w = NoRequest BY <1>1 DEF finished
<1>2. CASE w # NoRequest
  <2>1. completion(w, outcome) \in Completion BY <1>2 DEF completion, Completion
  <2> QED BY <1>2, <2>1, AppendProperties DEF finished
<1> QED BY <1>1, <1>2

LEMMA RequestTyped ==
    ASSUME proxy \in Proxy, NEW r \in Issued, NEW w \in Issued \cup {NoRequest},
           NEW q \in Seq(Completion), requestApply(r, w, q)
    PROVE  /\ writing' \in Issued \cup {NoRequest} /\ proxy' \in Proxy
           /\ callbacks' \in Seq(Completion)
<1>1. ASSUME NEW outcome \in ApplyOutcome
      PROVE  Append(q, completion(r, outcome)) \in Seq(Completion)
  <2>1. completion(r, outcome) \in Completion BY DEF completion, Completion
  <2> QED BY <2>1, AppendProperties
<1>2. [request |-> r, answer |-> "none"] \in Proxy BY DEF Proxy
<1> QED BY <1>1, <1>2 DEF requestApply, ApplyOutcome

LEMMA ServeTyped ==
    ASSUME ServiceTypeOK, SafetyInv', lineage # 0, serve
    PROVE  /\ writing' \in Issued \cup {NoRequest} /\ proxy' \in Proxy
           /\ callbacks' \in Seq(Completion) /\ lineage' = lineage
<1>1. lineage \in 1 .. MaxLineage BY ServiceBounds DEF ServiceTypeOK
<1>2. callbacks \in Seq(Completion) BY DEF ServiceTypeOK, Completion
<1>3. CASE issues
  <2>1. issued(lineage) \in Issued BY <1>1, <1>3, IssuedTyped
  <2> QED BY <1>2, <1>3, <2>1, RequestTyped DEF serve, ServiceTypeOK
<1>4. CASE ~issues BY <1>2, <1>4 DEF serve, ServiceTypeOK
<1> QED BY <1>3, <1>4

-----------------------------------------------------------------------------
(* Each event of the service is a step of the machine, or none.             *)

LEMMA ObservedStep ==
    ASSUME NEW s \in Snapshot, observedSnapshot(s)
    PROVE  Next
BY DEF Next, observations

LEMMA TopologyStep ==
    ASSUME ServiceInv, NEW s \in Snapshot, topologyChanged(s),
           ~sameOutputSet(s.layout, snap.layout)
    PROVE  Next
<1>1. observedSnapshot(s)
  BY DEF topologyChanged, observedSnapshot, dropStaged, observedReady, observedStuck
<1> QED BY <1>1, ObservedStep

LEMMA RouteStep ==
    ASSUME ServiceInv, NEW s \in Snapshot, routeObservation(s)
    PROVE  [Next]_vars
<1>1. CASE state = "Ready" /\ observedReady(s)
  BY <1>1, ObservedStep DEF observedSnapshot
<1>2. CASE ~sameOutputSet(s.layout, snap.layout) /\ topologyChanged(s)
  BY <1>2, TopologyStep
<1>3. CASE state = "Staged" /\ sameOutputSet(s.layout, snap.layout) /\ externalIntentObserved(s)
  BY <1>3 DEF Next, observations
<1>4. CASE observedSnapshot(s) \/ UNCHANGED vars
  BY <1>4, ObservedStep
<1> QED BY <1>1, <1>2, <1>3, <1>4 DEF routeObservation

LEMMA FrameStep ==
    ASSUME ServiceInv, NEW s \in Snapshot, observeFrame(s)
    PROVE  [Next]_vars
<1>1. CASE establishLineage(s)
  BY <1>1 DEF establishLineage, Next, observations
<1>2. CASE state # "Discovering" /\ s.rev = snap.rev /\ observedSnapshot(snap)
  BY <1>2, ObservedStep DEF ServiceInv, SafetyInv, TypeInv, Shape
<1>3. CASE routeObservation(s) BY <1>3, RouteStep
<1>4. CASE UNCHANGED vars BY <1>4
<1> QED BY <1>1, <1>2, <1>3, <1>4 DEF observeFrame

LEMMA LossStep == loseMachine => [Next]_vars
BY DEF loseMachine, Next, failures

LEMMA MessageTyped ==
    ASSUME ServiceTypeOK, inbox # <<>>
    PROVE  /\ Head(inbox) \in Message /\ Tail(inbox) \in Seq(Message)
           /\ Head(inbox) \notin {Changed, Failed} => Head(inbox).snapshot \in Snapshot
<1>1. Head(inbox) \in Message /\ Tail(inbox) \in Seq(Message)
  BY HeadTailProperties DEF ServiceTypeOK
<1> QED BY <1>1 DEF Message, Reply

LEMMA ServiceStep == ServiceInv /\ [ServiceNext]_serviceVars => [Next]_vars
<1> SUFFICES ASSUME ServiceInv, [ServiceNext]_serviceVars PROVE [Next]_vars
  OBVIOUS
<1>1. CASE readFinished
  <2>1. CASE loseMachine BY <2>1, LossStep
  <2>2. CASE Head(inbox) # Failed /\ observeFrame(Head(inbox).snapshot)
    <3>1. Head(inbox).snapshot \in Snapshot
      BY <1>1, <2>2, MessageTyped DEF readFinished, ServiceInv
    <3> QED BY <2>2, <3>1, FrameStep
  <2> QED BY <1>1, <2>1, <2>2 DEF readFinished
<1>2. CASE serviceOwnerChanged BY <1>2, LossStep DEF serviceOwnerChanged
<1>3. CASE applyCompletedEvent
  <2>1. CASE UNCHANGED vars BY <2>1
  <2>2. CASE /\ callbacks # <<>> /\ taken(Head(callbacks))
             /\ applyCompleted(Head(callbacks).request.token, Head(callbacks).outcome)
    <3>1. Head(callbacks) \in Completion
      BY <2>2, HeadTailProperties DEF ServiceInv, ServiceTypeOK, Completion
    <3>2. Head(callbacks).request.token \in 0 .. MaxToken /\ Head(callbacks).outcome \in ApplyOutcome
      BY <3>1 DEF Completion, Issued, Request
    <3> QED BY <2>2, <3>2 DEF Next, completions
  <2> QED BY <1>3, <2>1, <2>2 DEF applyCompletedEvent
<1>4. CASE deadline BY <1>4 DEF deadline, Next
<1>5. CASE topologySettleTimer BY <1>5 DEF topologySettleTimer, Next, settled
<1>6. CASE requests
  <2>1. CASE \E t \in Layouts : stage(t) BY <2>1 DEF Next, commands
  <2>2. CASE preview \/ confirm \/ cancel BY <2>2 DEF Next, commands
  <2>3. CASE \E value \in BOOLEAN : safetyChanged(value) BY <2>3 DEF Next, safetyEvents
  <2> QED BY <1>6, <2>1, <2>2, <2>3 DEF requests, clientCalls
<1>7. CASE restart BY <1>7 DEF restart, Next, failures
<1>8. CASE outputManagementOwnerChanged
  BY <1>8 DEF outputManagementOwnerChanged, Next, safetyEvents
<1>9. CASE UNCHANGED vars BY <1>9
<1> QED
  BY <1>1, <1>2, <1>3, <1>4, <1>5, <1>6, <1>7, <1>8, <1>9
  DEF ServiceNext, serviceSteps, compositorSteps, outputsChanged, idle, writerTimeout,
      outputManagementCompleted, configurationApplied,
      lateApplied, externalChange, answers, serviceVars, port

-----------------------------------------------------------------------------
(* The types of the service's own variables.                                *)

\* What is left to type once the port's variables are.
PortTyped ==
    /\ lineage' \in 0 .. MaxLineage /\ writing' \in Issued \cup {NoRequest}
    /\ proxy' \in Proxy /\ callbacks' \in Seq(Completion)

SourceTyped ==
    inbox' \in Seq(Message) /\ asked' \in BOOLEAN /\ dirty' \in BOOLEAN

LEMMA TypedFromParts ==
    ASSUME PortTyped, SourceTyped, live' \in Layouts, generation' \in 0 .. MaxRevision,
           late' \subseteq Request
    PROVE  ServiceTypeOK'
BY DEF PortTyped, SourceTyped, ServiceTypeOK, Completion, Issued, Proxy, Request

LEMMA PortKept ==
    ASSUME ServiceTypeOK, UNCHANGED port
    PROVE  PortTyped
BY DEF ServiceTypeOK, port, PortTyped, Completion

LEMMA EstablishTyped ==
    ASSUME ServiceTypeOK, SafetyInv', NEW s \in Snapshot, establishLineage(s)
    PROVE  PortTyped
<1> DEFINE q == finished(writing, callbacks, "TransportUncertain")
<1>1. lineage' = lineage + 1 /\ lineage + 1 \in 1 .. MaxLineage
  BY ServiceBounds DEF ServiceTypeOK, establishLineage
<1>2. q \in Seq(Completion)
  BY FinishedTyped DEF ServiceTypeOK, ApplyOutcome, Completion
<1>3. CASE issues
  <2>1. issued(lineage + 1) \in Issued BY <1>1, <1>3, IssuedTyped
  <2>2. requestApply(issued(lineage + 1), NoRequest, q) BY <1>3 DEF establishLineage
  <2>3. proxy \in Proxy BY DEF ServiceTypeOK
  <2>4. /\ writing' \in Issued \cup {NoRequest} /\ proxy' \in Proxy
        /\ callbacks' \in Seq(Completion)
    BY <1>2, <2>1, <2>2, <2>3, RequestTyped
  <2> QED BY <1>1, <2>4, ServiceBounds DEF PortTyped
<1>4. CASE ~issues
  BY <1>1, <1>2, <1>4 DEF establishLineage, PortTyped, ServiceTypeOK
<1> QED BY <1>3, <1>4

LEMMA ServePort ==
    ASSUME ServiceInv, SafetyInv', state # "Discovering", serve
    PROVE  PortTyped
<1>1. lineage # 0 BY DEF ServiceInv, LineageKnown
<1> QED BY <1>1, ServeTyped DEF ServiceInv, PortTyped, ServiceTypeOK

LEMMA FramePort ==
    ASSUME ServiceInv, SafetyInv', NEW s \in Snapshot, observeFrame(s)
    PROVE  PortTyped
BY EstablishTyped, ServePort DEF observeFrame, ServiceInv

\* An event that needs a machine has one; the others leave the port idle.
LEMMA MachineEventPort ==
    ASSUME ServiceInv, SafetyInv', deadline \/ topologySettleTimer \/ requests
    PROVE  PortTyped
<1>1. CASE state # "Discovering" BY <1>1, ServePort DEF deadline, topologySettleTimer, requests
<1>2. CASE state = "Discovering"
  <2>1. requests
    BY <1>2 DEF deadline, topologySettleTimer, topologySettled, tick,
                ServiceInv, SafetyInv, NoStrandedPreimage, Timed
  <2>2. \E value \in BOOLEAN : safetyChanged(value)
    BY <1>2, <2>1 DEF requests, clientCalls, stage, preview, mayPreview, confirm, cancel, dropStaged,
                      recordRevert, startRevert
  <2>3. ~issues
    BY <1>2, <2>2 DEF safetyChanged, dropStaged, recordRevert, startRevert, tokens, issues
  <2> QED BY <2>1, <2>3, PortKept DEF requests, serve, port, ServiceInv
<1> QED BY <1>1, <1>2

LEMMA CompletionPort ==
    ASSUME ServiceInv, SafetyInv', applyCompletedEvent
    PROVE  PortTyped
<1>1. Head(callbacks) \in Completion /\ Tail(callbacks) \in Seq(Completion)
  BY HeadTailProperties DEF applyCompletedEvent, ServiceInv, ServiceTypeOK, Completion
<1>2. CASE /\ taken(Head(callbacks)) /\ issues
           /\ requestApply(issued(lineage), writing, Tail(callbacks))
           /\ UNCHANGED lineage
  <2>1. lineage \in 1 .. MaxLineage
    BY <1>2, ServiceBounds DEF taken, ServiceInv, ServiceTypeOK, LineageKnown
  <2>2. issued(lineage) \in Issued BY <1>2, <2>1, IssuedTyped
  <2>3. proxy \in Proxy /\ writing \in Issued \cup {NoRequest}
    BY DEF ServiceInv, ServiceTypeOK
  <2>4. /\ writing' \in Issued \cup {NoRequest} /\ proxy' \in Proxy
        /\ callbacks' \in Seq(Completion)
    BY <1>1, <1>2, <2>2, <2>3, RequestTyped
  <2> QED BY <1>2, <2>1, <2>4 DEF PortTyped
<1>3. CASE callbacks' = Tail(callbacks) /\ UNCHANGED <<lineage, writing, proxy>>
  BY <1>1, <1>3 DEF PortTyped, ServiceInv, ServiceTypeOK
<1> QED BY <1>2, <1>3 DEF applyCompletedEvent

LEMMA ForgottenTyped ==
    ASSUME NEW r \in Request
    PROVE  [r EXCEPT !.lineage = 0, !.token = 0] \in Request
<1>1. 0 \in 0 .. MaxLineage /\ 0 \in 0 .. MaxToken BY ServiceBounds, BoundsAssumption
<1> QED BY <1>1 DEF Request

\* The port's own events: its timer, the compositor's answer, a hotplug.
LEMMA PortEventTyped ==
    ASSUME ServiceInv, SafetyInv',
           writerTimeout \/ outputManagementCompleted \/ outputManagementOwnerChanged
    PROVE  PortTyped /\ late' \subseteq Request
<1>s. ServiceTypeOK BY DEF ServiceInv
<1> USE <1>s
<1>1. callbacks \in Seq(Completion) /\ writing \in Issued \cup {NoRequest}
  BY DEF ServiceTypeOK, Completion
<1>2. abandoned \subseteq Request
  <2>1. proxy \in Proxy /\ late \subseteq Request BY DEF ServiceTypeOK
  <2>2. CASE proxy # NoRequest
    <3>1. proxy.request \in Request BY <2>1, <2>2 DEF Proxy, Issued
    <3>2. [proxy.request EXCEPT !.lineage = 0, !.token = 0] \in Request
      BY <3>1, ForgottenTyped
    <3> QED BY <2>1, <3>2 DEF abandoned
  <2>3. CASE proxy = NoRequest BY <2>1, <2>3 DEF abandoned
  <2> QED BY <2>2, <2>3
<1>3. ASSUME NEW outcome \in ApplyOutcome
      PROVE  finished(writing, callbacks, outcome) \in Seq(Completion)
  BY <1>1, FinishedTyped
<1>4. CASE writerTimeout
  BY <1>3, <1>4 DEF writerTimeout, ServiceTypeOK, PortTyped, ApplyOutcome, compositor
<1>5. CASE outputManagementCompleted
  <2>1. proxy.answer \in ApplyOutcome
    BY <1>5 DEF outputManagementCompleted, ServiceTypeOK, Proxy, ApplyOutcome
  <2> QED BY <1>3, <1>5, <2>1
          DEF outputManagementCompleted, ServiceTypeOK, PortTyped, Proxy, compositor
<1>6. CASE outputManagementOwnerChanged
  <2> DEFINE q == finished(writing, callbacks, "TransportUncertain")
  <2>1. q \in Seq(Completion) BY <1>3 DEF ApplyOutcome
  <2>2. callbacks' \in Seq(Completion)
    <3>1. CASE issues
      <4>1. state # "Discovering"
        BY <1>6, <3>1 DEF outputManagementOwnerChanged, safetyChanged, dropStaged, recordRevert,
                          startRevert, nothingToRevert, tokens, issues
      <4>2. lineage \in 1 .. MaxLineage
        BY <4>1, ServiceBounds DEF ServiceInv, ServiceTypeOK, LineageKnown
      <4>3. issued(lineage) \in Issued BY <3>1, <4>2, IssuedTyped
      <4>4. completion(issued(lineage), "TransportUncertain") \in Completion
        BY <4>3 DEF completion, Completion, ApplyOutcome
      <4> HIDE DEF q
      <4>5. Append(q, completion(issued(lineage), "TransportUncertain")) \in Seq(Completion)
        BY <2>1, <4>4, AppendProperties
      <4> QED BY <1>6, <3>1, <4>5 DEF outputManagementOwnerChanged, q
    <3>2. CASE ~issues BY <1>6, <2>1, <3>2 DEF outputManagementOwnerChanged
    <3> QED BY <3>1, <3>2
  <2> QED BY <1>2, <1>6, <2>2 DEF outputManagementOwnerChanged, ServiceTypeOK, PortTyped, Proxy
<1> QED BY <1>4, <1>5, <1>6

LEMMA AppendedTyped ==
    ASSUME ServiceTypeOK, NEW m \in Message
    PROVE  Append(inbox, m) \in Seq(Message)
BY AppendProperties DEF ServiceTypeOK

LEMMA PublishTyped ==
    ASSUME ServiceTypeOK, NEW l \in Layouts, publish(l)
    PROVE  live' \in Layouts /\ generation' \in 0 .. MaxRevision /\ inbox' \in Seq(Message)
<1>1. Append(inbox, Changed) \in Seq(Message) BY AppendedTyped DEF Message
<1>2. generation \in 0 .. MaxRevision /\ live \in Layouts /\ inbox \in Seq(Message)
  BY DEF ServiceTypeOK
<1>3. CASE UNCHANGED <<live, generation, inbox>> BY <1>2, <1>3
<1>4. CASE /\ generation < MaxRevision /\ generation' = generation + 1
           /\ live' = l /\ inbox' = Append(inbox, Changed)
  BY <1>1, <1>2, <1>4, BoundsAssumption
<1> QED BY <1>3, <1>4 DEF publish

LEMMA CompositorTyped ==
    ASSUME ServiceTypeOK, compositorSteps
    PROVE  ServiceTypeOK'
<1>1. CASE configurationApplied
  <2>1. live' \in Layouts /\ generation' \in 0 .. MaxRevision /\ inbox' \in Seq(Message)
    BY <1>1, PublishTyped DEF configurationApplied, applies, ServiceTypeOK
  <2>2. proxy \in Proxy /\ proxy # NoRequest BY <1>1 DEF configurationApplied, ServiceTypeOK
  <2>3. proxy' \in Proxy
    BY <1>1, <2>2 DEF configurationApplied, Proxy
  <2>4. PortTyped BY <1>1, <2>3 DEF configurationApplied, PortTyped, ServiceTypeOK, Completion
  <2>5. SourceTyped /\ late' \subseteq Request
    BY <1>1, <2>1 DEF configurationApplied, SourceTyped, ServiceTypeOK
  <2> QED BY <2>1, <2>4, <2>5, TypedFromParts
<1>2. CASE lateApplied
  <2>1. live' \in Layouts /\ generation' \in 0 .. MaxRevision /\ inbox' \in Seq(Message)
    BY <1>2, PublishTyped DEF lateApplied, applies, ServiceTypeOK
  <2>2. PortTyped BY <1>2, PortKept DEF lateApplied
  <2>3. SourceTyped /\ late' \subseteq Request
    BY <1>2, <2>1 DEF lateApplied, SourceTyped, ServiceTypeOK
  <2> QED BY <2>1, <2>2, <2>3, TypedFromParts
<1>3. CASE externalChange
  <2>1. inbox' \in Seq(Message) BY <1>3, AppendedTyped DEF externalChange, Message
  <2>2. live' \in Layouts /\ generation' \in 0 .. MaxRevision
    BY <1>3, BoundsAssumption DEF externalChange, ServiceTypeOK
  <2>3. PortTyped BY <1>3, PortKept DEF externalChange
  <2> QED BY <1>3, <2>1, <2>2, <2>3, TypedFromParts
          DEF externalChange, SourceTyped, ServiceTypeOK
<1>4. CASE answers
  <2>1. Reply([rev |-> generation, layout |-> live]) \in Message /\ Failed \in Message
    BY DEF ServiceTypeOK, Snapshot, Message
  <2>2. inbox' \in Seq(Message) BY <1>4, <2>1, AppendedTyped DEF answers
  <2>3. PortTyped BY <1>4, PortKept DEF answers
  <2> QED BY <1>4, <2>2, <2>3, TypedFromParts
          DEF answers, SourceTyped, compositor, ServiceTypeOK
<1> QED BY <1>1, <1>2, <1>3, <1>4 DEF compositorSteps

LEMMA DispatchTyped ==
    ASSUME ServiceInv, SafetyInv', serviceSteps
    PROVE  ServiceTypeOK'
<1>s. ServiceTypeOK BY DEF ServiceInv
<1>k. ASSUME UNCHANGED compositor
      PROVE  live' \in Layouts /\ generation' \in 0 .. MaxRevision /\ late' \subseteq Request
  BY <1>s, <1>k DEF compositor, ServiceTypeOK
<1>i. ASSUME UNCHANGED source PROVE SourceTyped
  BY <1>s, <1>i DEF source, SourceTyped, ServiceTypeOK
<1>1. CASE outputsChanged
  <2>1. SourceTyped
    BY <1>s, <1>1, MessageTyped DEF outputsChanged, SourceTyped, ServiceTypeOK, inFlight
  <2>2. PortTyped BY <1>s, <1>1, PortKept DEF outputsChanged, idle
  <2> QED BY <1>k, <1>1, <2>1, <2>2, TypedFromParts DEF outputsChanged
<1>2. CASE readFinished
  <2>1. SourceTyped
    BY <1>s, <1>2, MessageTyped DEF readFinished, SourceTyped, ServiceTypeOK
  <2>2. PortTyped
    <3>1. CASE loseMachine BY <1>s, <3>1, PortKept DEF loseMachine
    <3>2. CASE Head(inbox) # Failed /\ observeFrame(Head(inbox).snapshot)
      BY <1>s, <1>2, <3>2, MessageTyped, FramePort DEF readFinished
    <3> QED BY <1>2, <3>1, <3>2 DEF readFinished
  <2> QED BY <1>k, <1>2, <2>1, <2>2, TypedFromParts DEF readFinished
<1>3. CASE serviceOwnerChanged
  <2>1. SourceTyped BY <1>3, EmptySeq DEF serviceOwnerChanged, SourceTyped
  <2>2. PortTyped BY <1>s, <1>3, PortKept DEF serviceOwnerChanged, loseMachine
  <2> QED BY <1>k, <1>3, <2>1, <2>2, TypedFromParts DEF serviceOwnerChanged
<1>4. CASE applyCompletedEvent
  BY <1>k, <1>i, <1>4, CompletionPort, TypedFromParts DEF applyCompletedEvent
<1>5. CASE writerTimeout \/ outputManagementCompleted \/ outputManagementOwnerChanged
  <2>1. PortTyped /\ late' \subseteq Request BY <1>5, PortEventTyped
  <2>2. SourceTyped
    BY <1>i, <1>5 DEF writerTimeout, outputManagementCompleted, outputManagementOwnerChanged
  <2>3. live' \in Layouts /\ generation' \in 0 .. MaxRevision
    BY <1>s, <1>5 DEF writerTimeout, outputManagementCompleted, outputManagementOwnerChanged,
                      compositor, ServiceTypeOK
  <2> QED BY <2>1, <2>2, <2>3, TypedFromParts
<1>6. CASE deadline \/ topologySettleTimer \/ requests
  <2>1. UNCHANGED compositor /\ UNCHANGED source
    BY <1>6 DEF deadline, topologySettleTimer, requests
  <2> QED BY <1>k, <1>i, <1>6, <2>1, MachineEventPort, TypedFromParts
<1>7. CASE restart
  <2>1. PortTyped BY <1>7, EmptySeq, ServiceBounds DEF restart, PortTyped, Proxy
  <2>2. SourceTyped BY <1>7, EmptySeq DEF restart, SourceTyped
  <2>3. late' \subseteq Request
    <3>1. late \subseteq Request /\ proxy \in Proxy BY <1>s DEF ServiceTypeOK
    <3>2. proxy # NoRequest => proxy.request \in Request BY <3>1 DEF Proxy, Issued
    <3> QED BY <1>7, <3>1, <3>2, ForgottenTyped DEF restart, abandoned
  <2>4. live' \in Layouts /\ generation' \in 0 .. MaxRevision
    BY <1>s, <1>7 DEF restart, ServiceTypeOK
  <2> QED BY <2>1, <2>2, <2>3, <2>4, TypedFromParts
<1> QED BY <1>1, <1>2, <1>3, <1>4, <1>5, <1>6, <1>7 DEF serviceSteps

LEMMA LineageStep ==
    ASSUME ServiceInv, ServiceNext
    PROVE  LineageKnown'
<1> USE DEF LineageKnown
<1>1. LineageKnown /\ lineage \in 0 .. MaxLineage BY DEF ServiceInv, ServiceTypeOK
<1>2. CASE \E s \in {Head(inbox).snapshot} : establishLineage(s)
  BY <1>1, <1>2 DEF establishLineage
<1>3. CASE restart
  BY <1>3 DEF restart, processCrash, powerLoss, forgetMachine
<1>4. CASE state = "Discovering" /\ UNCHANGED state BY <1>4
<1>5. CASE state # "Discovering" /\ UNCHANGED lineage BY <1>1, <1>5
<1>6. CASE loseMachine
  BY <1>1, <1>6 DEF loseMachine, transportLost, forgetMachine, vars, machine
<1>7. CASE deadline \/ topologySettleTimer \/ requests
  <2>1. UNCHANGED lineage BY <1>7 DEF deadline, topologySettleTimer, requests, serve
  <2>2. state = "Discovering" => UNCHANGED state
    BY <1>7 DEF deadline, topologySettleTimer, topologySettled, tick, requests, clientCalls,
                ServiceInv, SafetyInv, NoStrandedPreimage, Timed, stage, preview, mayPreview,
                confirm, cancel, safetyChanged, dropStaged, recordRevert, startRevert, machine
  <2> QED BY <1>1, <2>1, <2>2
<1>8. CASE UNCHANGED state /\ UNCHANGED lineage BY <1>1, <1>8
<1>9. CASE outputManagementOwnerChanged
  BY <1>1, <1>9 DEF outputManagementOwnerChanged, safetyChanged, dropStaged, recordRevert,
                    startRevert, machine
<1> QED
  BY <1>2, <1>3, <1>4, <1>5, <1>6, <1>7, <1>8, <1>9
  DEF ServiceNext, serviceSteps, compositorSteps, outputsChanged, readFinished, observeFrame,
      serve, serviceOwnerChanged, applyCompletedEvent, taken, writerTimeout,
      outputManagementCompleted, configurationApplied,
      lateApplied, externalChange, answers, idle, port, vars, machine

LEMMA ServiceInitTyped == ServiceInit => ServiceInv
<1> SUFFICES ASSUME ServiceInit PROVE ServiceInv
  OBVIOUS
<1>1. SafetyInv /\ state = "Discovering" BY InitSafe DEF ServiceInit, Init
<1>2. inbox \in Seq(Message) /\ callbacks \in Seq(Completion) BY EmptySeq DEF ServiceInit
<1>3. ServiceTypeOK
  <2>1. live \in Layouts /\ generation \in 0 .. MaxRevision /\ lineage \in 0 .. MaxLineage
    BY ServiceBounds, BoundsAssumption DEF ServiceInit
  <2>2. late \subseteq Request /\ writing \in Issued \cup {NoRequest} /\ proxy \in Proxy
    BY DEF ServiceInit, Proxy
  <2>3. asked \in BOOLEAN /\ dirty \in BOOLEAN BY DEF ServiceInit
  <2> QED BY <1>2, <2>1, <2>2, <2>3 DEF ServiceTypeOK, Completion
<1> QED BY <1>1, <1>3 DEF ServiceInv, LineageKnown

LEMMA ServiceInvStep == ServiceInv /\ [ServiceNext]_serviceVars => ServiceInv'
<1> SUFFICES ASSUME ServiceInv, [ServiceNext]_serviceVars PROVE ServiceInv'
  OBVIOUS
<1>1. SafetyInv'
  <2>1. SafetyInv BY DEF ServiceInv
  <2> QED BY <2>1, ServiceStep, NextSafe
<1>2. CASE ServiceNext
  <2>1. ServiceTypeOK'
    BY <1>1, <1>2, DispatchTyped, CompositorTyped DEF ServiceNext, ServiceInv
  <2> QED BY <1>1, <1>2, <2>1, LineageStep DEF ServiceInv
<1>3. CASE UNCHANGED serviceVars
  <2>1. ServiceTypeOK'
    BY <1>3 DEF ServiceInv, ServiceTypeOK, serviceVars, compositor, source, port
  <2>2. LineageKnown'
    BY <1>3 DEF ServiceInv, LineageKnown, serviceVars, port, vars, machine
  <2> QED BY <1>1, <2>1, <2>2 DEF ServiceInv
<1> QED BY <1>2, <1>3

-----------------------------------------------------------------------------

\* Whatever the compositor, the D-Bus and the Wayland side do, every value
\* the service holds has its type, and every request under way carries a
\* lineage and a token some machine issued.
THEOREM ServiceTypeCorrect == ServiceSpec => []ServiceTypeOK
<1>1. ServiceInv => ServiceTypeOK BY DEF ServiceInv
<1> QED BY ServiceInitTyped, ServiceInvStep, <1>1, PTL DEF ServiceSpec

\* The resident service implements the transaction machine: no order of
\* events takes the machine through a step its interface does not have.
THEOREM ServiceImplements == ServiceSpec => Spec
<1>1. ServiceInit => Init BY DEF ServiceInit
<1> QED BY <1>1, ServiceInitTyped, ServiceInvStep, ServiceStep, PTL DEF ServiceSpec, Spec

\* In the running service too: no journal without a deadline, settle window
\* or visible stuck state; no preview on trial in an unsafe session; a
\* preimage on disk whenever the screen may show the candidate.
THEOREM ServiceSafe ==
    ServiceSpec => []NoStrandedPreimage /\ []UnsafeNeverForward /\ []ForwardCovered
BY ServiceImplements, NothingStranded, NeverForwardUnsafe, Covered, PTL

-----------------------------------------------------------------------------
(* The token of a request, within one machine.  Until the counter of a      *)
(* machine wraps, which takes MaxToken requests, a step keeps the request   *)
(* in flight, ends it, or replaces it by a new one.                         *)

TokenKept ==
    /\ UNCHANGED <<token, nextToken, state, survivors>>
    /\ journal'.preimage = journal.preimage /\ journal'.target = journal.target
TokenDropped == token' = 0 /\ nextToken' = nextToken
TokenIssued == token' = nextToken /\ nextToken' = nextToken + 1
MachineForgotten == state' = "Discovering" /\ token' = 0 /\ nextToken' = 1

TokenMoves == TokenKept \/ TokenDropped \/ TokenIssued

\* The counter of the current machine has not wrapped.
CounterLasts == nextToken # MaxToken

LEMMA TokenEnded ==
    ASSUME \/ clearTransaction \/ dropStaged \/ retainUncertainJournalForCleanup
           \/ \E c \in BOOLEAN, x \in BOOLEAN, D \in SUBSET Disk : enterStuck(c, x, D)
           \/ \E x \in BOOLEAN, S \in SUBSET Output, D \in SUBSET Disk : clearJournalThenReady(x, S, D)
           \/ \E s \in Snapshot : settleTopology(s) \/ abandonAfterTopology(s)
                                    \/ abandonDroppedDraft(s)
    PROVE  TokenDropped
BY DEF TokenDropped, clearTransaction, dropStaged, retainUncertainJournalForCleanup, enterStuck,
       clearJournalThenReady, settleTopology, abandonAfterTopology, abandonDroppedDraft

LEMMA TokenTaken ==
    ASSUME CounterLasts, nextToken' = nextTokenAfter(nextToken), token' = nextToken
    PROVE  TokenIssued
BY DEF CounterLasts, TokenIssued, nextTokenAfter

LEMMA RevertTokens ==
    ASSUME CounterLasts, NEW l, NEW S, NEW D, beginRevert(l, S, D)
    PROVE  TokenIssued
BY TokenTaken DEF beginRevert

LEMMA RetryTokens ==
    ASSUME CounterLasts, scheduleRevertRetry \/ issueRevertApply
    PROVE  TokenDropped \/ TokenIssued
BY TokenTaken DEF scheduleRevertRetry, issueRevertApply, enterStuck, TokenDropped

LEMMA AwaitTokens ==
    ASSUME CounterLasts, NEW l, awaitConfirmation(l)
    PROVE  TokenDropped \/ TokenIssued
<1>1. CASE token' = 0 /\ UNCHANGED nextToken BY <1>1 DEF TokenDropped
<1>2. CASE beginRevert(l, survivors, NotDurable(disk, journal)) BY <1>2, RevertTokens
<1> QED BY <1>1, <1>2 DEF awaitConfirmation

\* Where there is no request, none is kept.
LEMMA TokenUnmoved ==
    ASSUME SafetyInv, UNCHANGED tokens,
           state \in {"Applying", "RevertingApply"} =>
              /\ UNCHANGED <<state, survivors>>
              /\ journal'.preimage = journal.preimage /\ journal'.target = journal.target
    PROVE  TokenMoves
BY DEF SafetyInv, TokenFence, TokenMoves, TokenKept, TokenDropped, tokens

LEMMA RecordTokens ==
    ASSUME SafetyInv, recordRevert
    PROVE  TokenMoves
<1>1. journal \in Journal /\ state # "RevertingApply"
  BY DEF recordRevert, SafetyInv, TypeInv, Shape
<1>2. journal'.preimage = journal.preimage /\ journal'.target = journal.target
  BY <1>1 DEF recordRevert, Journal
<1> QED BY <1>1, <1>2, TokenUnmoved DEF recordRevert

LEMMA CommandTokens ==
    ASSUME SafetyInv, CounterLasts, commands \/ safetyEvents
    PROVE  TokenMoves
<1>1. CASE \E t \in Layouts : stage(t)
  BY <1>1, TokenUnmoved DEF stage
<1>2. CASE preview
  <2>1. CASE retainUncertainJournalForCleanup BY <2>1, TokenEnded DEF TokenMoves
  <2> QED BY <1>2, <2>1, TokenTaken DEF preview, TokenMoves
<1>3. CASE confirm
  <2>1. CASE clearTransaction BY <2>1, TokenEnded DEF TokenMoves
  <2>2. CASE UNCHANGED <<machine, flags, tokens, pending>>
    BY <2>2, TokenUnmoved DEF machine
  <2> QED BY <1>3, <2>1, <2>2 DEF confirm
<1>4. CASE dropStaged \/ recordRevert \/ startRevert
  <2>1. CASE dropStaged BY <2>1, TokenEnded DEF TokenMoves
  <2>2. CASE recordRevert BY <2>2, RecordTokens
  <2>3. CASE startRevert BY <2>3, RevertTokens DEF startRevert, TokenMoves
  <2> QED BY <1>4, <2>1, <2>2, <2>3
<1>5. CASE retryStuck
  <2>1. CASE clearTransaction BY <2>1, TokenEnded DEF TokenMoves
  <2>2. CASE UNCHANGED <<machine, flags, tokens, pending>>
    BY <2>2, TokenUnmoved DEF machine
  <2>3. CASE beginRevert(snap.layout, {}, {disk}) BY <2>3, RevertTokens DEF TokenMoves
  <2> QED BY <1>5, <2>1, <2>2, <2>3 DEF retryStuck
<1>6. CASE UNCHANGED <<machine, flags, tokens, pending, disk>>
  BY <1>6, TokenUnmoved DEF machine
<1> QED BY <1>1, <1>2, <1>3, <1>4, <1>5, <1>6
        DEF commands, safetyEvents, safetyChanged, prepareForSuspend, cancel

LEMMA CompletionTokens ==
    ASSUME SafetyInv, CounterLasts, completions \/ settled \/ tick
    PROVE  TokenMoves
<1>t. disk \in Disk /\ survivors \in SUBSET Output BY DEF SafetyInv, TypeInv, TypeOK
<1>c. ASSUME NEW S \in SUBSET Output, clearJournalThenReady(FALSE, S, {disk}) PROVE TokenMoves
  BY <1>t, <1>c, TokenEnded DEF TokenMoves
<1>r. ASSUME NEW l, NEW S, NEW D, beginRevert(l, S, D) PROVE TokenMoves
  BY <1>r, RevertTokens DEF TokenMoves
<1>1. ASSUME NEW t, NEW outcome, applyCompleted(t, outcome) PROVE TokenMoves
  <2>1. CASE awaitConfirmation(snap.layout) BY <2>1, AwaitTokens DEF TokenMoves
  <2>2. CASE token' = 0 /\ UNCHANGED nextToken BY <2>2 DEF TokenMoves, TokenDropped
  <2>3. CASE clearJournalThenReady(FALSE, survivors, {disk}) BY <1>t, <1>c, <2>3
  <2>4. CASE scheduleRevertRetry BY <2>4, RetryTokens DEF TokenMoves
  <2> QED BY <1>1, <2>1, <2>2, <2>3, <2>4
          DEF applyCompleted, applyCompletedForward, applyCompletedRevert
<1>2. CASE settled
  <2>0. PICK s \in Snapshot : topologySettled(s)
    <3>1. topologySettled(snap) => snap \in Snapshot
      BY DEF topologySettled, SafetyInv, TypeInv, Shape
    <3> QED BY <1>2, <3>1 DEF settled
  <2> DEFINE surv == IF sameOutputSet(s.layout, journal.preimage) THEN {}
                     ELSE survivingProperties(s.layout, journal.preimage)
  <2>1. surv \in SUBSET Output BY <2>0, SurvivorsTyped DEF Snapshot
  <2>2. \/ clearJournalThenReady(FALSE, survivors, {disk})
        \/ clearJournalThenReady(FALSE, surv, {disk})
        \/ beginRevert(s.layout, surv, {disk})
    BY <2>0 DEF topologySettled
  <2> HIDE DEF surv
  <2> QED BY <1>t, <1>c, <1>r, <2>1, <2>2
<1>3. CASE tick
  <2>1. CASE token' = 0 /\ UNCHANGED nextToken BY <2>1 DEF TokenMoves, TokenDropped
  <2>2. CASE scheduleRevertRetry \/ issueRevertApply BY <2>2, RetryTokens DEF TokenMoves
  <2> QED BY <1>3, <1>r, <2>1, <2>2 DEF tick, tickForward, tickRevert, flags
<1> QED BY <1>1, <1>2, <1>3 DEF completions

LEMMA ObservationTokens ==
    ASSUME SafetyInv, CounterLasts, NEW s \in Snapshot,
           observedSnapshot(s) \/ topologyChanged(s) \/ externalIntentObserved(s)
    PROVE  TokenMoves
<1>t. disk \in Disk /\ survivors \in SUBSET Output BY DEF SafetyInv, TypeInv, TypeOK
<1>k. ASSUME keepSnapshot(s) PROVE TokenMoves
  BY <1>k, TokenUnmoved DEF keepSnapshot, machine
<1>r. ASSUME NEW l, NEW S, NEW D, beginRevert(l, S, D) PROVE TokenMoves
  BY <1>r, RevertTokens DEF TokenMoves
<1>c. ASSUME clearJournalThenReady(FALSE, survivors, {disk}) PROVE TokenMoves
  BY <1>t, <1>c, TokenEnded DEF TokenMoves
<1>e. ASSUME settleTopology(s) \/ abandonAfterTopology(s) \/ dropStaged
               \/ abandonDroppedDraft(s)
      PROVE  TokenMoves
  BY <1>e, TokenEnded DEF TokenMoves
<1>1. CASE observedReady(s) BY <1>1, <1>k DEF observedReady
<1>2. CASE observedStuck(s)
  <2>1. CASE enterStuck(TRUE, FALSE, {disk}) BY <1>t, <2>1, TokenEnded DEF TokenMoves
  <2>2. CASE UNCHANGED <<state, journal, journalActive, attempt, armed, safe, flags,
                         tokens, pending, disk>>
    BY <1>2, <2>2, TokenUnmoved DEF observedStuck
  <2> QED BY <1>2, <2>1, <2>2 DEF observedStuck
<1>3. CASE topologyChanged(s) BY <1>1, <1>2, <1>3, <1>e DEF topologyChanged
<1>4. CASE abandonForExternalIntent(s)
  <2> DEFINE S == IF state = "Stuck" THEN {} ELSE survivors
             D == Written(disk, [journal EXCEPT !.abandon = TRUE])
  <2>1. CASE dropStaged BY <2>1, <1>e
  <2>2. CASE clearJournalThenReady(TRUE, S, D)
    BY <2>2 DEF TokenMoves, TokenDropped, clearJournalThenReady, clearTransaction, enterStuck
  <2> QED BY <1>4, <2>1, <2>2 DEF abandonForExternalIntent
<1>5. CASE externalIntentObserved(s)
  BY <1>1, <1>4, <1>5, <1>e DEF externalIntentObserved
<1>6. CASE observedApplying(s)
  BY <1>6, TokenUnmoved DEF observedApplying, machine
<1>7. CASE observedObserving(s)
  <2>1. CASE awaitConfirmation(s.layout) BY <2>1, AwaitTokens DEF TokenMoves
  <2> QED BY <1>7, <1>c, <1>k, <2>1 DEF observedObserving
<1>8. CASE observedUncertain(s) BY <1>8, <1>c, <1>k, <1>r DEF observedUncertain
<1>9. CASE observedReverting(s) BY <1>9, <1>c, <1>k DEF observedReverting
<1>10. CASE observedAwaiting(s) BY <1>10, <1>4, <1>k DEF observedAwaiting
<1> QED BY <1>1, <1>2, <1>3, <1>5, <1>6, <1>7, <1>8, <1>9, <1>10, <1>e DEF observedSnapshot

LEMMA BirthTokens ==
    ASSUME SafetyInv, CounterLasts, NEW s, initialize(s) \/ recover(s)
    PROVE  TokenMoves
<1>1. state = "Discovering" BY DEF initialize, recover
<1>2. CASE UNCHANGED tokens BY <1>1, <1>2, TokenUnmoved
<1>3. CASE recoverRevert(pending) BY <1>3, TokenTaken DEF recoverRevert, TokenMoves
<1> QED BY <1>2, <1>3 DEF initialize, recover, recoverSettling, recoverClear

\* Whatever the machine does, its token is kept with all it stands for,
\* dropped, or replaced by one that was never used.
LEMMA TokenStep ==
    ASSUME SafetyInv, CounterLasts, [Next]_vars
    PROVE  TokenMoves \/ MachineForgotten
<1>1. CASE observations
  BY <1>1, ObservationTokens, BirthTokens DEF observations
<1>2. CASE failures
  BY <1>2 DEF failures, transportLost, processCrash, powerLoss, forgetMachine, MachineForgotten
<1>3. CASE UNCHANGED vars BY <1>3, TokenUnmoved DEF vars, machine
<1> QED BY <1>1, <1>2, <1>3, CommandTokens, CompletionTokens DEF Next

-----------------------------------------------------------------------------
(* What is under way to the machine: requests with the compositor and       *)
(* completions queued for a later turn of the loop.                         *)

FlightOf(q, p) ==
    {q[i] : i \in DOMAIN q} \cup (IF p = NoRequest THEN {} ELSE {completion(p.request, p.answer)})
Flight == FlightOf(callbacks, proxy)

\* What the port waits for is what the compositor was given.
Accepts(w, p) == w # NoRequest => p # NoRequest /\ p.request = w
Accepted == Accepts(writing, proxy)

\* A request answers the machine's present wait.
Answers(r) ==
    /\ r.forward <=> state = "Applying"
    /\ r.wanted = IF r.forward THEN journal.target ELSE journal.preimage
    /\ ~r.forward => r.scope = survivors

\* The requests of this machine carry tokens it issued, and the one that
\* carries its present token is what it waits for.
Fence(r) ==
    /\ r.lineage <= lineage
    /\ state # "Discovering" /\ r.lineage = lineage =>
          r.token < nextToken /\ (r.token = token => Answers(r))

FenceInv ==
    /\ token < nextToken
    /\ Accepted
    /\ \A c \in Flight : Fence(c.request)

\* A step adds to what is under way a report on something that is, or the
\* request it issues; it does not make of anything that it was applied.
Answered == "Applied"
FlightStep ==
    \A c \in Flight' :
        \/ c \in Flight
        \/ c.outcome # Answered /\ \E d \in Flight : d.request = c.request
        \/ c.outcome # Answered /\ issues /\ c.request = issued(lineage')

LEMMA FlightTyped ==
    ASSUME ServiceTypeOK
    PROVE  \A c \in Flight : c.request \in Issued
<1>c. callbacks \in Seq(Completion) BY DEF ServiceTypeOK, Completion
<1>1. \A i \in DOMAIN callbacks : callbacks[i] \in Completion BY <1>c, ElementOfSeq
<1>2. proxy # NoRequest => proxy.request \in Issued BY DEF ServiceTypeOK, Proxy
<1> QED BY <1>1, <1>2 DEF Flight, FlightOf, Completion, completion

LEMMA AppendFlight ==
    ASSUME NEW q \in Seq(Completion), NEW p, NEW e
    PROVE  FlightOf(Append(q, e), p) = FlightOf(q, p) \cup {e}
<1>1. {Append(q, e)[i] : i \in DOMAIN Append(q, e)} = {q[i] : i \in DOMAIN q} \cup {e}
  BY AppendProperties
<1> QED BY <1>1 DEF FlightOf

LEMMA TailFlight ==
    ASSUME NEW q \in Seq(Completion), q # <<>>, NEW p
    PROVE  FlightOf(Tail(q), p) \subseteq FlightOf(q, p)
<1>1. \A i \in DOMAIN Tail(q) : i + 1 \in DOMAIN q /\ Tail(q)[i] = q[i + 1]
  BY HeadTailProperties
<1> QED BY <1>1 DEF FlightOf

\* finishPending() reports on what the port waited for.
LEMMA FinishedFlight ==
    ASSUME NEW w, NEW q \in Seq(Completion), NEW p, Accepts(w, p), NEW outcome
    PROVE  \A c \in FlightOf(finished(w, q, outcome), p) :
              \/ c \in FlightOf(q, p)
              \/ c = completion(w, outcome) /\ \E d \in FlightOf(q, p) : d.request = c.request
<1>1. CASE w = NoRequest BY <1>1 DEF finished
<1>2. CASE w # NoRequest
  <2>1. FlightOf(finished(w, q, outcome), p) = FlightOf(q, p) \cup {completion(w, outcome)}
    BY <1>2, AppendFlight DEF finished
  <2>2. completion(p.request, p.answer) \in FlightOf(q, p) /\ p.request = w
    BY <1>2 DEF Accepts, FlightOf
  <2> QED BY <2>1, <2>2 DEF completion
<1> QED BY <1>1, <1>2

\* requestApply() takes, refuses or cannot hand on the request, and reports on
\* nothing else.
LEMMA RequestFlight ==
    ASSUME NEW r \in Issued, NEW w, NEW q \in Seq(Completion), Accepts(w, proxy),
           requestApply(r, w, q)
    PROVE  /\ Accepted'
           /\ \A c \in Flight' : \/ c \in FlightOf(q, proxy)
                                 \/ c.request = r /\ c.outcome # Answered
<1>1. CASE /\ w = NoRequest /\ proxy = NoRequest
           /\ writing' = r /\ proxy' = [request |-> r, answer |-> "none"]
           /\ callbacks' = q
  <2>1. Flight' \subseteq {q[i] : i \in DOMAIN q} \cup {completion(r, "none")}
    BY <1>1 DEF Flight, FlightOf
  <2>2. proxy' # NoRequest BY <1>1, NoRequestAssumption DEF Issued
  <2> QED BY <1>1, <2>1, <2>2 DEF Accepted, Accepts, FlightOf, completion, Answered
<1>2. ASSUME NEW outcome \in {"Rejected", "TransportUncertain"},
             callbacks' = Append(q, completion(r, outcome)), UNCHANGED proxy
      PROVE  \A c \in Flight' : \/ c \in FlightOf(q, proxy)
                                \/ c.request = r /\ c.outcome # Answered
  <2>1. Flight' = FlightOf(q, proxy) \cup {completion(r, outcome)}
    BY <1>2, AppendFlight DEF Flight
  <2> QED BY <2>1 DEF completion, Answered
<1>3. CASE ~(/\ w = NoRequest /\ proxy = NoRequest
             /\ writing' = r /\ proxy' = [request |-> r, answer |-> "none"]
             /\ callbacks' = q)
  <2>1. Accepted' BY <1>3 DEF requestApply, Accepted, Accepts
  <2> QED BY <1>2, <1>3, <2>1 DEF requestApply
<1> QED BY <1>1, <1>3

LEMMA ServeFlight ==
    ASSUME ServiceInv, SafetyInv', Accepted, serve, state # "Discovering"
    PROVE  Accepted' /\ FlightStep
<1>1. callbacks \in Seq(Completion) /\ lineage' = lineage
  BY DEF ServiceInv, ServiceTypeOK, Completion, serve
<1>2. CASE issues
  <2>1. lineage \in 1 .. MaxLineage
    BY ServiceBounds DEF ServiceInv, ServiceTypeOK, LineageKnown
  <2>2. issued(lineage) \in Issued BY <1>2, <2>1, IssuedTyped
  <2>3. requestApply(issued(lineage), writing, callbacks) BY <1>2 DEF serve
  <2> HIDE DEF issued, issues
  <2> QED BY <1>1, <1>2, <2>2, <2>3, RequestFlight DEF FlightStep, Flight, Accepted
<1>3. CASE ~issues BY <1>3 DEF serve, Accepted, Accepts, FlightStep, Flight, FlightOf
<1> QED BY <1>2, <1>3

LEMMA EstablishFlight ==
    ASSUME ServiceInv, SafetyInv', Accepted, NEW s, establishLineage(s)
    PROVE  Accepted' /\ FlightStep
<1> DEFINE q == finished(writing, callbacks, "TransportUncertain")
<1>1. lineage' = lineage + 1 /\ lineage + 1 \in 1 .. MaxLineage
  BY ServiceBounds DEF ServiceInv, ServiceTypeOK, establishLineage
<1>2. callbacks \in Seq(Completion) /\ q \in Seq(Completion)
  BY FinishedTyped DEF ServiceInv, ServiceTypeOK, ApplyOutcome, Completion
<1>3. \A c \in FlightOf(q, proxy) :
         c \in Flight \/ (c.outcome # Answered /\ \E d \in Flight : d.request = c.request)
  BY <1>2, FinishedFlight DEF Flight, Accepted, completion, Answered
<1>4. CASE issues
  <2>1. issued(lineage + 1) \in Issued BY <1>1, <1>4, IssuedTyped
  <2>2. requestApply(issued(lineage + 1), NoRequest, q) BY <1>4 DEF establishLineage
  <2>3. Accepts(NoRequest, proxy) BY DEF Accepts
  <2> HIDE DEF issued, issues, q
  <2>4. /\ Accepted'
        /\ \A c \in Flight' : \/ c \in FlightOf(q, proxy)
                              \/ c.request = issued(lineage + 1) /\ c.outcome # Answered
    BY <1>2, <2>1, <2>2, <2>3, RequestFlight
  <2> QED BY <1>1, <1>3, <1>4, <2>4 DEF FlightStep
<1>5. CASE ~issues
  <2>1. callbacks' = q /\ writing' = NoRequest /\ UNCHANGED proxy BY <1>5 DEF establishLineage
  <2> HIDE DEF q
  <2>2. Flight' = FlightOf(q, proxy) BY <2>1 DEF Flight
  <2> QED BY <1>3, <2>1, <2>2 DEF FlightStep, Accepted, Accepts
<1> QED BY <1>4, <1>5

LEMMA CompletionFlight ==
    ASSUME ServiceInv, SafetyInv', Accepted, applyCompletedEvent
    PROVE  Accepted' /\ FlightStep
<1>1. callbacks \in Seq(Completion) /\ callbacks # <<>> /\ lineage' = lineage
  BY DEF ServiceInv, ServiceTypeOK, Completion, applyCompletedEvent
<1>2. Tail(callbacks) \in Seq(Completion) BY <1>1, HeadTailProperties
<1>3. FlightOf(Tail(callbacks), proxy) \subseteq Flight BY <1>1, TailFlight DEF Flight
<1>4. CASE /\ taken(Head(callbacks)) /\ issues
           /\ requestApply(issued(lineage), writing, Tail(callbacks))
  <2>1. lineage \in 1 .. MaxLineage
    BY <1>4, ServiceBounds DEF taken, ServiceInv, ServiceTypeOK, LineageKnown
  <2>2. issued(lineage) \in Issued BY <1>4, <2>1, IssuedTyped
  <2> HIDE DEF issued, issues
  <2>3. /\ Accepted'
        /\ \A c \in Flight' : \/ c \in FlightOf(Tail(callbacks), proxy)
                              \/ c.request = issued(lineage) /\ c.outcome # Answered
    BY <1>2, <1>4, <2>2, RequestFlight DEF Accepted
  <2> QED BY <1>1, <1>3, <1>4, <2>3 DEF FlightStep
<1>5. CASE callbacks' = Tail(callbacks) /\ UNCHANGED <<writing, proxy>>
  <2>1. Flight' = FlightOf(Tail(callbacks), proxy) BY <1>5 DEF Flight
  <2> QED BY <1>3, <1>5, <2>1 DEF FlightStep, Accepted, Accepts
<1> QED BY <1>4, <1>5 DEF applyCompletedEvent

LEMMA PortEventFlight ==
    ASSUME ServiceInv, SafetyInv', Accepted,
           writerTimeout \/ outputManagementCompleted \/ outputManagementOwnerChanged
    PROVE  Accepted' /\ FlightStep
<1>1. callbacks \in Seq(Completion) /\ writing \in Issued \cup {NoRequest}
  BY DEF ServiceInv, ServiceTypeOK, Completion
<1>2. writing' = NoRequest /\ Accepted'
  BY DEF writerTimeout, outputManagementCompleted, outputManagementOwnerChanged, Accepted, Accepts
<1> DEFINE q == finished(writing, callbacks, "TransportUncertain")
<1>3. q \in Seq(Completion) BY <1>1, FinishedTyped DEF ApplyOutcome
<1>4. \A c \in FlightOf(q, proxy) :
         c \in Flight \/ (c.outcome # Answered /\ \E d \in Flight : d.request = c.request)
  BY <1>1, FinishedFlight DEF Flight, Accepted, completion, Answered
<1>5. CASE writerTimeout
  <2>1. Flight' = FlightOf(q, proxy) BY <1>5 DEF writerTimeout, Flight
  <2> QED BY <1>2, <1>4, <2>1 DEF FlightStep
<1>6. CASE outputManagementCompleted
  <2> DEFINE f == finished(writing, callbacks, proxy.answer)
  <2>1. proxy # NoRequest /\ Flight' = FlightOf(f, NoRequest)
    BY <1>6 DEF outputManagementCompleted, Flight, FlightOf
  <2>2. FlightOf(f, NoRequest) \subseteq FlightOf(f, proxy) BY DEF FlightOf
  <2>3. \A c \in FlightOf(f, proxy) : c \in Flight \/ c = completion(writing, proxy.answer)
    BY <1>1, FinishedFlight DEF Flight, Accepted
  <2>4. completion(proxy.request, proxy.answer) \in Flight BY <2>1 DEF Flight, FlightOf
  <2>5. CASE writing = NoRequest
    <3>1. f = callbacks BY <2>5 DEF finished
    <3>2. FlightOf(f, proxy) = Flight BY <3>1 DEF Flight
    <3> QED BY <1>2, <2>1, <2>2, <3>2 DEF FlightStep
  <2>6. CASE writing # NoRequest
    <3>1. writing = proxy.request BY <2>6 DEF Accepted, Accepts
    <3> HIDE DEF f
    <3> QED BY <1>2, <2>1, <2>2, <2>3, <2>4, <3>1 DEF FlightStep
  <2> QED BY <2>5, <2>6
<1>7. CASE outputManagementOwnerChanged
  <2>1. FlightOf(q, NoRequest) \subseteq FlightOf(q, proxy) BY DEF FlightOf
  <2>2. lineage' = lineage /\ proxy' = NoRequest BY <1>7 DEF outputManagementOwnerChanged
  <2>3. CASE issues
    <3> DEFINE e == completion(issued(lineage), "TransportUncertain")
    <3>1. callbacks' = Append(q, e) BY <1>7, <2>3 DEF outputManagementOwnerChanged
    <3>2. e.request = issued(lineage) /\ e.outcome # Answered BY DEF completion, Answered
    <3> HIDE DEF e, q, issued, issues
    <3>3. Flight' = FlightOf(q, NoRequest) \cup {e} BY <1>3, <2>2, <3>1, AppendFlight DEF Flight
    <3> QED BY <1>2, <1>4, <2>1, <2>2, <2>3, <3>2, <3>3 DEF FlightStep
  <2>4. CASE ~issues
    <3>1. callbacks' = q BY <1>7, <2>4 DEF outputManagementOwnerChanged
    <3> HIDE DEF q
    <3>2. Flight' = FlightOf(q, NoRequest) BY <2>2, <3>1 DEF Flight
    <3> QED BY <1>2, <1>4, <2>1, <3>2 DEF FlightStep
  <2> QED BY <2>3, <2>4
<1> QED BY <1>5, <1>6, <1>7

LEMMA FlightSame ==
    ASSUME Accepted, UNCHANGED <<writing, proxy, callbacks>>
    PROVE  Accepted' /\ FlightStep
BY DEF Accepted, Accepts, FlightStep, Flight, FlightOf

\* An event before there is a machine leaves it unborn.
LEMMA UnbornStill ==
    ASSUME ServiceInv, state = "Discovering", deadline \/ topologySettleTimer \/ requests
    PROVE  UNCHANGED <<state, writing, proxy, callbacks>>
<1>1. requests
  BY DEF deadline, topologySettleTimer, topologySettled, tick, ServiceInv, SafetyInv,
         NoStrandedPreimage, Timed
<1>2. \E value \in BOOLEAN : safetyChanged(value)
  BY <1>1 DEF requests, clientCalls, stage, preview, mayPreview, confirm, cancel, dropStaged,
              recordRevert, startRevert
<1>3. ~issues /\ UNCHANGED state
  BY <1>2 DEF safetyChanged, dropStaged, recordRevert, startRevert, tokens, issues, machine
<1> QED BY <1>1, <1>3 DEF requests, serve

LEMMA DispatchFlight ==
    ASSUME ServiceInv, SafetyInv', Accepted, serviceSteps, ~restart
    PROVE  Accepted' /\ FlightStep
<1>1. CASE readFinished
  <2>1. CASE loseMachine BY <2>1, FlightSame DEF loseMachine, port
  <2>2. CASE observeFrame(Head(inbox).snapshot)
    BY <2>2, EstablishFlight, ServeFlight DEF observeFrame
  <2> QED BY <1>1, <2>1, <2>2 DEF readFinished
<1>2. CASE deadline \/ topologySettleTimer \/ requests
  <2>1. CASE state = "Discovering" BY <1>2, <2>1, UnbornStill, FlightSame
  <2>2. CASE state # "Discovering"
    BY <1>2, <2>2, ServeFlight DEF deadline, topologySettleTimer, requests
  <2> QED BY <2>1, <2>2
<1>3. CASE outputsChanged \/ serviceOwnerChanged
  BY <1>3, FlightSame DEF outputsChanged, serviceOwnerChanged, loseMachine, idle, port
<1> QED BY <1>1, <1>2, <1>3, CompletionFlight, PortEventFlight DEF serviceSteps

\* A machine is born under a lineage of its own, and under no other step.
NewLineage ==
    \/ lineage' = lineage /\ (state = "Discovering" => state' = "Discovering")
    \/ lineage' = lineage + 1 /\ state = "Discovering"

LEMMA DispatchLineage ==
    ASSUME ServiceInv, serviceSteps \/ compositorSteps, ~restart
    PROVE  NewLineage
<1> USE DEF NewLineage
<1>1. CASE readFinished
  <2>1. CASE loseMachine
    BY <2>1 DEF loseMachine, transportLost, forgetMachine, port, vars, machine
  <2>2. CASE establishLineage(Head(inbox).snapshot) BY <2>2 DEF establishLineage
  <2>3. CASE state # "Discovering" /\ serve BY <2>3 DEF serve
  <2> QED BY <1>1, <2>1, <2>2, <2>3 DEF readFinished, observeFrame
<1>2. CASE deadline \/ topologySettleTimer \/ requests
  BY <1>2, UnbornStill DEF deadline, topologySettleTimer, requests, serve
<1>3. CASE outputsChanged \/ serviceOwnerChanged
  BY <1>3 DEF outputsChanged, serviceOwnerChanged, loseMachine, transportLost, forgetMachine,
              idle, port, vars, machine
<1>4. CASE applyCompletedEvent
  BY <1>4 DEF applyCompletedEvent, taken, vars, machine
<1>5. CASE writerTimeout \/ outputManagementCompleted
  BY <1>5 DEF writerTimeout, outputManagementCompleted, vars, machine
<1>6. CASE outputManagementOwnerChanged
  BY <1>6 DEF outputManagementOwnerChanged, safetyChanged, dropStaged, recordRevert,
              startRevert, machine
<1>7. CASE compositorSteps
  BY <1>7 DEF compositorSteps, configurationApplied, lateApplied, externalChange, answers,
              port, vars, machine
<1> QED BY <1>1, <1>2, <1>3, <1>4, <1>5, <1>6, <1>7 DEF serviceSteps

\* A request under way stays fenced, whatever the machine does meanwhile.
LEMMA OldFenced ==
    ASSUME ServiceInv, FenceInv, TokenMoves \/ MachineForgotten, NewLineage,
           NEW r \in Issued, Fence(r)
    PROVE  Fence(r)'
<1>1. /\ r.lineage \in Nat /\ r.token \in Nat /\ r.token # 0 /\ lineage \in Nat
      /\ token \in Nat /\ nextToken \in Nat
  BY ServiceBounds, BoundsAssumption
  DEF Issued, Request, ServiceInv, ServiceTypeOK, SafetyInv, TypeInv, TypeOK
<1>2. r.lineage <= lineage' BY <1>1 DEF Fence, NewLineage
<1>3. CASE lineage' = lineage + 1 BY <1>1, <1>2, <1>3 DEF Fence
<1>4. CASE state' = "Discovering" BY <1>2, <1>4 DEF Fence
<1>5. CASE lineage' = lineage /\ state' # "Discovering"
  <2>1. CASE r.lineage # lineage BY <1>2, <1>5, <2>1 DEF Fence
  <2>2. CASE r.lineage = lineage
    <3>1. r.token < nextToken /\ (r.token = token => Answers(r))
      BY <1>1, <1>5, <2>2 DEF Fence, NewLineage
    <3>2. CASE TokenKept BY <1>2, <3>1, <3>2 DEF TokenKept, Fence, Answers
    <3>3. CASE TokenDropped BY <1>1, <1>2, <3>1, <3>3 DEF TokenDropped, Fence
    <3>4. CASE TokenIssued BY <1>1, <1>2, <3>1, <3>4 DEF TokenIssued, Fence
    <3> QED BY <1>5, <3>2, <3>3, <3>4 DEF TokenMoves, MachineForgotten
  <2> QED BY <2>1, <2>2
<1> QED BY <1>3, <1>4, <1>5 DEF NewLineage

\* And so is the one the machine issues.
LEMMA NewFenced ==
    ASSUME lineage' \in Nat, token' < nextToken', NEW r, r = issued(lineage')
    PROVE  Fence(r)'
<1>1. /\ r.lineage = lineage' /\ r.token = token'
      /\ r.forward = (state' = "Applying")
      /\ r.wanted = IF state' = "Applying" THEN journal'.target ELSE journal'.preimage
      /\ r.scope = IF state' = "Applying" THEN {} ELSE survivors'
  BY DEF issued
<1>2. r.forward <=> state' = "Applying" BY <1>1, Zenon
<1>3. /\ r.wanted = IF r.forward THEN journal'.target ELSE journal'.preimage
      /\ ~r.forward => r.scope = survivors'
  BY <1>1, <1>2
<1> QED BY <1>1, <1>2, <1>3 DEF Fence, Answers

LEMMA FenceStep ==
    ASSUME ServiceInv, ServiceInv', FenceInv, TokenMoves \/ MachineForgotten, NewLineage,
           Accepted',
           \A c \in Flight' : \/ \E d \in Flight : d.request = c.request
                              \/ issues /\ c.request = issued(lineage')
    PROVE  FenceInv'
<1>1. token' < nextToken'
  BY DEF ServiceInv, SafetyInv, TypeInv, TypeOK, FenceInv, TokenMoves, TokenKept, TokenDropped,
         TokenIssued, MachineForgotten
<1>2. \A d \in Flight : d.request \in Issued /\ Fence(d.request)
  BY FlightTyped DEF ServiceInv, FenceInv
<1>3. lineage' \in Nat BY ServiceBounds DEF ServiceInv, ServiceTypeOK
<1>4. ASSUME NEW c \in Flight' PROVE Fence(c.request)'
  <2>1. CASE \E d \in Flight : d.request = c.request BY <1>2, <2>1, OldFenced
  <2>2. CASE c.request = issued(lineage') BY <1>1, <1>3, <2>2, NewFenced
  <2> QED BY <2>1, <2>2
<1> QED BY <1>1, <1>4 DEF FenceInv

ServedInv == ServiceInv /\ FenceInv

LEMMA ServedStep == ServedInv /\ CounterLasts /\ [ServiceNext]_serviceVars => ServedInv'
<1> SUFFICES ASSUME ServedInv, CounterLasts, [ServiceNext]_serviceVars PROVE ServedInv'
  OBVIOUS
<1>1. ServiceInv /\ SafetyInv /\ FenceInv /\ Accepted BY DEF ServedInv, FenceInv, ServiceInv
<1>2. ServiceInv' /\ SafetyInv' BY <1>1, ServiceInvStep DEF ServiceInv
<1>3. TokenMoves \/ MachineForgotten BY <1>1, ServiceStep, TokenStep
<1>4. CASE restart
  <2>1. /\ lineage' = 0 /\ writing' = NoRequest /\ proxy' = NoRequest /\ callbacks' = <<>>
        /\ token' = 0 /\ nextToken' = 1
    BY <1>4 DEF restart, processCrash, powerLoss, forgetMachine
  <2>2. Flight' = {} BY <2>1 DEF Flight, FlightOf
  <2> QED BY <1>2, <2>1, <2>2 DEF ServedInv, FenceInv, Accepted, Accepts
<1>5. CASE serviceSteps /\ ~restart
  <2>1. Accepted' /\ FlightStep BY <1>1, <1>2, <1>5, DispatchFlight
  <2>2. NewLineage BY <1>1, <1>5, DispatchLineage
  <2>3. FenceInv' BY <1>1, <1>2, <1>3, <2>1, <2>2, FenceStep DEF FlightStep
  <2> QED BY <1>2, <2>3 DEF ServedInv
<1>6. CASE compositorSteps /\ ~restart
  <2>1. /\ UNCHANGED <<writing, callbacks>>
        /\ UNCHANGED proxy \/ (proxy # NoRequest /\ proxy' # NoRequest /\ proxy'.request = proxy.request)
    <3>1. CASE configurationApplied
      <4>1. proxy \in Proxy /\ proxy' \in Proxy /\ proxy # NoRequest
        BY <1>1, <1>2, <3>1 DEF ServiceInv, ServiceTypeOK, configurationApplied
      <4>2. \E a \in {"Applied", "Rejected"} : proxy' = [proxy EXCEPT !.answer = a]
        BY <3>1 DEF configurationApplied
      <4>3. proxy'.request = proxy.request BY <4>1, <4>2 DEF Proxy
      <4>4. proxy' # NoRequest
        BY <4>1, <4>2, NoRequestAssumption DEF Proxy, Issued
      <4> QED BY <3>1, <4>1, <4>3, <4>4 DEF configurationApplied
    <3> QED BY <1>6, <3>1 DEF compositorSteps, lateApplied, externalChange, answers, port
  <2>2. Accepted' BY <1>1, <2>1 DEF Accepted, Accepts
  <2>3. ASSUME NEW c \in Flight' PROVE \E d \in Flight : d.request = c.request
    <3>1. CASE \E i \in DOMAIN callbacks : c = callbacks[i] BY <3>1 DEF Flight, FlightOf
    <3>2. CASE proxy' # NoRequest /\ c = completion(proxy'.request, proxy'.answer)
      <4>1. proxy # NoRequest /\ proxy'.request = proxy.request BY <2>1, <3>2
      <4>2. completion(proxy.request, proxy.answer) \in Flight BY <4>1 DEF Flight, FlightOf
      <4> QED BY <3>2, <4>1, <4>2 DEF completion
    <3> QED BY <2>1, <3>1, <3>2 DEF Flight, FlightOf
  <2>4. NewLineage BY <1>1, <1>6, DispatchLineage
  <2>5. FenceInv' BY <1>1, <1>2, <1>3, <2>2, <2>3, <2>4, FenceStep
  <2> QED BY <1>2, <2>5 DEF ServedInv
<1>7. CASE UNCHANGED serviceVars
  <2>1. FenceInv'
    BY <1>1, <1>7 DEF FenceInv, Accepted, Accepts, Flight, FlightOf, Fence, Answers, serviceVars,
                      port, vars, machine, tokens
  <2> QED BY <1>2, <2>1 DEF ServedInv
<1> QED BY <1>4, <1>5, <1>6, <1>7 DEF ServiceNext

LEMMA InitServed == ServiceInit => ServedInv
<1> SUFFICES ASSUME ServiceInit PROVE ServedInv
  OBVIOUS
<1>1. ServiceInv BY ServiceInitTyped
<1>2. Flight = {} /\ Accepted BY DEF ServiceInit, Flight, FlightOf, Accepted, Accepts
<1> QED BY <1>1, <1>2 DEF ServedInv, FenceInv, ServiceInit, Init

LEMMA ServedFenced == ServedInv => CompletionFence
<1> SUFFICES ASSUME ServedInv, callbacks # <<>>, taken(Head(callbacks)) PROVE
        /\ Head(callbacks).request.forward <=> state = "Applying"
        /\ Head(callbacks).request.wanted
             = IF Head(callbacks).request.forward THEN journal.target ELSE journal.preimage
  BY DEF CompletionFence
<1>1. callbacks \in Seq(Completion) BY DEF ServedInv, ServiceInv, ServiceTypeOK, Completion
<1>2. Head(callbacks) = callbacks[1] /\ 1 \in DOMAIN callbacks BY <1>1
<1>3. Head(callbacks) \in Flight BY <1>2 DEF Flight, FlightOf
<1>4. Answers(Head(callbacks).request)
  BY <1>3 DEF ServedInv, FenceInv, Fence, taken, fenced
<1> QED BY <1>4 DEF Answers

\* While no machine wraps its token counter, which takes 2^64 - 1 requests, a
\* completion that moves the machine answers the request the machine waits on:
\* no completion of an earlier machine, attempt or direction is taken for it,
\* however late it is dispatched.
THEOREM CompletionsFenced == ServiceSpec /\ []CounterLasts => []CompletionFence
BY InitServed, ServedStep, ServedFenced, PTL DEF ServiceSpec

-----------------------------------------------------------------------------
(* What the machine believes of the compositor.  Every change of the layout *)
(* raises the generation and sends a signal, so that what is read under the *)
(* present generation is live, and a reply with no signal behind it is of   *)
(* the present generation.                                                  *)

Known(s) == s.rev <= generation /\ (s.rev = generation => s.layout = live)

SourceTrue ==
    \A i \in DOMAIN inbox : inbox[i] \notin {Changed, Failed} =>
        /\ Known(inbox[i].snapshot)
        /\ (\A j \in DOMAIN inbox : j > i => inbox[j] # Changed)
             => inbox[i].snapshot.rev = generation

SnapTrue == state # "Discovering" => Known(snap)

\* In RevertBackoff the model refuses frames, so a machine may roll back on a
\* stale snapshot; the rollback it then takes for done was applied, and made
\* the snapshot true.
Believed == snap.layout = live \/ NewsComing
Applied(c) ==
    /\ c.outcome = Answered
    /\ c.request.lineage = lineage /\ c.request.token = token
RollbackSeen ==
    state = "RevertingApply" /\ snap.layout = journal.preimage /\ (\E c \in Flight : Applied(c))
    => Believed

Offering ==
    {"Ready", "Staged", "Applying", "Observing", "ResolvingUncertain", "AwaitingConfirmation",
     "SettlingTopology"}

TruthInv == SourceTrue /\ SnapTrue /\ RollbackSeen /\ NoStaleTruth

\* An accepted frame is the machine's snapshot from then on.
LEMMA FrameTaken ==
    ASSUME NEW s, observedSnapshot(s) \/ topologyChanged(s) \/ externalIntentObserved(s)
    PROVE  snap' = s
<1> USE DEF keepSnapshot
<1>1. CASE observedReady(s) BY <1>1 DEF observedReady
<1>2. CASE observedStuck(s) BY <1>2 DEF observedStuck
<1>3. CASE settleTopology(s) \/ abandonAfterTopology(s)
  BY <1>3 DEF settleTopology, abandonAfterTopology
<1>4. CASE abandonForExternalIntent(s) BY <1>4 DEF abandonForExternalIntent
<1>5. CASE topologyChanged(s) BY <1>1, <1>2, <1>3, <1>5 DEF topologyChanged
<1>6. CASE externalIntentObserved(s)
  BY <1>1, <1>3, <1>4, <1>6 DEF externalIntentObserved, abandonDroppedDraft
<1>7. CASE observedApplying(s) \/ observedObserving(s) \/ observedUncertain(s)
  BY <1>7 DEF observedApplying, observedObserving, observedUncertain
<1>8. CASE observedReverting(s) \/ observedAwaiting(s)
  BY <1>4, <1>8 DEF observedReverting, observedAwaiting
<1> QED BY <1>1, <1>2, <1>3, <1>5, <1>6, <1>7, <1>8 DEF observedSnapshot

\* What a frame leaves: itself, or what the machine held because it is no
\* older, shows the same, or cannot be taken.
LEMMA FrameHeld ==
    ASSUME NEW s, observeFrame(s)
    PROVE  \/ snap' = s
           \/ /\ snap' = snap /\ state # "Discovering"
              /\ \/ s.rev < snap.rev \/ s.rev = snap.rev \/ s.layout = snap.layout
                 \/ state' = "RevertBackoff"
<1>1. CASE establishLineage(s) BY <1>1 DEF establishLineage, initialize, recover
<1>2. CASE s.rev = snap.rev /\ observedSnapshot(snap) /\ state # "Discovering"
  BY <1>2, FrameTaken
<1>3. CASE routeObservation(s) /\ state # "Discovering"
  <2>1. CASE observedReady(s) BY <2>1 DEF observedReady, keepSnapshot
  <2>2. CASE state = "RevertBackoff" /\ UNCHANGED vars BY <2>2 DEF vars, machine
  <2> QED BY <1>3, <2>1, <2>2, FrameTaken DEF routeObservation
<1>4. CASE /\ state # "Discovering" /\ UNCHANGED vars
           /\ s.rev < snap.rev \/ s.rev = snap.rev \/ s.layout = snap.layout
  BY <1>4 DEF vars
<1> QED BY <1>1, <1>2, <1>3, <1>4 DEF observeFrame

\* The other events keep the snapshot, and offer nothing but what the machine
\* offered, or a rollback it was told is applied.
Kept ==
    /\ snap' = snap
    /\ state' \in Offering =>
         \/ state \in Offering
         \/ /\ state = "RevertingApply" /\ snap.layout = journal.preimage
            /\ \E c \in Flight : Applied(c)

LEMMA OnlyRevertEnds ==
    ASSUME SafetyInv, state \notin Offering,
           tick \/ clientCalls \/ (\E value \in BOOLEAN : safetyChanged(value))
           \/ topologySettled(snap)
    PROVE  state' \notin Offering
<1> USE DEF Offering
<1>1. CASE tick
  BY <1>1 DEF tick, tickForward, tickRevert, scheduleRevertRetry, issueRevertApply, enterStuck
<1>2. CASE clientCalls \/ \E value \in BOOLEAN : safetyChanged(value)
  BY <1>2 DEF clientCalls, stage, preview, mayPreview, confirm, cancel, safetyChanged, dropStaged,
              recordRevert, startRevert, machine
<1> QED BY <1>1, <1>2 DEF topologySettled

LEMMA EventKept ==
    ASSUME ServedInv,
           deadline \/ topologySettleTimer \/ requests \/ outputManagementOwnerChanged
    PROVE  Kept
<1>1. snap' = snap
  BY DEF deadline, topologySettleTimer, requests, outputManagementOwnerChanged, tick,
         topologySettled, clientCalls, stage, preview, confirm, cancel, safetyChanged
<1>2. SafetyInv BY DEF ServedInv, ServiceInv
<1>3. \/ tick \/ clientCalls \/ (\E value \in BOOLEAN : safetyChanged(value))
      \/ topologySettled(snap)
  BY DEF deadline, topologySettleTimer, requests, outputManagementOwnerChanged
<1> QED BY <1>1, <1>2, <1>3, OnlyRevertEnds DEF Kept

LEMMA CompletionKept ==
    ASSUME ServedInv, applyCompletedEvent
    PROVE  Kept
<1> DEFINE c == Head(callbacks)
<1>1. CASE UNCHANGED vars BY <1>1 DEF Kept, vars, machine
<1>2. CASE taken(c) /\ applyCompleted(c.request.token, c.outcome)
  <2>1. callbacks \in Seq(Completion) /\ callbacks # <<>>
    BY DEF ServedInv, ServiceInv, ServiceTypeOK, Completion, applyCompletedEvent
  <2>2. c = callbacks[1] /\ 1 \in DOMAIN callbacks BY <2>1
  <2>3. c \in Flight BY <2>2 DEF Flight, FlightOf
  <2>4. c.request.lineage = lineage /\ c.request.token = token BY <1>2 DEF taken, fenced
  <2> HIDE DEF c
  <2>5. snap' = snap BY <1>2 DEF applyCompleted
  <2>6. CASE state = "Applying" BY <2>5, <2>6 DEF Kept, Offering
  <2>7. CASE state # "Applying"
    <3>1. applyCompletedRevert(c.outcome)
      BY <1>2, <2>7 DEF applyCompleted, applyCompletedForward
    <3>2. \/ c.outcome = "Applied" /\ snap.layout = journal.preimage
          \/ state' \in {"RevertingObserve", "Stuck", "RevertBackoff"}
      BY <3>1 DEF applyCompletedRevert, scheduleRevertRetry, enterStuck
    <3>3. state = "RevertingApply" BY <3>1 DEF applyCompletedRevert
    <3> QED BY <2>3, <2>4, <2>5, <3>2, <3>3 DEF Kept, Offering, Applied, Answered
  <2> QED BY <2>6, <2>7
<1> QED BY <1>1, <1>2 DEF applyCompletedEvent

-----------------------------------------------------------------------------
(* The messages under way.                                                  *)

LEMMA ReplyTyped ==
    ASSUME ServiceTypeOK, NEW i \in DOMAIN inbox, inbox[i] \notin {Changed, Failed}
    PROVE  inbox[i].snapshot \in Snapshot
<1>1. inbox \in Seq(Message) BY DEF ServiceTypeOK
<1>2. inbox[i] \in Message BY <1>1, ElementOfSeq
<1> QED BY <1>2 DEF Message, Reply

LEMMA TailSource ==
    ASSUME ServiceTypeOK, SourceTrue, inbox # <<>>, inbox' = Tail(inbox),
           UNCHANGED <<live, generation>>
    PROVE  SourceTrue'
<1>1. inbox \in Seq(Message) BY DEF ServiceTypeOK
<1>2. /\ \A i \in DOMAIN inbox' : i + 1 \in DOMAIN inbox /\ inbox'[i] = inbox[i + 1]
      /\ \A j \in DOMAIN inbox : j > 1 => j - 1 \in DOMAIN inbox' /\ inbox'[j - 1] = inbox[j]
      /\ DOMAIN inbox \subseteq Nat \ {0} /\ DOMAIN inbox' \subseteq Nat \ {0}
  BY <1>1
<1> SUFFICES ASSUME NEW i \in DOMAIN inbox', inbox'[i] \notin {Changed, Failed}
             PROVE  /\ Known(inbox'[i].snapshot)
                    /\ (\A j \in DOMAIN inbox' : j > i => inbox'[j] # Changed)
                         => inbox'[i].snapshot.rev = generation
  BY DEF SourceTrue, Known, Changed, Failed
<1>3. inbox[i + 1] = inbox'[i] /\ i + 1 \in DOMAIN inbox BY <1>2
<1>4. ASSUME \A j \in DOMAIN inbox' : j > i => inbox'[j] # Changed,
             NEW j \in DOMAIN inbox, j > i + 1
      PROVE  inbox[j] # Changed
  <2>1. j > 1 /\ j - 1 > i BY <1>2, <1>4
  <2>2. j - 1 \in DOMAIN inbox' /\ inbox'[j - 1] = inbox[j] BY <1>2, <2>1
  <2> QED BY <1>4, <2>1, <2>2
<1> QED BY <1>3, <1>4 DEF SourceTrue

LEMMA AppendSource ==
    ASSUME ServiceTypeOK, SourceTrue, NEW m, inbox' = Append(inbox, m),
           \/ m = Changed /\ generation' = generation + 1
           \/ UNCHANGED <<live, generation>> /\ m = Failed
           \/ UNCHANGED <<live, generation>> /\ m = Reply([rev |-> generation, layout |-> live])
    PROVE  SourceTrue'
<1>1. inbox \in Seq(Message) /\ generation \in Nat
  BY BoundsAssumption DEF ServiceTypeOK
<1>2. /\ \A i \in DOMAIN inbox' :
            i = Len(inbox) + 1 \/ (i \in DOMAIN inbox /\ inbox'[i] = inbox[i])
      /\ \A i \in DOMAIN inbox : i \in DOMAIN inbox' /\ inbox'[i] = inbox[i]
                                 /\ i \in Nat /\ i < Len(inbox) + 1
      /\ Len(inbox) + 1 \in DOMAIN inbox' /\ inbox'[Len(inbox) + 1] = m
  BY <1>1
<1> SUFFICES ASSUME NEW i \in DOMAIN inbox', inbox'[i] \notin {Changed, Failed}
             PROVE  /\ inbox'[i].snapshot.rev <= generation'
                    /\ inbox'[i].snapshot.rev = generation' => inbox'[i].snapshot.layout = live'
                    /\ (\A j \in DOMAIN inbox' : j > i => inbox'[j] # Changed)
                         => inbox'[i].snapshot.rev = generation'
  BY DEF SourceTrue, Known, Changed, Failed
<1>3. CASE i = Len(inbox) + 1
  <2>1. m # Changed /\ m # Failed BY <1>2, <1>3
  <2>2. UNCHANGED <<live, generation>> /\ m.snapshot = [rev |-> generation, layout |-> live]
    BY <2>1 DEF Reply
  <2>3. inbox'[i] = m BY <1>2, <1>3
  <2> QED BY <1>1, <2>2, <2>3 DEF Known
<1>4. CASE i \in DOMAIN inbox
  <2>1. inbox'[i] = inbox[i] BY <1>2, <1>4
  <2>2. Known(inbox[i].snapshot) BY <1>4, <2>1 DEF SourceTrue
  <2>3. inbox[i].snapshot.rev \in Nat BY <1>4, <2>1, ReplyTyped DEF Snapshot
  <2>4. CASE m = Changed /\ generation' = generation + 1
    BY <1>1, <1>2, <1>4, <2>1, <2>2, <2>3, <2>4 DEF Known
  <2>5. CASE UNCHANGED <<live, generation>>
    BY <1>2, <1>4, <2>1, <2>2, <2>5 DEF Known, SourceTrue
  <2> QED BY <2>4, <2>5
<1> QED BY <1>2, <1>3, <1>4

-----------------------------------------------------------------------------
(* A step of the service keeps what is believed true, or sees to it that    *)
(* another read comes.                                                      *)

TrueInv == ServedInv /\ Inv /\ TruthInv

\* The believing of a state that is not Discovering.
BelievedNext ==
    \/ state' \in {"Discovering", "RevertBackoff"}
    \/ snap'.layout = live' \/ NewsComing'

LEMMA BelievedEnough ==
    ASSUME BelievedNext
    PROVE  RollbackSeen' /\ NoStaleTruth'
BY DEF BelievedNext, RollbackSeen, Believed, NoStaleTruth

\* A frame that leaves nothing under way was of the present generation.
LEMMA ReadBelieved ==
    ASSUME TrueInv, readFinished
    PROVE  BelievedNext /\ SnapTrue'
<1>1. ServiceTypeOK /\ SourceTrue /\ SnapTrue BY DEF TrueInv, ServedInv, ServiceInv, TruthInv
<1>2. inbox \in Seq(Message) /\ inbox # <<>> BY <1>1 DEF ServiceTypeOK, readFinished
<1>3. 1 \in DOMAIN inbox /\ Head(inbox) = inbox[1] BY <1>2
<1>4. UNCHANGED <<live, generation>> BY DEF readFinished, compositor
<1>5. CASE loseMachine
  <2>1. state' = "Discovering"
    BY <1>5 DEF loseMachine, transportLost, forgetMachine, vars, machine
  <2> QED BY <2>1 DEF BelievedNext, SnapTrue
<1>6. CASE Head(inbox) # Failed /\ observeFrame(Head(inbox).snapshot)
  <2> DEFINE f == Head(inbox).snapshot
  <2>1. Head(inbox) \notin {Changed, Failed} BY <1>6 DEF readFinished
  <2>2. Known(f) /\ f \in Snapshot BY <1>1, <1>3, <2>1, ReplyTyped DEF SourceTrue
  <2>3. ~NewsComing' => f.rev = generation
    <3>1. ~NewsComing' => Tail(inbox) = <<>> BY DEF readFinished, NewsComing
    <3>2. Tail(inbox) = <<>> => \A j \in DOMAIN inbox : ~(j > 1) BY <1>2
    <3> QED BY <1>1, <1>3, <2>1, <3>1, <3>2 DEF SourceTrue
  <2>4. \/ snap' = f
        \/ /\ snap' = snap /\ state # "Discovering"
           /\ \/ f.rev < snap.rev \/ f.rev = snap.rev \/ f.layout = snap.layout
              \/ state' = "RevertBackoff"
    BY <1>6, FrameHeld
  <2> HIDE DEF f
  <2>5. state # "Discovering" => Known(snap) /\ snap.rev \in Nat
    BY <1>1 DEF SnapTrue, TrueInv, ServedInv, ServiceInv, SafetyInv, TypeInv, Shape, Snapshot
  <2>6. f.rev \in Nat /\ generation \in Nat
    BY <1>1, <2>2, BoundsAssumption DEF Snapshot, ServiceTypeOK
  <2>7. SnapTrue' BY <1>4, <2>2, <2>4, <2>5 DEF SnapTrue, Known
  <2>8. ~NewsComing' => snap'.layout = live \/ state' = "RevertBackoff"
    BY <2>2, <2>3, <2>4, <2>5, <2>6 DEF Known
  <2> QED BY <1>4, <2>7, <2>8 DEF BelievedNext
<1> QED BY <1>5, <1>6 DEF readFinished

\* An event that brings no news of the compositor.
LEMMA EventTrue ==
    ASSUME TrueInv, ServedInv', Kept, FlightStep, lineage' = lineage, NewLineage,
           TokenMoves \/ MachineForgotten, UNCHANGED <<live, generation, inbox, asked>>
    PROVE  TruthInv'
<1>1. SourceTrue' BY DEF TrueInv, TruthInv, SourceTrue, Known, Changed, Failed
<1>2. NewsComing' = NewsComing BY DEF NewsComing
<1>3. lineage \in Nat BY ServiceBounds DEF TrueInv, ServedInv, ServiceInv, ServiceTypeOK
<1>4. state' # "Discovering" => state # "Discovering" BY <1>3 DEF NewLineage
<1>5. SnapTrue' BY <1>4 DEF TrueInv, TruthInv, SnapTrue, Kept, Known
<1>6. NoStaleTruth'
  BY <1>2 DEF TrueInv, TruthInv, NoStaleTruth, Kept, Offering, RollbackSeen, Believed
<1>7. RollbackSeen'
  <2> SUFFICES ASSUME state' = "RevertingApply", snap'.layout = journal'.preimage,
                      NEW c \in Flight', Applied(c)'
               PROVE  Believed'
    BY DEF RollbackSeen
  <2>1. token' # 0 BY DEF ServedInv, ServiceInv, SafetyInv, TokenFence
  <2>2. c.outcome = Answered /\ c.request.lineage = lineage /\ c.request.token = token'
    BY DEF Applied, Answered
  <2>3. c \in Flight BY <2>2 DEF FlightStep
  <2>4. state # "Discovering" BY <1>4
  <2>5. c.request.token < nextToken BY <2>2, <2>3, <2>4 DEF TrueInv, ServedInv, FenceInv, Fence
  <2>6. nextToken \in Nat
    BY DEF TrueInv, ServedInv, ServiceInv, SafetyInv, TypeInv, TypeOK
  <2>7. TokenKept BY <2>1, <2>2, <2>5, <2>6 DEF TokenMoves, TokenDropped, TokenIssued, MachineForgotten
  <2>8. Applied(c) BY <2>2, <2>7 DEF Applied, TokenKept
  <2>9. Believed BY <2>3, <2>7, <2>8 DEF TokenKept, Kept, TrueInv, TruthInv, RollbackSeen
  <2> QED BY <1>2, <2>9 DEF Believed, Kept
<1> QED BY <1>1, <1>5, <1>6, <1>7 DEF TruthInv

\* A service that looks again, and one whose machine is gone.
LEMMA SourceEventTrue ==
    ASSUME TrueInv, outputsChanged \/ serviceOwnerChanged \/ restart
    PROVE  TruthInv'
<1>1. ServiceTypeOK /\ SourceTrue /\ SnapTrue BY DEF TrueInv, ServedInv, ServiceInv, TruthInv
<1>2. CASE outputsChanged
  <2>1. inbox \in Seq(Message) /\ inbox # <<>> BY <1>1, <1>2 DEF ServiceTypeOK, outputsChanged
  <2>2. SourceTrue' BY <1>1, <1>2, TailSource DEF outputsChanged, compositor
  <2>3. SnapTrue' BY <1>1, <1>2 DEF outputsChanged, idle, compositor, vars, machine, SnapTrue, Known
  <2>4. NewsComing'
    <3>1. CASE ~inFlight BY <1>2, <3>1 DEF outputsChanged, NewsComing
    <3>2. CASE asked BY <1>2, <3>2 DEF outputsChanged, NewsComing
    <3>3. CASE inFlight /\ ~asked
      <4>1. PICK i \in DOMAIN inbox : inbox[i] # Changed BY <3>3 DEF inFlight
      <4>2. Head(inbox) = inbox[1] /\ Head(inbox) = Changed BY <1>2, <2>1 DEF outputsChanged
      <4>3. i > 1 BY <2>1, <4>1, <4>2
      <4>4. SUFFICES Tail(inbox) # <<>> BY <1>2 DEF outputsChanged, NewsComing
      <4>5. Tail(inbox) \in Seq(Message) /\ Len(Tail(inbox)) = Len(inbox) - 1
        BY <2>1, HeadTailProperties
      <4>6. Len(inbox) > 1 BY <2>1, <4>1, <4>3
      <4>7. Len(Tail(inbox)) # Len(<<>>) BY <2>1, <4>5, <4>6
      <4> QED BY <4>7, Zenon
    <3> QED BY <3>1, <3>2, <3>3
  <2> QED BY <2>2, <2>3, <2>4, BelievedEnough DEF BelievedNext, TruthInv
<1>3. CASE serviceOwnerChanged \/ restart
  <2>1. inbox' = <<>> /\ state' = "Discovering"
    BY <1>3 DEF serviceOwnerChanged, restart, loseMachine, transportLost, processCrash, powerLoss,
                forgetMachine, vars, machine
  <2>2. SourceTrue' BY <2>1 DEF SourceTrue
  <2> QED BY <2>1, <2>2, BelievedEnough DEF BelievedNext, SnapTrue, TruthInv
<1> QED BY <1>2, <1>3

\* The layout changes with a signal, and a reply shows it.
LEMMA NewsTrue ==
    ASSUME TrueInv, UNCHANGED vars, NEW m, inbox' = Append(inbox, m),
           \/ m = Changed /\ generation' = generation + 1
           \/ UNCHANGED <<live, generation>> /\ m = Failed
           \/ UNCHANGED <<live, generation>> /\ m = Reply([rev |-> generation, layout |-> live])
    PROVE  TruthInv'
<1>1. ServiceTypeOK /\ SourceTrue /\ SnapTrue BY DEF TrueInv, ServedInv, ServiceInv, TruthInv
<1>2. SourceTrue' BY <1>1, AppendSource
<1>3. inbox \in Seq(Message) /\ generation \in Nat BY <1>1, BoundsAssumption DEF ServiceTypeOK
<1>4. inbox' # <<>> BY <1>3
<1>5. state' = state /\ snap' = snap BY DEF vars, machine
<1>6. state # "Discovering" => snap.rev \in Nat
  BY DEF TrueInv, ServedInv, ServiceInv, SafetyInv, TypeInv, Shape, Snapshot
<1>7. SnapTrue' BY <1>1, <1>3, <1>5, <1>6 DEF SnapTrue, Known
<1>8. NewsComing' BY <1>4 DEF NewsComing
<1> QED BY <1>2, <1>7, <1>8, BelievedEnough DEF BelievedNext, TruthInv

\* The compositor shows what it was asked, or another layout, or nothing new.
LEMMA LayoutKept ==
    ASSUME TrueInv, UNCHANGED <<vars, live, generation, inbox, asked>>
    PROVE  SourceTrue' /\ SnapTrue' /\ NoStaleTruth' /\ NewsComing' = NewsComing
<1>1. SourceTrue /\ SnapTrue /\ NoStaleTruth BY DEF TrueInv, TruthInv
<1>2. NewsComing' = NewsComing BY DEF NewsComing
<1>3. SourceTrue' BY <1>1 DEF SourceTrue, Known, Changed, Failed
<1>4. SnapTrue' /\ NoStaleTruth' BY <1>1, <1>2 DEF SnapTrue, Known, NoStaleTruth, vars, machine
<1> QED BY <1>2, <1>3, <1>4

\* A rollback to the layout the machine holds, that changes nothing, finds it
\* on the screen.
LEMMA ConfigurationTrue ==
    ASSUME TrueInv, configurationApplied
    PROVE  TruthInv'
<1>1. UNCHANGED <<vars, asked, lineage, callbacks>> BY DEF configurationApplied
<1>2. CASE inbox' = Append(inbox, Changed) /\ generation' = generation + 1
  BY <1>1, <1>2, NewsTrue
<1>3. CASE UNCHANGED <<live, generation, inbox>>
  <2>1. SourceTrue' /\ SnapTrue' /\ NoStaleTruth' /\ NewsComing' = NewsComing
    BY <1>1, <1>3, LayoutKept
  <2>2. SUFFICES ASSUME state = "RevertingApply", snap.layout = journal.preimage,
                        NEW c \in Flight', Applied(c)'
                 PROVE  Believed'
    BY <1>1, <2>1 DEF TruthInv, RollbackSeen, vars, machine
  <2>3. Applied(c) BY <1>1, <2>2 DEF Applied, vars, tokens
  <2>4. CASE c \in Flight
    BY <1>1, <1>3, <2>1, <2>2, <2>3, <2>4
    DEF TrueInv, TruthInv, RollbackSeen, Believed, vars
  <2>5. CASE proxy' # NoRequest /\ c = completion(proxy'.request, proxy'.answer)
    <3>1. proxy \in Proxy /\ proxy # NoRequest
      BY DEF TrueInv, ServedInv, ServiceInv, ServiceTypeOK, configurationApplied
    <3>2. applies(proxy.request) /\ proxy'.request = proxy.request
      BY <2>3, <2>5, <3>1 DEF configurationApplied, Applied, Answered, completion, Proxy
    <3>3. c.request = proxy.request BY <2>5, <3>2 DEF completion
    <3>4. completion(proxy.request, proxy.answer) \in Flight BY <3>1 DEF Flight, FlightOf
    <3>5. Fence(c.request) BY <3>3, <3>4 DEF completion, TrueInv, ServedInv, FenceInv
    <3>6. Answers(c.request) BY <2>2, <2>3, <3>5 DEF Fence, Applied
    <3>7. c.request.wanted = journal.preimage /\ c.request.scope = survivors
      BY <2>2, <3>6 DEF Answers
    <3>8. survivors = {}
      BY <2>2 DEF TrueInv, Inv, ScopeInv, RollbackScope, sameOutputSet
    <3>9. live = journal.preimage
      BY <1>3, <3>2, <3>3, <3>7, <3>8 DEF applies, publish, Result
    <3> QED BY <1>1, <1>3, <2>2, <3>9 DEF Believed, vars
  <2> QED BY <1>1, <2>4, <2>5 DEF Flight, FlightOf
<1> QED BY <1>2, <1>3 DEF configurationApplied, applies, publish

LEMMA CompositorTrue ==
    ASSUME TrueInv, compositorSteps
    PROVE  TruthInv'
<1>1. CASE configurationApplied BY <1>1, ConfigurationTrue
<1>2. CASE lateApplied
  <2>1. UNCHANGED <<vars, asked, port>> BY <1>2 DEF lateApplied
  <2>2. CASE inbox' = Append(inbox, Changed) /\ generation' = generation + 1
    BY <2>1, <2>2, NewsTrue
  <2>3. CASE UNCHANGED <<live, generation, inbox>>
    <3>1. SourceTrue' /\ SnapTrue' /\ NoStaleTruth' /\ NewsComing' = NewsComing
      BY <2>1, <2>3, LayoutKept
    <3>2. RollbackSeen'
      BY <2>1, <2>3, <3>1
      DEF TrueInv, TruthInv, RollbackSeen, Believed, Applied, Flight, FlightOf, port, vars,
          machine, tokens
    <3> QED BY <3>1, <3>2 DEF TruthInv
  <2> QED BY <1>2, <2>2, <2>3 DEF lateApplied, applies, publish
<1>3. CASE externalChange BY <1>3, NewsTrue DEF externalChange
<1>4. CASE answers BY <1>4, NewsTrue DEF answers, compositor
<1> QED BY <1>1, <1>2, <1>3, <1>4 DEF compositorSteps

-----------------------------------------------------------------------------
(* Every step.                                                              *)

LEMMA ServiceTrue ==
    ASSUME TrueInv, ServedInv', CounterLasts, serviceSteps
    PROVE  TruthInv'
<1>1. ServedInv /\ ServiceInv /\ Accepted BY DEF TrueInv, ServedInv, FenceInv
<1>2. SafetyInv' BY DEF ServedInv, ServiceInv
<1>3. CASE readFinished
  <2>1. SourceTrue'
    BY <1>1, <1>3, TailSource
    DEF readFinished, compositor, TrueInv, TruthInv, ServiceInv
  <2> QED BY <1>3, <2>1, ReadBelieved, BelievedEnough DEF TruthInv
<1>4. CASE outputsChanged \/ serviceOwnerChanged \/ restart BY <1>4, SourceEventTrue
<1>5. ASSUME Kept, ~restart, lineage' = lineage, UNCHANGED <<live, generation, inbox, asked>>
      PROVE  TruthInv'
  <2>1. FlightStep BY <1>1, <1>2, <1>5, DispatchFlight
  <2>2. NewLineage BY <1>1, <1>5, DispatchLineage
  <2>3. TokenMoves \/ MachineForgotten
    BY <1>1, ServiceStep, TokenStep DEF ServiceInv, ServiceNext
  <2> QED BY <1>5, <2>1, <2>2, <2>3, EventTrue
<1>6. CASE ~restart /\ (deadline \/ topologySettleTimer \/ requests \/ outputManagementOwnerChanged)
  BY <1>1, <1>5, <1>6, EventKept
  DEF deadline, topologySettleTimer, requests, outputManagementOwnerChanged, serve,
      compositor, source
<1>7. CASE ~restart /\ applyCompletedEvent
  BY <1>1, <1>5, <1>7, CompletionKept DEF applyCompletedEvent, compositor, source
<1>8. CASE ~restart /\ (writerTimeout \/ outputManagementCompleted)
  <2>1. Kept BY <1>8 DEF writerTimeout, outputManagementCompleted, Kept, vars, machine
  <2> QED BY <1>5, <1>8, <2>1 DEF writerTimeout, outputManagementCompleted, compositor, source
<1> QED BY <1>3, <1>4, <1>6, <1>7, <1>8 DEF serviceSteps

LEMMA TrueStep ==
    TrueInv /\ CounterLasts /\ ~OpenDriver /\ [ServiceNext]_serviceVars => TrueInv'
<1> SUFFICES ASSUME TrueInv, CounterLasts, ~OpenDriver, [ServiceNext]_serviceVars
             PROVE  TrueInv'
  OBVIOUS
<1>1. ServedInv' BY ServedStep DEF TrueInv
<1>2. Inv' BY ServiceStep, NextScope DEF TrueInv, ServedInv
<1>3. CASE UNCHANGED serviceVars
  <2>1. SourceTrue' /\ SnapTrue' /\ NoStaleTruth' /\ NewsComing' = NewsComing
    BY <1>3, LayoutKept DEF serviceVars, compositor, source
  <2>2. RollbackSeen'
    BY <1>3, <2>1
    DEF TrueInv, TruthInv, RollbackSeen, Believed, Applied, Flight, FlightOf, serviceVars,
        compositor, port, vars, machine, tokens
  <2> QED BY <1>1, <1>2, <2>1, <2>2 DEF TrueInv, TruthInv
<1> QED BY <1>1, <1>2, <1>3, ServiceTrue, CompositorTrue DEF TrueInv, ServiceNext

LEMMA InitTrue == ServiceInit => TrueInv
<1> SUFFICES ASSUME ServiceInit PROVE TrueInv
  OBVIOUS
<1>1. ServedInv /\ Inv BY InitServed, InitScope DEF ServiceInit
<1>2. state = "Discovering" /\ inbox = <<>> BY DEF ServiceInit, Init
<1> QED BY <1>1, <1>2 DEF TrueInv, TruthInv, SourceTrue, SnapTrue, RollbackSeen, NoStaleTruth

\* No update of the compositor is lost on its way to the machine, however its
\* signals, the replies to reads and the answers to configurations overtake
\* each other: while no machine wraps its token counter, what the service
\* offers, tries or asks to confirm is live, or a read that corrects it comes.
THEOREM NothingStale ==
    ASSUME ~OpenDriver
    PROVE  ServiceSpec /\ []CounterLasts => []NoStaleTruth
<1>1. TrueInv /\ CounterLasts /\ [ServiceNext]_serviceVars => TrueInv' BY TrueStep
<1>2. TrueInv => NoStaleTruth BY DEF TrueInv, TruthInv
<1> QED BY <1>1, <1>2, InitTrue, PTL DEF ServiceSpec

=============================================================================
