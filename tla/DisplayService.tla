--------------------------- MODULE DisplayService ---------------------------
(***************************************************************************)
(* The resident Display1 service around the transaction machine: the       *)
(* inventory source that reads the compositor's outputs over D-Bus, the    *)
(* model that routes each read to the machine under a fresh lineage, and   *)
(* the writer port that submits one configuration over Wayland and queues  *)
(* its completion.                                                         *)
(*                                                                         *)
(* The service is one event loop: each action of the service is one        *)
(* dispatched event.  The compositor is external and talks over two        *)
(* channels that are ordered by themselves but not against each other:     *)
(* D-Bus (inbox: change signals and read replies) and Wayland (proxy: the  *)
(* answer to the submitted configuration).  The callbacks a port queues    *)
(* for a later turn of the loop are the third channel.                     *)
(***************************************************************************)
EXTENDS DisplayTransaction, Sequences

CONSTANTS
    MaxLineage,      \* bound: machines born in one process
    MaxQueued,       \* bound: queued callbacks an elapsing deadline overtakes
    LastTrial,       \* bound: no trial begins once the next token passes this
    Faults,          \* bound: the kinds of disturbance that happen in the run
    ReliableJournal, \* TRUE: every journal mutation is durable
    NoRequest        \* no apply request

ASSUME ServiceBounds ==
    /\ MaxLineage \in Nat \ {0} /\ MaxQueued \in Nat /\ LastTrial \in Nat
    /\ Faults \subseteq {"external", "read", "owner", "device", "restart", "lock", "metadata"}
    /\ ReliableJournal \in BOOLEAN

Request == [lineage : 0 .. MaxLineage, token : 0 .. MaxToken, forward : BOOLEAN,
            wanted : Layouts, scope : SUBSET Output]

ASSUME NoRequestAssumption ==
    NoRequest \notin Request \cup [request : Request, answer : {"none", "Applied", "Rejected"}]

VARIABLES
    live,       \* the compositor's layout
    generation, \* its output generation
    late,       \* configurations nobody waits for and the compositor may still apply
    inbox,      \* D-Bus messages under way to the inventory source
    asked,      \* an Outputs call the compositor has not answered
    dirty,      \* m_dirty
    lineage,    \* m_machineLineage of the model and of the port
    writing,    \* the port's m_pending
    proxy,      \* the Wayland port's m_pending and the compositor's answer to it
    callbacks   \* queued calls of applyCompleted()

compositor == <<live, generation, late>>
source == <<inbox, asked, dirty>>
port == <<lineage, writing, proxy, callbacks>>
serviceVars == <<vars, compositor, source, port>>

-----------------------------------------------------------------------------
(* The writer port.                                                         *)

completion(r, outcome) == [request |-> r, outcome |-> outcome]

\* finishPending(): the completion is queued behind those already there.
finished(w, q, outcome) == IF w = NoRequest THEN q ELSE Append(q, completion(w, outcome))

\* requestApply(): one configuration at a time.  A port whose last
\* configuration is still with the compositor answers Busy, one without
\* device authority is unavailable, one that cannot map the request refuses.
requestApply(r, w, q) ==
    \/ /\ w = NoRequest /\ proxy = NoRequest
       /\ writing' = r /\ proxy' = [request |-> r, answer |-> "none"]
       /\ callbacks' = q
    \/ /\ w = NoRequest
       /\ \E outcome \in {"Rejected", "TransportUncertain"} :
             callbacks' = Append(q, completion(r, outcome))
       /\ writing' = NoRequest /\ UNCHANGED proxy
    \/ /\ w # NoRequest
       /\ callbacks' = Append(q, completion(r, "Rejected"))
       /\ writing' = w /\ UNCHANGED proxy

\* What the machine asks of the port in the step it has just taken.
issues == token' \notin {0, token}
issued(lin) ==
    [lineage |-> lin, token |-> token', forward |-> state' = "Applying",
     wanted |-> IF state' = "Applying" THEN journal'.target ELSE journal'.preimage,
     scope |-> IF state' = "Applying" THEN {} ELSE survivors']

\* Bound: in a run without storage faults every mutation is durable.
storage == ReliableJournal => disk' = Durable(disk'.visible)

\* The port's share of a step of the current machine.
serve ==
    /\ storage
    /\ IF issues THEN requestApply(issued(lineage), writing, callbacks)
       ELSE UNCHANGED <<writing, proxy, callbacks>>
    /\ UNCHANGED lineage

-----------------------------------------------------------------------------
(* The model: which machine entry an inventory frame reaches.               *)

idle == UNCHANGED <<vars, port>>

\* establishLineage(): the port learns the lineage before the machine starts.
M_establishLineage(s) ==
    /\ state = "Discovering"
    /\ lineage < MaxLineage /\ lineage' = lineage + 1
    /\ initialize(s) \/ recover(s)
    /\ storage
    /\ LET q == finished(writing, callbacks, "TransportUncertain")
       IN  IF issues THEN requestApply(issued(lineage), NoRequest, q)
           ELSE /\ callbacks' = q /\ writing' = NoRequest /\ UNCHANGED proxy
establishLineage(s) ==
    /\ state = "Discovering"
    /\ lineage < MaxLineage /\ lineage' = lineage + 1
    /\ initialize(s) \/ recover(s)
    /\ storage
    /\ LET q == finished(writing, callbacks, "TransportUncertain")
       IN  IF issues THEN requestApply(issued(lineage + 1), NoRequest, q)
           ELSE /\ callbacks' = q /\ writing' = NoRequest /\ UNCHANGED proxy

\* routeObservation(): a same-set frame in RevertBackoff is refused.
M_routeObservation(s) ==
    \/ state = "Ready" /\ observedReady(s)
    \/ state # "Ready" /\ ~sameOutputSet(s.layout, snap.layout) /\ topologyChanged(s)
    \/ state # "Ready" /\ sameOutputSet(s.layout, snap.layout) /\ observedSnapshot(s)
    \/ /\ state \in {"Staged", "RevertBackoff"} /\ sameOutputSet(s.layout, snap.layout)
       /\ UNCHANGED vars
M2_routeObservation(s) ==
    \/ state \in {"Ready", "Stuck"} /\ observedSnapshot(s)
    \/ state \notin {"Ready", "Stuck"} /\ externalIntentObserved(s)
routeObservation(s) ==
    \/ state = "Ready" /\ observedReady(s)
    \/ state # "Ready" /\ ~sameOutputSet(s.layout, snap.layout) /\ topologyChanged(s)
    \/ state = "Staged" /\ sameOutputSet(s.layout, snap.layout) /\ externalIntentObserved(s)
    \/ /\ state \notin {"Ready", "Staged"} /\ sameOutputSet(s.layout, snap.layout)
       /\ observedSnapshot(s) \/ (state = "RevertBackoff" /\ UNCHANGED vars)

\* An equal generation redelivers the snapshot the machine holds; a newer one
\* whose outputs did not change is refused, one with the same layout but other
\* metadata is routed.
observeFrame(s) ==
    \/ establishLineage(s)
    \/ /\ state # "Discovering"
       /\ \/ s.rev < snap.rev /\ UNCHANGED vars
          \/ /\ s.rev = snap.rev
             /\ IF state \in {"Ready", "Staged", "RevertBackoff"} THEN UNCHANGED vars
                ELSE observedSnapshot(snap)
          \/ s.rev > snap.rev /\ s.layout = snap.layout /\ UNCHANGED vars
          \/ s.rev > snap.rev /\ routeObservation(s)
       /\ serve

loseMachine ==
    /\ IF state = "Discovering" THEN UNCHANGED vars ELSE transportLost
    /\ UNCHANGED port

-----------------------------------------------------------------------------
(* The inventory source: one read at a time, and one more for the signals   *)
(* that arrived during it.                                                  *)

Changed == [kind |-> "changed"]
Failed == [kind |-> "failed"]
Reply(s) == [kind |-> "reply", snapshot |-> s]

inFlight == asked \/ \E i \in DOMAIN inbox : inbox[i] # Changed

outputsChanged ==
    /\ inbox # <<>> /\ Head(inbox) = Changed
    /\ inbox' = Tail(inbox)
    /\ asked' = (asked \/ ~inFlight) /\ dirty' = inFlight
    /\ idle /\ UNCHANGED compositor

readFinished ==
    /\ inbox # <<>> /\ Head(inbox) # Changed
    /\ IF Head(inbox) = Failed THEN loseMachine ELSE observeFrame(Head(inbox).snapshot)
    /\ inbox' = Tail(inbox)
    /\ asked' = dirty /\ dirty' = FALSE
    /\ UNCHANGED compositor

\* The compositor's bus name changes hands: the reply of an earlier call is
\* fenced off, the machine is withdrawn and a first read goes out.
serviceOwnerChanged ==
    /\ "owner" \in Faults /\ lineage < MaxLineage
    /\ loseMachine
    /\ inbox' = <<>> /\ asked' = TRUE /\ dirty' = FALSE
    /\ UNCHANGED compositor

-----------------------------------------------------------------------------
(* Events of the port and of the service's timers and callers.              *)

\* applyCompleted() of the model: the outer fence.
M_fenced(c) == TRUE
fenced(c) == c.request.lineage = lineage

taken(c) ==
    /\ state # "Discovering" /\ fenced(c)
    /\ token # 0 /\ c.request.token = token

applyCompletedEvent ==
    /\ callbacks # <<>>
    /\ LET c == Head(callbacks)
       IN  \/ /\ taken(c)
              /\ applyCompleted(c.request.token, c.outcome) /\ storage
              /\ IF issues
                 THEN requestApply(issued(lineage), writing, Tail(callbacks))
                 ELSE callbacks' = Tail(callbacks) /\ UNCHANGED <<writing, proxy>>
              /\ UNCHANGED lineage
           \/ /\ ~taken(c) /\ UNCHANGED vars
              /\ callbacks' = Tail(callbacks) /\ UNCHANGED <<lineage, writing, proxy>>
    /\ UNCHANGED <<compositor, source>>

\* The port's own timer: it stops waiting, the configuration stays with the
\* compositor and keeps the Wayland port busy.
writerTimeout ==
    /\ writing # NoRequest
    /\ callbacks' = finished(writing, callbacks, "TransportUncertain")
    /\ writing' = NoRequest
    /\ UNCHANGED <<vars, compositor, source, lineage, proxy>>

\* The compositor's answer reaches the port.
outputManagementCompleted ==
    /\ proxy # NoRequest /\ proxy.answer # "none"
    /\ proxy' = NoRequest
    /\ callbacks' = finished(writing, callbacks, proxy.answer)
    /\ writing' = NoRequest
    /\ UNCHANGED <<vars, compositor, source, lineage>>

abandoned == IF proxy # NoRequest /\ proxy.answer = "none"
             THEN late \cup {[proxy.request EXCEPT !.lineage = 0, !.token = 0]} ELSE late

\* A hotplug replaces the compositor's device objects: what was submitted on
\* the old ones is abandoned, and with the writer's authority the session is no
\* longer safe.  A rollback this begins finds no writer.
outputManagementOwnerChanged ==
    /\ "device" \in Faults
    /\ safetyChanged(FALSE) /\ storage
    /\ late' = abandoned
    /\ LET q == finished(writing, callbacks, "TransportUncertain")
       IN  callbacks' = IF issues
                        THEN Append(q, completion(issued(lineage), "TransportUncertain"))
                        ELSE q
    /\ writing' = NoRequest /\ proxy' = NoRequest
    /\ UNCHANGED <<live, generation, source, lineage>>

deadline ==
    /\ Len(callbacks) <= MaxQueued
    /\ tick /\ serve
    /\ UNCHANGED <<compositor, source>>
topologySettleTimer == topologySettled(snap) /\ serve /\ UNCHANGED <<compositor, source>>

clientCalls ==
    \/ nextToken <= LastTrial /\ \E t \in Layouts : stage(t)
    \/ preview \/ confirm \/ cancel

requests ==
    /\ \/ clientCalls
       \/ \E value \in BOOLEAN : (value \/ "lock" \in Faults) /\ safetyChanged(value)
    /\ serve
    /\ UNCHANGED <<compositor, source>>

\* A new process: it starts with an empty loop and a first read.
restart ==
    /\ "restart" \in Faults
    /\ processCrash \/ powerLoss
    /\ lineage' = 0 /\ writing' = NoRequest /\ proxy' = NoRequest
    /\ callbacks' = <<>> /\ late' = abandoned
    /\ inbox' = <<>> /\ asked' = TRUE /\ dirty' = FALSE
    /\ UNCHANGED <<live, generation>>

-----------------------------------------------------------------------------
(* The compositor.                                                          *)

\* What a configuration makes of layout l, if it applies at all.
Possible(r, l) == IF r.scope = {} THEN sameOutputSet(r.wanted, l) ELSE r.scope \subseteq DOMAIN l
Result(r, l) ==
    IF r.scope = {} THEN r.wanted
    ELSE [o \in DOMAIN l |-> IF o \in r.scope THEN [l[o] EXCEPT !.mode = r.wanted[o].mode] ELSE l[o]]

publish(l) ==
    IF l = live THEN UNCHANGED <<live, generation, inbox>>
    ELSE /\ generation < MaxRevision /\ generation' = generation + 1
         /\ live' = l
         /\ inbox' = Append(inbox, Changed)

applies(r) ==
    /\ Possible(r, live) /\ Result(r, live) \in Layouts
    /\ publish(Result(r, live))

\* Configurations are handled in the order they were submitted.
configurationApplied ==
    /\ proxy # NoRequest /\ proxy.answer = "none" /\ late = {}
    /\ \/ applies(proxy.request) /\ proxy' = [proxy EXCEPT !.answer = "Applied"]
       \/ UNCHANGED <<live, generation, inbox>> /\ proxy' = [proxy EXCEPT !.answer = "Rejected"]
    /\ UNCHANGED <<vars, late, asked, dirty, lineage, writing, callbacks>>

lateApplied ==
    /\ \E r \in late :
          /\ late' = late \ {r}
          /\ applies(r) \/ UNCHANGED <<live, generation, inbox>>
    /\ UNCHANGED <<vars, asked, dirty, port>>

\* Another client, a hotplug, or a change of the metadata alone.
externalChange ==
    /\ generation < MaxRevision /\ generation' = generation + 1
    /\ \/ "external" \in Faults /\ \E l \in Layouts \ {live} : live' = l
       \/ "metadata" \in Faults /\ UNCHANGED live
    /\ inbox' = Append(inbox, Changed)
    /\ UNCHANGED <<vars, late, asked, dirty, port>>

answers ==
    /\ asked /\ asked' = FALSE
    /\ \E reply \in {Reply([rev |-> generation, layout |-> live])}
                    \cup (IF "read" \in Faults /\ lineage < MaxLineage THEN {Failed} ELSE {}) :
          inbox' = Append(inbox, reply)
    /\ UNCHANGED <<vars, compositor, dirty, port>>

-----------------------------------------------------------------------------
ServiceInit ==
    /\ Init
    /\ live \in Layouts /\ generation = 0 /\ late = {}
    /\ inbox = <<>> /\ asked = TRUE /\ dirty = FALSE
    /\ lineage = 0 /\ writing = NoRequest /\ proxy = NoRequest
    /\ callbacks = <<>>

serviceSteps ==
    \/ outputsChanged \/ readFinished \/ serviceOwnerChanged
    \/ applyCompletedEvent \/ writerTimeout \/ outputManagementCompleted
    \/ outputManagementOwnerChanged
    \/ deadline \/ topologySettleTimer \/ requests \/ restart

compositorSteps == configurationApplied \/ lateApplied \/ externalChange \/ answers

ServiceNext == serviceSteps \/ compositorSteps

ServiceSpec == ServiceInit /\ [][ServiceNext]_serviceVars

-----------------------------------------------------------------------------
(* Properties.                                                              *)

Issued == {r \in Request : r.lineage # 0 /\ r.token # 0}
Proxy == [request : Issued, answer : {"none", "Applied", "Rejected"}] \cup {NoRequest}
Message == {Reply(s) : s \in Snapshot} \cup {Changed, Failed}

\* Every variable of the service has its type; a request the port accepted or
\* answered carries the lineage of a machine and a token that machine issued.
ServiceTypeOK ==
    /\ live \in Layouts /\ generation \in 0 .. MaxRevision
    /\ late \subseteq Request
    /\ inbox \in Seq(Message) /\ asked \in BOOLEAN /\ dirty \in BOOLEAN
    /\ lineage \in 0 .. MaxLineage
    /\ writing \in Issued \cup {NoRequest} /\ proxy \in Proxy
    /\ callbacks \in Seq([request : Issued, outcome : ApplyOutcome])

\* A completion moves the machine only if it answers the request the machine
\* is waiting on: not one of an earlier machine, an earlier attempt, or a
\* forward request taken for a rollback.  Tokens restart with every machine.
CompletionFence ==
    callbacks # <<>> /\ taken(Head(callbacks)) =>
        LET r == Head(callbacks).request
        IN  /\ r.forward <=> state = "Applying"
            /\ r.wanted = IF r.forward THEN journal.target ELSE journal.preimage

\* Some message still to be handled will end in a fresh read.
NewsComing == asked \/ inbox # <<>>

\* No update is lost between the compositor and the machine: a layout the
\* service offers drafts on, tries or asks to confirm is the live one, or a
\* read that will correct it is under way.
NoStaleTruth ==
    state \in {"Ready", "Staged", "Applying", "Observing", "ResolvingUncertain",
               "AwaitingConfirmation", "SettlingTopology"}
    => snap.layout = live \/ NewsComing

\* A forward request reaches the screen only while the journal that undoes it
\* is there: the apply deadline never commits the candidate.
TimeoutNeverCommits ==
    [][configurationApplied /\ proxy.request.forward /\ live' # live
       => disk.visible # NoJournal]_serviceVars

\* A transaction nobody confirmed ends with its candidate off the screen,
\* where no client but the service changes the layout.  Of a first trial: a second
\* one may take what is unread of the first one's rollback for news of its own.
EndsConfirmedOrUndone ==
    [][journalActive /\ state' = "Ready" /\ state # "AwaitingConfirmation"
       => live # journal.target]_serviceVars

\* A transaction that began ends: its journal is cleared, or the service says
\* it is stuck, whatever the compositor and the writer do or fail to do.
Resolves ==
    [](journalActive => <>(~journalActive \/ state = "Stuck"))

\* A journal a process left on disk is acted on: once processes stop dying, and
\* the compositor keeps its name, it is cleared, or the service says it is
\* stuck, whichever step the last process died at.
JournalResolves ==
    <>[][~restart /\ ~serviceOwnerChanged]_serviceVars =>
        [](disk.visible # NoJournal => <>(disk.visible = NoJournal \/ state = "Stuck"))

\* Qt timers that are armed fire.
FairService ==
    /\ ServiceSpec
    /\ WF_serviceVars(deadline) /\ WF_serviceVars(topologySettleTimer)

\* Besides, the compositor answers reads, messages are delivered, and the loop
\* gets to the calls queued in it.
FairRecovery ==
    /\ FairService
    /\ WF_serviceVars(applyCompletedEvent)
    /\ WF_serviceVars(readFinished) /\ WF_serviceVars(outputsChanged)
    /\ WF_serviceVars(answers)
=============================================================================
