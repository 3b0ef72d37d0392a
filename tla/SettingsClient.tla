---------------------------- MODULE SettingsClient ----------------------------
(***************************************************************************)
(* The Settings1 client (settings_client.cpp) on its D-Bus transport       *)
(* (qt_settings_transport.cpp), with the service it talks to               *)
(* (settings_object.cpp, settings_repository.cpp), which dies and is       *)
(* activated again, and other clients of it.                               *)
(*                                                                         *)
(* The client keeps one request in flight: a snapshot or the commit of a   *)
(* write.  The bus delivers in order, both ways.  A request may time out   *)
(* in the client while the service still has it.  The service has one      *)
(* unique owner name, one epoch and a revision that starts again, per      *)
(* process; owner names stand for both.                                    *)
(*                                                                         *)
(* Two controls share the client: the Do Not Disturb switch, whose setting *)
(* is the value modelled here, and the quiet-hours schedule, whose writes  *)
(* only move the revision.                                                 *)
(***************************************************************************)
EXTENDS Naturals, Sequences, FiniteSets

CONSTANTS
    MaxOwner,     \* bound: processes of the service
    MaxRevision,  \* bound: revisions of one process
    MaxToken,     \* bound: requests under way or unanswered at one time
    Faults,       \* bound: the kinds of disturbance that happen in the run
    Write,        \* bound: what is written by this client in the run
    None          \* no request, no write, no snapshot

\* removeUserValue() writes the default.
UserWrite == [by : {"switch"}, value : BOOLEAN] \cup [by : {"schedule"}, value : {FALSE}]

ASSUME BoundsAssumption ==
    /\ MaxOwner \in Nat \ {0} /\ MaxRevision \in Nat /\ MaxToken \in Nat \ {0}
    /\ Faults \subseteq {"die", "other", "revive", "refuse", "activation", "bus", "stop"}
    /\ Write \subseteq UserWrite

Owner == 1 .. MaxOwner
NoOwner == 0
Token == 1 .. MaxToken
Snapshot == [owner : Owner, rev : 0 .. MaxRevision, value : BOOLEAN]
Request == [token : Token, owner : Owner, kind : {"snapshot", "commit"}]

ASSUME NoneAssumption == None \notin Write \cup Snapshot \cup Request

VARIABLES
    started,          \* m_started
    transportStarted, \* m_transportStarted, and the transport's started
    owner,            \* m_owner, and the transport's owner
    request,          \* m_request; its timeout runs while it is there
    write,            \* m_write
    snapshot,         \* m_snapshot
    dirty,            \* m_dirty
    timer,            \* m_refreshTimer.isActive()
    activating,       \* m_activationInFlight
    clientState,      \* m_state
    starting,         \* the transport's activationInFlight
    inbox,            \* bus messages under way to the client
    connected,        \* the session bus is there
    resolving,        \* a GetNameOwner call the bus has not answered
    launching,        \* a StartServiceByName call the bus has not answered
    serving,          \* the owner of the service's name
    births,           \* processes of the service so far
    rev,              \* m_revision of the repository
    value,            \* the switch's setting, in the file and in memory
    calls,            \* calls under way to the service
    fate,             \* history: what the service did with the write in flight
    told,             \* history: the last report on a write
    effects           \* history: writes of this client that changed a setting

client == <<started, transportStarted, owner, request, write, snapshot, dirty, timer,
            activating, clientState>>
busState == <<connected, resolving, launching, starting>>
bus == <<inbox, busState>>
service == <<serving, births, rev, value, calls, effects>>
history == <<fate, told>>
settingsVars == <<client, bus, service, history>>

-----------------------------------------------------------------------------
(* Messages.                                                                *)

OwnerIs(o) == [kind |-> "owner", owner |-> o]
Changed(o, r) == [kind |-> "changed", owner |-> o, rev |-> r]
\* A commit is answered with the revision and the value it leaves.
SnapshotReply(t, s) == [kind |-> "snapshot", token |-> t, snapshot |-> s]
CommitReply(t, status, s) ==
    [kind |-> "commit", token |-> t, status |-> status, snapshot |-> s]
Failure(t, o) == [kind |-> "error", token |-> t, owner |-> o]
Activation(ok) == [kind |-> "activation", ok |-> ok]

GetSnapshot(t) == [kind |-> "snapshot", token |-> t]
CommitUserTransaction(t, base, w) == [kind |-> "commit", token |-> t, base |-> base, write |-> w]

\* The tokens of the code never repeat; here one is free again once nothing
\* that carries it is under way.
carries(m, t) == m.kind \in {"snapshot", "commit", "error"} /\ m.token = t
InUse(t) ==
    \/ request # None /\ request.token = t
    \/ \E i \in DOMAIN calls : carries(calls[i], t)
    \/ \E i \in DOMAIN inbox : carries(inbox[i], t)
Free == {t \in Token : ~InUse(t)}
nextToken == CHOOSE t \in Free : TRUE

-----------------------------------------------------------------------------
(* The client's helpers.                                                    *)

\* requestActivationIfReady() in the state the handler has reached; the
\* transport joins an activation that is already under way.
requestActivation ==
    /\ activating' = TRUE
    /\ starting' = TRUE
    /\ launching' = (launching \/ ~starting)
mayActivate == started /\ transportStarted /\ owner = NoOwner /\ ~activating /\ ~timer
requestActivationIfReady ==
    IF mayActivate THEN requestActivation ELSE UNCHANGED <<activating, starting, launching>>

\* An accepted reply answers the request in flight, from the current owner.
answers(m) ==
    /\ request # None /\ request.kind = m.kind /\ request.token = m.token
    /\ request.owner = owner

\* The write in flight is given up: its outcome is unknown to the client.
M_giveUpWrite == write' = None /\ told' = "refused" /\ fate' = "none"
giveUpWrite ==
    /\ write' = None
    /\ IF write = None THEN UNCHANGED history ELSE told' = "uncertain" /\ fate' = "none"

\* A call to a unique name that is gone is answered by the bus.
send(call) ==
    IF serving = owner THEN calls' = Append(calls, call) /\ UNCHANGED inbox
    ELSE inbox' = Append(inbox, Failure(call.token, owner)) /\ UNCHANGED calls

receive(kind) == inbox # <<>> /\ Head(inbox).kind = kind /\ inbox' = Tail(inbox)

-----------------------------------------------------------------------------
(* Calls of the client's interface.                                         *)

\* startTransport(): fails without a bus; otherwise asks for the owner.
startTransport ==
    IF connected
    THEN /\ transportStarted' = TRUE /\ clientState' = "Authenticating"
         /\ resolving' = TRUE
    ELSE /\ clientState' = "Unavailable" /\ UNCHANGED <<transportStarted, resolving>>

\* start() and refresh() on a transport that is not there.
start ==
    /\ ~transportStarted
    /\ started' = TRUE
    /\ startTransport
    /\ IF connected /\ ~activating /\ ~timer THEN requestActivation
       ELSE UNCHANGED <<activating, starting, launching>>
    /\ UNCHANGED <<owner, request, write, snapshot, dirty, timer, inbox, connected,
                   service, history>>

refresh ==
    /\ started /\ transportStarted
    /\ IF owner = NoOwner THEN requestActivationIfReady /\ UNCHANGED <<dirty, timer>>
       ELSE /\ dirty' = (dirty \/ request # None)
            /\ timer' = (timer \/ request = None)
            /\ UNCHANGED <<activating, starting, launching>>
    /\ UNCHANGED <<started, transportStarted, owner, request, write, snapshot, clientState,
                   inbox, connected, resolving, service, history>>

\* stop(): the transport forgets its owner and every pending reply.
stop ==
    /\ "stop" \in Faults /\ started
    /\ started' = FALSE /\ transportStarted' = FALSE
    /\ owner' = NoOwner /\ request' = None /\ write' = None /\ snapshot' = None
    /\ dirty' = FALSE /\ timer' = FALSE /\ activating' = FALSE
    /\ clientState' = "Unavailable"
    /\ starting' = FALSE /\ resolving' = FALSE /\ launching' = FALSE /\ inbox' = <<>>
    /\ fate' = "none" /\ told' = IF write = None THEN told ELSE "nothing"
    /\ UNCHANGED <<connected, service>>

\* setUserValue() and removeUserValue().
canSetUserValue == clientState = "Ready" /\ snapshot # None /\ request = None /\ write = None

setUserValue(w) ==
    /\ canSetUserValue /\ Free # {}
    /\ write' = w
    /\ request' = [token |-> nextToken, owner |-> owner, kind |-> "commit"]
    /\ send(CommitUserTransaction(nextToken, snapshot.rev, w))
    /\ fate' = "asked"
    /\ UNCHANGED <<started, transportStarted, owner, snapshot, dirty, timer, activating,
                   clientState, busState, serving, births, rev, value, effects, told>>

-----------------------------------------------------------------------------
(* Handlers of the transport's signals.                                     *)

M_handleOwnerChanged ==
    /\ receive("owner")
    /\ LET o == Head(inbox).owner
       IN  IF o = owner
           THEN UNCHANGED <<client, busState, service, history>>
           ELSE /\ owner' = o /\ request' = None
                /\ dirty' = FALSE /\ activating' = FALSE /\ timer' = TRUE
                /\ clientState' = IF o = NoOwner THEN "Unavailable" ELSE "Authenticating"
                /\ UNCHANGED <<started, transportStarted, write, snapshot, busState, service,
                               history>>

\* bindOwner() and handleOwnerChanged(): everything of the former owner is
\* retired; a new one is asked for its baseline.
handleOwnerChanged ==
    /\ receive("owner")
    /\ LET o == Head(inbox).owner
       IN  IF o = owner
           THEN UNCHANGED <<client, busState, service, history>>
           ELSE /\ owner' = o
                /\ request' = None /\ giveUpWrite
                /\ dirty' = FALSE /\ activating' = FALSE /\ timer' = TRUE
                /\ clientState' = IF o = NoOwner THEN "Unavailable" ELSE "Authenticating"
                /\ UNCHANGED <<started, transportStarted, snapshot, busState, service>>

\* handleInvalidation(): a hint that the revision moved.
M_invalidates(m) == snapshot # None /\ m.owner = snapshot.owner /\ m.rev > snapshot.rev + 1
invalidates(m) ==
    /\ m.owner = owner /\ snapshot # None
    /\ m.owner = snapshot.owner /\ m.rev > snapshot.rev

handleInvalidation ==
    /\ receive("changed")
    /\ IF invalidates(Head(inbox))
       THEN /\ dirty' = (dirty \/ request # None)
            /\ timer' = (timer \/ request = None)
       ELSE UNCHANGED <<dirty, timer>>
    /\ UNCHANGED <<started, transportStarted, owner, request, write, snapshot, activating,
                   clientState, busState, service, history>>

\* handleSnapshot(): a reply that regresses within one owner is refused.
regressed(s) ==
    /\ snapshot # None /\ snapshot.owner = s.owner
    /\ s.rev < snapshot.rev \/ (s.rev = snapshot.rev /\ s.value # snapshot.value)

handleSnapshot ==
    /\ receive("snapshot")
    /\ IF ~answers(Head(inbox))
       THEN UNCHANGED <<request, snapshot, clientState, dirty, timer>>
       ELSE /\ request' = None
            /\ LET s == Head(inbox).snapshot
               IN  IF regressed(s)
                   THEN /\ clientState' = "Degraded" /\ timer' = TRUE
                        /\ UNCHANGED <<snapshot, dirty>>
                   ELSE /\ snapshot' = s /\ clientState' = "Ready"
                        /\ dirty' = FALSE /\ timer' = (timer \/ dirty)
    /\ UNCHANGED <<started, transportStarted, owner, write, activating, busState, service,
                   history>>

finishes(m) == answers(m) /\ write # None

\* handleCommit(): the outcome is reported, and authority is read again.
handleCommit ==
    /\ receive("commit")
    /\ IF finishes(Head(inbox))
       THEN /\ request' = None /\ write' = None
            /\ told' = (IF Head(inbox).status = "applied" THEN "applied" ELSE "refused")
            /\ fate' = "none"
            /\ clientState' = "Authenticating" /\ timer' = TRUE
       ELSE UNCHANGED <<request, write, history, clientState, timer>>
    /\ UNCHANGED <<started, transportStarted, owner, snapshot, dirty, activating, busState,
                   service>>

M_fail ==
    /\ request' = None /\ giveUpWrite
    /\ clientState' = "Degraded" /\ timer' = (timer \/ write # None)
    /\ UNCHANGED <<started, transportStarted, owner, snapshot, dirty, activating, busState,
                   service>>

\* What a request that failed or timed out leaves: makeWriteUncertain() for a
\* commit, a retry for a snapshot; both end in a fresh read.
fail ==
    /\ request' = None /\ giveUpWrite
    /\ clientState' = "Degraded" /\ timer' = TRUE
    /\ UNCHANGED <<started, transportStarted, owner, snapshot, dirty, activating, busState,
                   service>>

fails(m) == request # None /\ request.token = m.token /\ request.owner = m.owner

handleFailure ==
    /\ receive("error")
    /\ LET m == Head(inbox)
       IN  IF fails(m)
           THEN fail
           ELSE UNCHANGED <<client, busState, service, history>>

timeout == request # None /\ Free # {} /\ fail /\ UNCHANGED inbox

\* The StartServiceByName reply: the attempt is released, and a completed one
\* asks for the owner again.
handleActivation ==
    /\ receive("activation")
    /\ starting' = FALSE
    /\ resolving' = (resolving \/ Head(inbox).ok)
    /\ IF activating /\ owner = NoOwner
       THEN activating' = FALSE /\ clientState' = "Unavailable" /\ timer' = TRUE
       ELSE UNCHANGED <<activating, clientState, timer>>
    /\ UNCHANGED <<started, transportStarted, owner, request, write, snapshot, dirty,
                   connected, launching, service, history>>

\* handleRefreshTimer()
requestSnapshotNow ==
    /\ owner # NoOwner
    /\ IF request # None THEN UNCHANGED <<request, dirty, inbox, calls>>
       ELSE /\ Free # {} /\ dirty' = FALSE
            /\ request' = [token |-> nextToken, owner |-> owner, kind |-> "snapshot"]
            /\ send(GetSnapshot(nextToken))
    /\ UNCHANGED <<activating, starting, launching>>

handleRefreshTimer ==
    /\ timer /\ timer' = FALSE
    /\ \/ requestSnapshotNow
       \/ /\ owner = NoOwner
          /\ IF started /\ transportStarted /\ ~activating THEN requestActivation
             ELSE UNCHANGED <<activating, starting, launching>>
          /\ UNCHANGED <<request, dirty, inbox, calls>>
    /\ UNCHANGED <<started, transportStarted, owner, write, snapshot, clientState, connected,
                   resolving, serving, births, rev, value, effects, history>>

\* handleBusDisconnected() of transport and client: only a caller starts the
\* transport again.
handleBusDisconnected ==
    /\ "bus" \in Faults /\ connected /\ connected' = FALSE
    /\ inbox' = <<>> /\ resolving' = FALSE /\ launching' = FALSE
    /\ IF transportStarted
       THEN /\ transportStarted' = FALSE /\ starting' = FALSE
            /\ owner' = NoOwner /\ request' = None /\ giveUpWrite
            /\ timer' = FALSE /\ activating' = FALSE /\ clientState' = "Unavailable"
       ELSE UNCHANGED <<transportStarted, starting, owner, request, write, history, timer,
                        activating, clientState>>
    /\ UNCHANGED <<started, snapshot, dirty, service>>

-----------------------------------------------------------------------------
(* The service and the bus.                                                 *)

post(q, m) == IF transportStarted THEN Append(q, m) ELSE q

\* commitUserOverrides(): stale bases conflict, a value that is there already
\* needs no effect, and a failed save changes nothing.
conflicts(c) == c.base # rev
noOp(w) == w.by = "switch" /\ w.value = value
saved(w) == value' = IF w.by = "switch" THEN w.value ELSE value

SettingsNow == [owner |-> serving, rev |-> rev, value |-> value]

mine(c) == request # None /\ request.token = c.token
decide(c, status) == fate' = IF mine(c) THEN status ELSE fate

served == calls # <<>> /\ calls' = Tail(calls)

serveSnapshot ==
    /\ served /\ Head(calls).kind = "snapshot"
    /\ inbox' = post(inbox, SnapshotReply(Head(calls).token, SettingsNow))
    /\ UNCHANGED <<client, busState, serving, births, rev, value, effects, history>>

serveCommit ==
    /\ served /\ Head(calls).kind = "commit"
    /\ UNCHANGED <<client, busState, serving, births, told>>
    /\ LET c == Head(calls)
           answer(q, status) ==
               /\ inbox' = post(q, CommitReply(c.token, status, SettingsNow'))
               /\ decide(c, IF status = "applied" THEN "applied" ELSE "refused")
           unchanged(status) == UNCHANGED <<rev, value, effects>> /\ answer(inbox, status)
       IN  \/ conflicts(c) /\ unchanged("conflict")
           \/ ~conflicts(c) /\ noOp(c.write) /\ unchanged("applied")
           \/ /\ ~conflicts(c) /\ ~noOp(c.write)
              /\ "refuse" \in Faults \/ rev = MaxRevision
              /\ unchanged("refused")
           \/ /\ ~conflicts(c) /\ ~noOp(c.write) /\ rev < MaxRevision
              /\ rev' = rev + 1 /\ saved(c.write) /\ effects' = effects + 1
              /\ answer(post(inbox, Changed(serving, rev + 1)), "applied")

\* Another client of the service commits.
otherCommit ==
    /\ "other" \in Faults /\ serving # NoOwner /\ rev < MaxRevision
    /\ rev' = rev + 1 /\ value' \in BOOLEAN
    /\ inbox' = post(inbox, Changed(serving, rev + 1))
    /\ UNCHANGED <<client, busState, serving, births, calls, effects, history>>

\* Another client has the service activated.
otherActivation ==
    /\ "revive" \in Faults /\ serving = NoOwner /\ births < MaxOwner
    /\ births' = births + 1 /\ serving' = births + 1
    /\ inbox' = post(inbox, OwnerIs(births + 1))
    /\ UNCHANGED <<client, busState, rev, value, calls, effects, history>>

\* The process dies; the commit it was at may be in the file already.  The bus
\* answers its calls with errors, before it tells that the name is free.
die ==
    /\ "die" \in Faults /\ serving # NoOwner
    /\ serving' = NoOwner /\ rev' = 0 /\ calls' = <<>>
    /\ \/ UNCHANGED <<value, effects, fate>>
       \/ /\ calls # <<>> /\ Head(calls).kind = "commit"
          /\ LET c == Head(calls)
             IN  /\ ~conflicts(c) /\ ~noOp(c.write) /\ saved(c.write) /\ decide(c, "applied")
          /\ effects' = effects + 1
    /\ LET errors == [i \in DOMAIN calls |-> Failure(calls[i].token, serving)]
       IN  inbox' = IF transportStarted THEN (inbox \o errors) \o <<OwnerIs(NoOwner)>> ELSE inbox
    /\ UNCHANGED <<client, busState, births, told>>

\* GetNameOwner is answered.
resolveOwner ==
    /\ resolving /\ resolving' = FALSE
    /\ inbox' = Append(inbox, OwnerIs(serving))
    /\ UNCHANGED <<client, connected, launching, starting, service, history>>

\* StartServiceByName is answered, after the name has its owner.
activate ==
    /\ launching /\ launching' = FALSE
    /\ \/ /\ serving # NoOwner
          /\ inbox' = Append(inbox, Activation(TRUE))
          /\ UNCHANGED <<serving, births>>
       \/ /\ serving = NoOwner /\ births < MaxOwner
          /\ births' = births + 1 /\ serving' = births + 1
          /\ inbox' = inbox \o <<OwnerIs(births + 1), Activation(TRUE)>>
       \/ /\ "activation" \in Faults \/ births = MaxOwner
          /\ inbox' = Append(inbox, Activation(FALSE))
          /\ UNCHANGED <<serving, births>>
    /\ UNCHANGED <<client, connected, resolving, starting, rev, value, calls, effects, history>>

reconnect ==
    /\ ~connected /\ connected' = TRUE
    /\ UNCHANGED <<client, inbox, resolving, launching, starting, service, history>>

-----------------------------------------------------------------------------
Init ==
    /\ started = FALSE /\ transportStarted = FALSE /\ owner = NoOwner
    /\ request = None /\ write = None /\ snapshot = None
    /\ dirty = FALSE /\ timer = FALSE /\ activating = FALSE /\ clientState = "Unavailable"
    /\ starting = FALSE /\ inbox = <<>> /\ connected = TRUE
    /\ resolving = FALSE /\ launching = FALSE
    /\ births \in {0, 1} /\ serving = births
    /\ rev = 0 /\ value = FALSE /\ calls = <<>>
    /\ fate = "none" /\ told = "nothing" /\ effects = 0

deliveries ==
    \/ handleOwnerChanged \/ handleInvalidation \/ handleSnapshot \/ handleCommit
    \/ handleFailure \/ handleActivation
answersOfTheBus == serveSnapshot \/ serveCommit \/ resolveOwner \/ activate

Next ==
    \/ start \/ refresh \/ stop \/ (\E w \in Write : setUserValue(w))
    \/ deliveries \/ timeout \/ handleRefreshTimer \/ handleBusDisconnected
    \/ answersOfTheBus \/ otherCommit \/ otherActivation \/ die \/ reconnect

Spec == Init /\ [][Next]_settingsVars

-----------------------------------------------------------------------------
(* Properties.                                                              *)

Message ==
    [kind : {"owner"}, owner : Owner \cup {NoOwner}]
    \cup [kind : {"changed"}, owner : Owner, rev : 0 .. MaxRevision]
    \cup [kind : {"snapshot"}, token : Token, snapshot : Snapshot]
    \cup [kind : {"commit"}, token : Token, snapshot : Snapshot,
          status : {"applied", "conflict", "refused"}]
    \cup [kind : {"error"}, token : Token, owner : Owner]
    \cup [kind : {"activation"}, ok : BOOLEAN]
Call ==
    [kind : {"snapshot"}, token : Token]
    \cup [kind : {"commit"}, token : Token, base : 0 .. MaxRevision, write : Write]

\* Type invariant.
TypeOK ==
    /\ started \in BOOLEAN /\ transportStarted \in BOOLEAN
    /\ owner \in Owner \cup {NoOwner} /\ serving \in Owner \cup {NoOwner}
    /\ births \in 0 .. MaxOwner
    /\ request \in Request \cup {None} /\ write \in Write \cup {None}
    /\ snapshot \in Snapshot \cup {None}
    /\ dirty \in BOOLEAN /\ timer \in BOOLEAN /\ activating \in BOOLEAN
    /\ clientState \in {"Unavailable", "Authenticating", "Ready", "Degraded"}
    /\ starting \in BOOLEAN /\ connected \in BOOLEAN
    /\ resolving \in BOOLEAN /\ launching \in BOOLEAN
    /\ inbox \in Seq(Message) /\ calls \in Seq(Call)
    /\ rev \in 0 .. MaxRevision /\ value \in BOOLEAN /\ effects \in Nat
    /\ fate \in {"none", "asked", "applied", "refused"}
    /\ told \in {"nothing", "applied", "refused", "uncertain"}

\* What the writer is promised (SettingsWrite): one effect at most for a write,
\* and a final, true report of it, whatever is lost, late or dies.
Strays == {t \in Token : \E i \in DOMAIN calls :
              calls[i].kind = "commit" /\ calls[i].token = t /\ ~mine(calls[i])}
Promise == INSTANCE SettingsWrite WITH
    write <- IF write = None THEN "none" ELSE fate,
    strays <- Cardinality(Strays)
KeepsPromise == Promise!Spec

\* A client that is Ready and idle shows the service's settings as they are now,
\* or something that will have it read them again is on its way: handleInvalidation
\* and handleRefreshTimer drop hints while a request is in flight.
NoLostInvalidation ==
    clientState = "Ready" /\ request = None /\ ~timer =>
        \/ snapshot = SettingsNow
        \/ \E i \in DOMAIN inbox :
              \/ inbox[i].kind = "changed" /\ inbox[i].owner = owner /\ inbox[i].rev = rev
              \/ inbox[i].kind = "owner" /\ inbox[i].owner # owner

\* The bus delivers and answers, the service works off its calls, timers fire.
FairSpec ==
    /\ Spec
    /\ WF_settingsVars(deliveries) /\ WF_settingsVars(handleRefreshTimer)
    /\ WF_settingsVars(serveSnapshot \/ serveCommit)
    /\ WF_settingsVars(resolveOwner) /\ WF_settingsVars(activate)

\* Every write ends, whatever happens to the service, the bus or the reply.
WriteEnds == (write # None) ~> (write = None)

\* Once the bus and the service stay and requests no longer time out, the client
\* is Ready with the service's settings again and again.
Converges ==
    <>[](connected /\ transportStarted /\ serving # NoOwner) /\ <>[][~timeout]_settingsVars
        => []<>(clientState = "Ready" /\ snapshot = SettingsNow)
=============================================================================
