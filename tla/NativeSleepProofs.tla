------------------------- MODULE NativeSleepProofs -------------------------
(***************************************************************************)
(* The safety of the supervisor's sleep, for any number of requests, any   *)
(* queue of logind's messages and every disturbance.  A handler is a       *)
(* composition of functions that call each other, so the argument is about *)
(* those functions: each keeps a record Sound, and what it may change of   *)
(* the rest is Follows, which composes.                                    *)
(***************************************************************************)
EXTENDS NativeSleep, SequenceTheorems, TLAPS

\* Between the end of an action in flight and the report on it.
Told(r) ==
    /\ r \in Supervisor
    /\ r.manual => r.id \in Requests
    /\ r.asking => r.manual
    /\ \A i \in Requests : i > r.id \/ (i = r.id /\ r.manual) => r.result[i] = "none"
    /\ \A i \in r.sent : i <= r.id
    /\ \A i \in Requests : /\ r.result[i] = "Refused" => i \notin r.sent
                           /\ r.result[i] = "Confirmed" => i \in r.sent
    /\ \A c \in r.calls : c.method = "Sleep" => c.id \in r.sent

\* A request that was sent and is not reported on is the one in flight.
Sound(r) == Told(r) /\ (r.manual /\ r.id \in r.sent => r.asking /\ r.dispatched)

\* Sleep1 offers what canSuspend() says of the record, or of what was published
\* of it last; the published state is that of the record.
Offered(r) == r.offered <=> canSuspend(r)
Announced(r) ==
    r.offered <=> /\ ~r.manual /\ ~r.published.preparing /\ r.published.delay
                  /\ r.view \in {"Unlocked", "Locked"}
Offering(r) == Offered(r) \/ Announced(r)
Fresh(r) == r.published = Snapshot(r)

\* What a function may make of a record: it gives the delay back behind the lock
\* only, and forgets the lock at most.
Follows(r, q) ==
    /\ q.ready = r.ready /\ q.admitted = r.admitted /\ q.preparing = r.preparing
    /\ q.id = r.id /\ q.sent = r.sent
    /\ q.view \in {r.view, "Unknown"}
    /\ q.delay => r.delay
    /\ r.delay /\ ~q.delay => r.view = "Locked"
    /\ Offering(r) => Offering(q)
    /\ Fresh(r) => Fresh(q)

\* Logind's messages: a reply to an action answers one that was sent.
Messages == [kind : {"sleep", "resume", "granted", "denied", "yes", "no", "unhinted",
                     "able", "unable", "done", "failed"}, id : 0 .. MaxRequests]
Replies(q, sent) == \A i \in DOMAIN q : q[i].kind = "done" => q[i].id \in sent

\* The monitor is told of every change of the lock.
ViewFollows == s.view = "Locked" => BehindLock

-----------------------------------------------------------------------------
(* The functions, from the inside out.                                      *)

LEMMA FollowsItself == ASSUME NEW r \in Supervisor PROVE Follows(r, r)
BY DEF Follows

LEMMA FollowsOn ==
    ASSUME NEW r \in Supervisor, NEW q \in Supervisor, NEW t \in Supervisor,
           Follows(r, q), Follows(q, t)
    PROVE  Follows(r, t)
BY DEF Follows

\* canSuspend(), in the terms of what a step may change.
LEMMA OfferDepends ==
    ASSUME NEW r \in Supervisor, NEW q \in Supervisor,
           q.ready = r.ready, q.admitted = r.admitted, q.preparing = r.preparing,
           q.delay = r.delay
    PROVE  /\ Snapshot(q) = Snapshot(r)
           /\ q.manual = r.manual /\ q.view = r.view => canSuspend(q) = canSuspend(r)
BY DEF Snapshot, canSuspend, available, preparingForSleep, hasDelayInhibitor

LEMMA NotifyAvailability ==
    ASSUME NEW r \in Supervisor
    PROVE  /\ notifyAvailability[r] = [r EXCEPT !.offered = canSuspend(r)]
           /\ notifyAvailability[r] \in Supervisor
           /\ Offered(notifyAvailability[r])
           /\ Follows(r, notifyAvailability[r])
           /\ Told(r) => Told(notifyAvailability[r])
           /\ Sound(r) => Sound(notifyAvailability[r])
<1> DEFINE q == [r EXCEPT !.offered = canSuspend(r)]
<1>1. notifyAvailability[r] = q BY DEF notifyAvailability
<1>2. canSuspend(r) \in BOOLEAN BY DEF canSuspend
<1>3. q \in Supervisor BY <1>2 DEF Supervisor
<1>4. /\ q.offered = canSuspend(r) /\ q.published = r.published /\ q.calls = r.calls
      /\ q.manual = r.manual /\ q.asking = r.asking /\ q.dispatched = r.dispatched
      /\ q.ready = r.ready /\ q.admitted = r.admitted /\ q.preparing = r.preparing
      /\ q.delay = r.delay /\ q.view = r.view /\ q.id = r.id /\ q.sent = r.sent
      /\ q.result = r.result
  BY <1>2 DEF Supervisor
<1>5. Offered(q) BY <1>3, <1>4, OfferDepends DEF Offered
<1>6. Follows(r, q) BY <1>3, <1>4, <1>5, OfferDepends DEF Follows, Offering, Fresh
<1>7. (Told(r) => Told(q)) /\ (Sound(r) => Sound(q)) BY <1>3, <1>4 DEF Told, Sound
<1> QED BY <1>1, <1>3, <1>5, <1>6, <1>7

\* A request is reported on once, when nothing of it is in flight any more.
LEMMA FinishManual ==
    ASSUME NEW r, Told(r), ~r.asking, NEW v \in {"Confirmed", "Refused", "Uncertain"},
           r.manual /\ v = "Refused" => r.id \notin r.sent,
           r.manual /\ v = "Confirmed" => r.id \in r.sent
    PROVE  /\ Sound(finishManual(r, v))
           /\ Follows(r, finishManual(r, v))
           /\ r.manual => Offered(finishManual(r, v))
           /\ ~finishManual(r, v).manual /\ ~finishManual(r, v).asking
           /\ finishManual(r, v).view = r.view
           /\ finishManual(r, v).delay = r.delay
<1> r \in Supervisor BY DEF Told
<1>1. CASE ~r.manual BY <1>1, FollowsItself DEF finishManual, Sound
<1>2. CASE r.manual
  <2> DEFINE q == [r EXCEPT !.manual = FALSE, !.result[r.id] = v]
  <2>1. q \in Supervisor BY DEF Supervisor
  <2>2. /\ q.published = r.published /\ q.calls = r.calls
        /\ ~q.manual /\ ~q.asking /\ q.dispatched = r.dispatched /\ q.offered = r.offered
        /\ q.ready = r.ready /\ q.admitted = r.admitted /\ q.preparing = r.preparing
        /\ q.delay = r.delay /\ q.view = r.view /\ q.id = r.id /\ q.sent = r.sent
        /\ q.result = [r.result EXCEPT ![r.id] = v]
    BY DEF Supervisor
  <2>3. r.id \in Requests /\ r.result \in [Requests -> {"none", "Confirmed", "Refused", "Uncertain"}]
    BY <1>2 DEF Told, Supervisor
  <2>4. \A i \in Requests : q.result[i] = IF i = r.id THEN v ELSE r.result[i] BY <2>2, <2>3
  <2>5. Told(q) BY <1>2, <2>1, <2>2, <2>3, <2>4, SleepBounds DEF Told, Requests
  <2>6. Sound(q) BY <2>2, <2>5 DEF Sound
  <2>7. finishManual(r, v) = notifyAvailability[q] BY <1>2 DEF finishManual
  <2>8. Fresh(r) => Fresh(q) BY <2>1, <2>2, OfferDepends DEF Fresh
  <2>9. LET t == notifyAvailability[q]
        IN  /\ Sound(t) /\ Offered(t) /\ Follows(q, t) /\ t = [q EXCEPT !.offered = canSuspend(q)]
    BY <2>1, <2>6, NotifyAvailability
  <2> HIDE DEF q
  <2>10. LET t == notifyAvailability[q]
         IN  ~t.manual /\ ~t.asking /\ t.view = r.view /\ t.delay = r.delay
    BY <2>1, <2>2, <2>9 DEF Supervisor
  <2>11. Follows(r, notifyAvailability[q])
    BY <2>2, <2>8, <2>9, <2>10 DEF Follows, Offering
  <2> QED BY <2>7, <2>9, <2>10, <2>11
<1> QED BY <1>1, <1>2

\* A function that leaves the lock and the delay as they are.
Steady(r, q) == Sound(q) /\ Follows(r, q) /\ q.view = r.view /\ q.delay = r.delay

LEMMA SteadyOn ==
    ASSUME NEW r, Sound(r), NEW q, Steady(r, q), NEW t, Steady(q, t)
    PROVE  Steady(r, t)
<1>1. r \in Supervisor /\ q \in Supervisor /\ t \in Supervisor BY DEF Steady, Sound, Told
<1> QED BY <1>1, FollowsOn DEF Steady

LEMMA Untouched == ASSUME NEW r, Sound(r) PROVE Steady(r, r)
BY FollowsItself DEF Steady, Sound, Told

\* Fields no property speaks of.
SameBut(r, q) ==
    /\ q.manual = r.manual /\ q.asking = r.asking /\ q.dispatched = r.dispatched
    /\ q.offered = r.offered /\ q.published = r.published
    /\ q.ready = r.ready /\ q.admitted = r.admitted /\ q.preparing = r.preparing
    /\ q.delay = r.delay /\ q.view = r.view
    /\ q.id = r.id /\ q.sent = r.sent /\ q.result = r.result
    /\ \A c \in q.calls : c.method = "Sleep" => c \in r.calls

LEMMA Irrelevant ==
    ASSUME NEW r, Sound(r), NEW q \in Supervisor, SameBut(r, q)
    PROVE  Steady(r, q)
<1> r \in Supervisor BY DEF Sound, Told
<1>1. Sound(q) BY DEF Sound, Told, SameBut
<1>2. Offered(r) <=> Offered(q) BY OfferDepends DEF Offered, SameBut
<1>3. (Announced(r) <=> Announced(q)) /\ (Fresh(r) <=> Fresh(q))
  BY OfferDepends DEF Announced, Fresh, SameBut
<1>4. Follows(r, q) BY <1>2, <1>3 DEF Follows, Offering, SameBut
<1> QED BY <1>1, <1>4 DEF Steady, SameBut

LEMMA CancelSleep ==
    ASSUME NEW r, Sound(r)
    PROVE  /\ Steady(r, cancelSleep[r]) /\ ~cancelSleep[r].asking
           /\ cancelSleep[r].manual => cancelSleep[r] = r /\ ~r.asking
<1> r \in Supervisor BY DEF Sound, Told
<1>1. CASE ~r.asking BY <1>1, Untouched DEF cancelSleep
<1>2. CASE r.asking
  <2> DEFINE q == [r EXCEPT !.asking = FALSE, !.dispatched = FALSE]
  <2>1. q \in Supervisor BY DEF Supervisor
  <2>2. /\ q.manual = r.manual /\ ~q.asking
        /\ q.offered = r.offered /\ q.published = r.published
        /\ q.ready = r.ready /\ q.admitted = r.admitted /\ q.preparing = r.preparing
        /\ q.delay = r.delay /\ q.view = r.view
        /\ q.id = r.id /\ q.sent = r.sent /\ q.result = r.result /\ q.calls = r.calls
    BY DEF Supervisor
  <2>3. Told(q) BY <2>1, <2>2 DEF Sound, Told
  <2>4. outcome(r) \in {"Refused", "Uncertain"} /\ (outcome(r) = "Refused" => ~r.dispatched)
    BY <1>2 DEF outcome
  <2>5. outcome(r) = "Refused" => q.id \notin q.sent BY <1>2, <2>2, <2>4 DEF Sound, Told
  <2>6. cancelSleep[r] = finishManual(q, outcome(r)) BY <1>2 DEF cancelSleep
  <2> HIDE DEF q
  <2>7. LET t == finishManual(q, outcome(r))
        IN  /\ Sound(t) /\ Follows(q, t) /\ ~t.asking /\ ~t.manual
            /\ t.view = q.view /\ t.delay = q.delay
    BY <2>2, <2>3, <2>4, <2>5, FinishManual
  <2>8. (Offering(r) <=> Offering(q)) /\ (Fresh(r) <=> Fresh(q))
    BY <2>1, <2>2, OfferDepends DEF Offering, Offered, Announced, Fresh
  <2>9. Follows(r, q) BY <2>2, <2>8 DEF Follows
  <2>10. finishManual(q, outcome(r)) \in Supervisor BY <2>7 DEF Sound, Told
  <2>11. Follows(r, finishManual(q, outcome(r))) BY <2>1, <2>7, <2>9, <2>10, FollowsOn
  <2> QED BY <2>2, <2>6, <2>7, <2>11 DEF Steady
<1> QED BY <1>1, <1>2

LEMMA RefuseManual ==
    ASSUME NEW r, Sound(r)
    PROVE  Steady(r, refuseManual[r])
<1> DEFINE q == cancelSleep[r]
<1>1. Steady(r, q) /\ ~q.asking BY CancelSleep
<1>2. q.manual => q = r /\ ~r.asking BY CancelSleep
<1>3. refuseManual[r] = finishManual(q, outcome(r)) BY DEF refuseManual, Sound, Told
<1>4. outcome(r) \in {"Refused", "Uncertain"} BY DEF outcome
<1>5. q.manual => q.id \notin q.sent BY <1>2 DEF Sound, Told
<1>6. Told(q) BY <1>1 DEF Steady, Sound
<1> HIDE DEF q
<1>7. LET t == finishManual(q, outcome(r))
      IN  Sound(t) /\ Follows(q, t) /\ t.view = q.view /\ t.delay = q.delay
  BY <1>1, <1>4, <1>5, <1>6, FinishManual
<1>8. Steady(q, finishManual(q, outcome(r))) BY <1>7 DEF Steady
<1> QED BY <1>1, <1>3, <1>8, SteadyOn

LEMMA CallsTyped ==
    /\ \A m \in {"Inhibit", "HintYes", "HintNo"} : call(m) \in Call
    /\ \A m \in {"Can", "Sleep"}, i \in Requests : [method |-> m, id |-> i] \in Call
BY SleepBounds DEF call, Call, Requests

LEMMA SendLockedHint ==
    ASSUME NEW r, Sound(r)
    PROVE  Steady(r, sendLockedHint[r])
<1> r \in Supervisor BY DEF Sound, Told
<1> DEFINE m == IF r.desired = "yes" THEN "HintYes" ELSE "HintNo"
           q == [r EXCEPT !.hinting = TRUE, !.calls = @ \cup {call(m)}]
<1>1. sendLockedHint[r] \in {r, q} BY DEF sendLockedHint
<1>2. call(m) \in Call /\ call(m).method # "Sleep" BY CallsTyped DEF call
<1>3. q \in Supervisor BY <1>2 DEF Supervisor
<1>4. SameBut(r, q) BY <1>2 DEF SameBut, Supervisor
<1> HIDE DEF q
<1> QED BY <1>1, <1>3, <1>4, Irrelevant, Untouched

LEMMA Notified ==
    ASSUME NEW r, Sound(r)
    PROVE  /\ Steady(r, notifyAvailability[r])
           /\ Offered(notifyAvailability[r])
<1> r \in Supervisor BY DEF Sound, Told
<1>1. canSuspend(r) \in BOOLEAN BY DEF canSuspend
<1>2. notifyAvailability[r] = [r EXCEPT !.offered = canSuspend(r)] BY NotifyAvailability
<1>3. notifyAvailability[r].view = r.view /\ notifyAvailability[r].delay = r.delay
  BY <1>1, <1>2 DEF Supervisor
<1> QED BY <1>3, NotifyAvailability DEF Steady

LEMMA SyncLockedHint ==
    ASSUME NEW r, Sound(r)
    PROVE  /\ Steady(r, syncLockedHint[r])
           /\ Offered(syncLockedHint[r])
<1> r \in Supervisor BY DEF Sound, Told
<1> DEFINE no == [r EXCEPT !.desired = "no"]
           yes == [r EXCEPT !.desired = "yes"]
<1>1. no \in Supervisor /\ SameBut(r, no) BY DEF Supervisor, SameBut
<1>2. yes \in Supervisor /\ SameBut(r, yes) BY DEF Supervisor, SameBut
<1> HIDE DEF no, yes
<1>3. Steady(r, no) /\ Steady(r, yes) BY <1>1, <1>2, Irrelevant
<1>4. Steady(r, sendLockedHint[no]) /\ Steady(r, sendLockedHint[yes])
  BY <1>3, SendLockedHint, SteadyOn DEF Steady
<1>5. \E q \in {r, sendLockedHint[no], sendLockedHint[yes]} :
         syncLockedHint[r] = notifyAvailability[q]
  BY DEF syncLockedHint, no, yes
<1>6. PICK q \in {r, sendLockedHint[no], sendLockedHint[yes]} :
         syncLockedHint[r] = notifyAvailability[q]
  BY <1>5
<1>7. Steady(r, q) BY <1>4, <1>6, Untouched
<1>8. Sound(q) BY <1>7 DEF Steady
<1>9. Steady(q, notifyAvailability[q]) /\ Offered(notifyAvailability[q]) BY <1>8, Notified
<1> QED BY <1>6, <1>7, <1>9, SteadyOn

LEMMA CancelSuspend ==
    ASSUME NEW r, Sound(r)
    PROVE  Steady(r, cancelSuspend[r])
<1> r \in Supervisor BY DEF Sound, Told
<1> DEFINE q == [r EXCEPT !.dispatch = "none"]
<1>1. q \in Supervisor /\ SameBut(r, q) BY DEF Supervisor, SameBut
<1>2. cancelSuspend[r] \in {r, refuseManual[q]} BY DEF cancelSuspend
<1> HIDE DEF q
<1>3. Steady(r, q) BY <1>1, Irrelevant
<1>4. Steady(q, refuseManual[q]) BY <1>3, RefuseManual DEF Steady
<1> QED BY <1>2, <1>3, <1>4, SteadyOn, Untouched

LEMMA AuthorityChanged ==
    ASSUME NEW r, Sound(r)
    PROVE  /\ Steady(r, authorityChanged[r])
           /\ Offered(authorityChanged[r])
<1> r \in Supervisor BY DEF Sound, Told
<1> DEFINE q == [r EXCEPT !.authorized = FALSE, !.sleepGate = FALSE]
           t == refuseManual[cancelSuspend[q]]
<1>1. q \in Supervisor /\ SameBut(r, q) BY DEF Supervisor, SameBut
<1>2. authorityChanged[r] = syncLockedHint[IF available(r) THEN r ELSE t]
  BY DEF authorityChanged
<1> HIDE DEF q
<1>3. Steady(r, q) BY <1>1, Irrelevant
<1>4. Steady(q, cancelSuspend[q]) BY <1>3, CancelSuspend DEF Steady
<1>5. Steady(cancelSuspend[q], t) BY <1>4, RefuseManual DEF Steady
<1>6. Steady(r, t)
  <2> HIDE DEF t
  <2>1. Steady(r, cancelSuspend[q]) BY <1>3, <1>4, SteadyOn
  <2> QED BY <2>1, <1>5, SteadyOn
<1> HIDE DEF t
<1> DEFINE u == IF available(r) THEN r ELSE t
<1>7. Steady(r, u) /\ authorityChanged[r] = syncLockedHint[u] BY <1>2, <1>6, Untouched
<1> HIDE DEF u
<1>8. Steady(u, syncLockedHint[u]) /\ Offered(syncLockedHint[u])
  BY <1>7, SyncLockedHint DEF Steady
<1> QED BY <1>7, <1>8, SteadyOn

\* Publishing leaves a state that is published, and offered truly.
LEMMA PublishAvailability ==
    ASSUME NEW r, Sound(r)
    PROVE  /\ Steady(r, publishAvailability[r])
           /\ Fresh(publishAvailability[r])
           /\ Offering(r) => Offered(publishAvailability[r])
<1> r \in Supervisor BY DEF Sound, Told
<1>1. CASE Snapshot(r) = r.published
  <2>1. publishAvailability[r] = r BY <1>1 DEF publishAvailability
  <2>2. Announced(r) => Offered(r) BY <1>1 DEF Announced, Offered, canSuspend, Snapshot
  <2> QED BY <1>1, <2>1, <2>2, Untouched DEF Fresh, Offering
<1>2. CASE Snapshot(r) # r.published
  <2> DEFINE q == [r EXCEPT !.published = Snapshot(r)]
             t == authorityChanged[q]
  <2>1. Snapshot(r) \in [available : BOOLEAN, delay : BOOLEAN, preparing : BOOLEAN]
    BY DEF Snapshot, available, hasDelayInhibitor, preparingForSleep, Supervisor
  <2>2. q \in Supervisor BY <2>1 DEF Supervisor
  <2>3. /\ q.manual = r.manual /\ q.asking = r.asking /\ q.dispatched = r.dispatched
        /\ q.ready = r.ready /\ q.admitted = r.admitted /\ q.preparing = r.preparing
        /\ q.delay = r.delay /\ q.view = r.view /\ q.calls = r.calls
        /\ q.id = r.id /\ q.sent = r.sent /\ q.result = r.result
        /\ q.published = Snapshot(r)
    BY <2>1 DEF Supervisor
  <2>4. Sound(q) BY <2>2, <2>3 DEF Sound, Told
  <2>5. Fresh(q) BY <2>2, <2>3, OfferDepends DEF Fresh
  <2>6. publishAvailability[r] = t BY <1>2 DEF publishAvailability
  <2> HIDE DEF q
  <2>7. Steady(q, t) /\ Offered(t) BY <2>4, AuthorityChanged
  <2> HIDE DEF t
  <2>8. Fresh(t) BY <2>5, <2>7 DEF Steady, Follows
  <2>9. Steady(r, t) BY <2>3, <2>7, <2>8 DEF Steady, Follows, Offering
  <2> QED BY <2>6, <2>7, <2>8, <2>9
<1> QED BY <1>1, <1>2

LEMMA AcquireDelayInhibitor ==
    ASSUME NEW r, Sound(r)
    PROVE  Steady(r, acquireDelayInhibitor[r])
<1> r \in Supervisor BY DEF Sound, Told
<1> DEFINE q == [r EXCEPT !.acquiring = TRUE, !.calls = @ \cup {call("Inhibit")}]
<1>1. acquireDelayInhibitor[r] \in {r, q} BY DEF acquireDelayInhibitor
<1>2. call("Inhibit") \in Call /\ call("Inhibit").method # "Sleep" BY CallsTyped DEF call
<1>3. q \in Supervisor BY <1>2 DEF Supervisor
<1>4. SameBut(r, q) BY <1>2 DEF SameBut, Supervisor
<1> HIDE DEF q
<1> QED BY <1>1, <1>3, <1>4, Irrelevant, Untouched

\* What the dispatches may do: give the delay back, and only behind the lock.
Made(r, q) == Sound(q) /\ Follows(r, q)

LEMMA MadeOn ==
    ASSUME NEW r, Sound(r), NEW q, Made(r, q), NEW t, Made(q, t)
    PROVE  Made(r, t)
<1>1. r \in Supervisor /\ q \in Supervisor /\ t \in Supervisor BY DEF Made, Sound, Told
<1> QED BY <1>1, FollowsOn DEF Made

LEMMA SteadyMade == ASSUME NEW r, NEW q, Steady(r, q) PROVE Made(r, q)
BY DEF Steady, Made

LEMMA DispatchManual ==
    ASSUME NEW r, Sound(r)
    PROVE  Made(r, dispatchManual(r)) /\ dispatchManual(r).view = r.view
<1> r \in Supervisor BY DEF Sound, Told
<1>1. CASE protectedAdmission(r) /\ hasDelayInhibitor(r) /\ ~r.preparing /\ ~r.asking
  <2> DEFINE c == [method |-> "Can", id |-> r.id]
             q == [r EXCEPT !.asking = TRUE, !.dispatched = FALSE, !.calls = @ \cup {c}]
  <2>1. r.manual /\ r.id \in Requests BY <1>1 DEF protectedAdmission, Sound, Told
  <2>2. c \in Call /\ c.method # "Sleep" BY <2>1, CallsTyped
  <2>3. q \in Supervisor BY <2>2 DEF Supervisor
  <2>4. /\ q.manual = r.manual /\ q.asking
        /\ q.offered = r.offered /\ q.published = r.published
        /\ q.ready = r.ready /\ q.admitted = r.admitted /\ q.preparing = r.preparing
        /\ q.delay = r.delay /\ q.view = r.view
        /\ q.id = r.id /\ q.sent = r.sent /\ q.result = r.result
        /\ q.calls = r.calls \cup {c}
    BY DEF Supervisor
  <2>5. r.id \notin r.sent BY <1>1, <2>1 DEF Sound
  <2> HIDE DEF c
  <2>6. Sound(q) BY <2>1, <2>2, <2>3, <2>4, <2>5 DEF Sound, Told
  <2>7. Follows(r, q)
    BY <2>3, <2>4, OfferDepends DEF Follows, Offering, Offered, Announced, Fresh
  <2>8. dispatchManual(r) = q BY <1>1 DEF dispatchManual, c
  <2> QED BY <2>4, <2>6, <2>7, <2>8 DEF Made
<1>2. CASE ~(protectedAdmission(r) /\ hasDelayInhibitor(r) /\ ~r.preparing /\ ~r.asking)
  <2>1. dispatchManual(r) = refuseManual[r] BY <1>2 DEF dispatchManual
  <2> QED BY <2>1, RefuseManual DEF Steady, Made
<1> QED BY <1>1, <1>2

LEMMA DispatchGate ==
    ASSUME NEW r, Sound(r)
    PROVE  Made(r, dispatchGate(r)) /\ dispatchGate(r).view = r.view
<1> r \in Supervisor BY DEF Sound, Told
<1>1. CASE r.sleepGate /\ preparingForSleep(r) /\ presentationProtected(r)
  <2> DEFINE q == [r EXCEPT !.delay = FALSE]
             t == publishAvailability[q]
  <2>1. q \in Supervisor BY DEF Supervisor
  <2>2. /\ q.manual = r.manual /\ q.asking = r.asking /\ q.dispatched = r.dispatched
        /\ q.offered = r.offered /\ q.published = r.published
        /\ q.ready = r.ready /\ q.admitted = r.admitted /\ q.preparing = r.preparing
        /\ ~q.delay /\ q.view = r.view
        /\ q.id = r.id /\ q.sent = r.sent /\ q.result = r.result /\ q.calls = r.calls
    BY DEF Supervisor
  <2>3. Sound(q) BY <2>1, <2>2 DEF Sound, Told
  <2>4. Offering(r) => Offering(q)
    <3>1. Announced(r) => Announced(q) BY <2>2 DEF Announced
    <3>2. ~canSuspend(r) /\ ~canSuspend(q)
      BY <1>1, <2>2 DEF canSuspend, preparingForSleep, available
    <3> QED BY <2>2, <3>1, <3>2 DEF Offering, Offered
  <2>5. dispatchGate(r) = t BY <1>1 DEF dispatchGate
  <2> HIDE DEF q
  <2>6. Steady(q, t) /\ Fresh(t) /\ (Offering(q) => Offered(t)) BY <2>3, PublishAvailability
  <2> HIDE DEF t
  <2>7. r.view = "Locked" BY <1>1 DEF presentationProtected
  <2>8. Made(r, t) BY <2>2, <2>4, <2>6, <2>7 DEF Made, Steady, Follows, Offering
  <2> QED BY <2>2, <2>5, <2>6, <2>8 DEF Steady
<1>2. CASE ~(r.sleepGate /\ preparingForSleep(r) /\ presentationProtected(r))
  <2>1. dispatchGate(r) = r BY <1>2 DEF dispatchGate
  <2> QED BY <2>1, Untouched DEF Steady, Made
<1> QED BY <1>1, <1>2

LEMMA Dispatched ==
    ASSUME NEW r, Sound(r), NEW kind
    PROVE  Made(r, dispatched(r, kind)) /\ dispatched(r, kind).view = r.view
BY DispatchManual, DispatchGate DEF dispatched

LEMMA FinishSuspend ==
    ASSUME NEW r, Sound(r)
    PROVE  Made(r, finishSuspend[r]) /\ finishSuspend[r].view = r.view
<1> r \in Supervisor BY DEF Sound, Told
<1> DEFINE q == [r EXCEPT !.dispatch = "none"]
<1>1. q \in Supervisor /\ SameBut(r, q) BY DEF Supervisor, SameBut
<1>2. finishSuspend[r] \in {r, dispatched(q, r.dispatch), cancelSuspend[r]} BY DEF finishSuspend
<1> HIDE DEF q
<1>3. Steady(r, q) BY <1>1, Irrelevant
<1>4. Made(q, dispatched(q, r.dispatch)) /\ dispatched(q, r.dispatch).view = q.view
  BY <1>3, Dispatched DEF Steady
<1>5. Made(r, dispatched(q, r.dispatch)) BY <1>3, <1>4, SteadyMade, MadeOn
<1>6. Steady(r, r) /\ Steady(r, cancelSuspend[r]) BY Untouched, CancelSuspend
<1> QED BY <1>2, <1>3, <1>4, <1>5, <1>6, SteadyMade DEF Steady

LEMMA AcquireForReason ==
    ASSUME NEW r, Sound(r), NEW ok \in BOOLEAN
    PROVE  Steady(r, acquireForReason(r, ok))
<1> r \in Supervisor BY DEF Sound, Told
<1> DEFINE q == [r EXCEPT !.requesting = TRUE]
<1>1. q \in Supervisor /\ SameBut(r, q) BY DEF Supervisor, SameBut
<1>2. acquireForReason(r, ok) \in {r, q} BY DEF acquireForReason
<1> HIDE DEF q
<1> QED BY <1>1, <1>2, Irrelevant, Untouched

\* Forgetting the lock: the offer is made anew.
LEMMA LockForgotten ==
    ASSUME NEW r, Sound(r), NEW q \in Supervisor, SameBut([r EXCEPT !.view = "Unknown"], q)
    PROVE  Made(r, notifyAvailability[q])
<1> r \in Supervisor BY DEF Sound, Told
<1> DEFINE u == [r EXCEPT !.view = "Unknown"]
<1>1. u \in Supervisor /\ u.view = "Unknown" BY DEF Supervisor
<1>2. /\ u.manual = r.manual /\ u.asking = r.asking /\ u.dispatched = r.dispatched
      /\ u.offered = r.offered /\ u.published = r.published
      /\ u.ready = r.ready /\ u.admitted = r.admitted /\ u.preparing = r.preparing
      /\ u.delay = r.delay /\ u.id = r.id /\ u.sent = r.sent /\ u.result = r.result
      /\ u.calls = r.calls
  BY DEF Supervisor
<1>3. Sound(u) BY <1>1, <1>2 DEF Sound, Told
<1>4. SameBut(u, q) OBVIOUS
<1> HIDE DEF u
<1>5. Steady(u, q) BY <1>3, <1>4, Irrelevant
<1>6. Steady(q, notifyAvailability[q]) /\ Offered(notifyAvailability[q])
  BY <1>5, Notified DEF Steady
<1>7. Steady(u, notifyAvailability[q]) BY <1>3, <1>5, <1>6, SteadyOn
<1>8. Fresh(r) => Fresh(u) BY <1>1, <1>2, OfferDepends DEF Fresh
<1> QED BY <1>1, <1>2, <1>6, <1>7, <1>8 DEF Steady, Made, Follows, Offering

LEMMA RequestSuspend ==
    ASSUME NEW r, Sound(r), NEW kind \in {"manual", "gate"}, NEW ok \in BOOLEAN
    PROVE  Made(r, requestSuspend(r, kind, ok))
<1> r \in Supervisor BY DEF Sound, Told
<1> DEFINE w == [r EXCEPT !.dispatch = kind]
           l == acquireForReason(w, ok)
           u == [w EXCEPT !.view = "Unknown"]
<1>1. w \in Supervisor /\ SameBut(r, w) BY DEF Supervisor, SameBut
<1>2. u \in Supervisor /\ SameBut([r EXCEPT !.view = "Unknown"], u) BY DEF Supervisor, SameBut
<1>3. requestSuspend(r, kind, ok) \in
          {r, dispatched(r, kind), notifyAvailability[u], cancelSuspend[w], l}
  BY DEF requestSuspend
<1>4. Made(r, notifyAvailability[u])
  <2> HIDE DEF u
  <2> QED BY <1>2, LockForgotten
<1> HIDE DEF w
<1>5. Steady(r, w) BY <1>1, Irrelevant
<1>6. Steady(w, l) /\ Steady(w, cancelSuspend[w])
  BY <1>5, AcquireForReason, CancelSuspend DEF Steady
<1> HIDE DEF l, u
<1>7. Steady(r, l) /\ Steady(r, cancelSuspend[w]) BY <1>5, <1>6, SteadyOn
<1>8. Made(r, r) /\ Made(r, dispatched(r, kind)) BY Untouched, SteadyMade, Dispatched
<1> QED BY <1>3, <1>4, <1>7, <1>8, SteadyMade

LEMMA NativeStateChanged ==
    ASSUME NEW r, Sound(r), NEW ok \in BOOLEAN
    PROVE  Steady(r, nativeStateChanged(r, ok))
<1> r \in Supervisor BY DEF Sound, Told
<1> DEFINE q == [r EXCEPT !.resumeLock = FALSE]
           resumed == IF r.resumeLock /\ r.view # "Unknown" THEN acquireForReason(q, ok) ELSE r
           retried == acquireForReason(resumed, ok)
<1>1. q \in Supervisor /\ SameBut(r, q) BY DEF Supervisor, SameBut
<1>2. nativeStateChanged(r, ok) \in {resumed, retried, cancelSuspend[resumed]}
  BY DEF nativeStateChanged
<1> HIDE DEF q
<1>3. Steady(r, q) BY <1>1, Irrelevant
<1>4. Steady(q, acquireForReason(q, ok)) BY <1>3, AcquireForReason DEF Steady
<1>5. Steady(r, resumed) BY <1>3, <1>4, SteadyOn, Untouched
<1> HIDE DEF resumed
<1>6. Steady(resumed, retried) /\ Steady(resumed, cancelSuspend[resumed])
  BY <1>5, AcquireForReason, CancelSuspend DEF Steady
<1> HIDE DEF retried
<1> QED BY <1>2, <1>5, <1>6, SteadyOn

\* A state the monitor publishes: the offer is made anew, and the delay is given
\* back on a published lock only.
LEMMA Published ==
    ASSUME NEW r, Sound(r), Offered(r), Fresh(r), NEW ok \in BOOLEAN,
           NEW state \in {"Unknown", "Unlocked", "Locking", "Locked"}
    PROVE  LET t == published(r, state, ok)
           IN  /\ Sound(t) /\ Offered(t) /\ Fresh(t)
               /\ t.sent = r.sent /\ t.view = state /\ t.ready = r.ready
               /\ t.admitted = r.admitted /\ t.preparing = r.preparing
               /\ r.delay /\ ~t.delay => state = "Locked"
<1> r \in Supervisor BY DEF Sound, Told
<1>1. CASE state = r.view BY <1>1 DEF published
<1>2. CASE state # r.view
  <2> DEFINE q == [r EXCEPT !.view = state]
             n == nativeStateChanged(q, ok)
             c == syncLockedHint[n]
             f == finishSuspend[c]
  <2>1. q \in Supervisor /\ q.view = state BY DEF Supervisor
  <2>2. /\ q.manual = r.manual /\ q.asking = r.asking /\ q.dispatched = r.dispatched
        /\ q.offered = r.offered /\ q.published = r.published
        /\ q.ready = r.ready /\ q.admitted = r.admitted /\ q.preparing = r.preparing
        /\ q.delay = r.delay /\ q.id = r.id /\ q.sent = r.sent /\ q.result = r.result
        /\ q.calls = r.calls
    BY DEF Supervisor
  <2>3. Sound(q) BY <2>1, <2>2 DEF Sound, Told
  <2>4. Fresh(q) BY <2>1, <2>2, OfferDepends DEF Fresh
  <2>5. published(r, state, ok) = IF state = "Locked" THEN syncLockedHint[f] ELSE c
    BY <1>2 DEF published
  <2> HIDE DEF q
  <2>6. Steady(q, n) BY <2>3, NativeStateChanged
  <2> HIDE DEF n
  <2>7. Steady(n, c) /\ Offered(c) BY <2>6, SyncLockedHint DEF Steady
  <2> HIDE DEF c
  <2>8. Steady(q, c) BY <2>3, <2>6, <2>7, SteadyOn
  <2>9. Made(c, f) /\ f.view = c.view BY <2>7, FinishSuspend DEF Steady
  <2> HIDE DEF f
  <2>10. Steady(f, syncLockedHint[f]) /\ Offered(syncLockedHint[f])
    BY <2>9, SyncLockedHint DEF Made
  <2>11. CASE state = "Locked"
    BY <2>1, <2>2, <2>4, <2>5, <2>8, <2>9, <2>10, <2>11 DEF Steady, Made, Follows
  <2>12. CASE state # "Locked"
    BY <2>1, <2>2, <2>4, <2>5, <2>7, <2>8, <2>12 DEF Steady, Made, Follows
  <2> QED BY <2>11, <2>12
<1> QED BY <1>1, <1>2

LEMMA AnnouncedSleep ==
    ASSUME NEW r, Sound(r), NEW ok \in BOOLEAN
    PROVE  Made(r, announced(r, ok)) /\ Offered(announced(r, ok))
<1> r \in Supervisor BY DEF Sound, Told
<1> DEFINE q == [r EXCEPT !.slept = TRUE, !.authorized = FALSE]
           c == cancelSuspend[q]
           g == [c EXCEPT !.sleepGate = TRUE]
           w == requestSuspend(g, "gate", ok)
<1>1. q \in Supervisor /\ SameBut(r, q) BY DEF Supervisor, SameBut
<1> HIDE DEF q
<1>2. Steady(r, q) BY <1>1, Irrelevant
<1>3. Steady(q, c) BY <1>2, CancelSuspend DEF Steady
<1>4. announced(r, ok) = notifyAvailability[w] BY DEF announced, q
<1> HIDE DEF c
<1>5. c \in Supervisor BY <1>3 DEF Steady, Sound, Told
<1>6. g \in Supervisor /\ SameBut(c, g) BY <1>5 DEF Supervisor, SameBut
<1> HIDE DEF g
<1>7. Steady(c, g) BY <1>3, <1>6, Irrelevant DEF Steady
<1>8. Steady(r, g) BY <1>2, <1>3, <1>7, SteadyOn
<1>9. Made(g, w) BY <1>7, RequestSuspend DEF Steady
<1> HIDE DEF w
<1>10. Steady(w, notifyAvailability[w]) /\ Offered(notifyAvailability[w])
  BY <1>9, Notified DEF Made
<1>11. Made(r, w) BY <1>8, <1>9, SteadyMade, MadeOn
<1> QED BY <1>4, <1>10, <1>11, SteadyMade, MadeOn

LEMMA EndedSleep ==
    ASSUME NEW r, Sound(r), NEW ok \in BOOLEAN
    PROVE  Steady(r, ended(r, ok)) /\ Offered(ended(r, ok))
<1> r \in Supervisor BY DEF Sound, Told
<1> DEFINE q == [r EXCEPT !.resumeLock = TRUE]
           n == IF r.slept THEN nativeStateChanged(q, ok) ELSE r
           a == [n EXCEPT !.slept = FALSE, !.authorized = FALSE, !.sleepGate = FALSE]
           c == cancelSuspend[a]
           f == refuseManual[c]
           d == acquireDelayInhibitor[f]
<1>1. q \in Supervisor /\ SameBut(r, q) BY DEF Supervisor, SameBut
<1>2. ended(r, ok) = notifyAvailability[d] BY DEF ended
<1> HIDE DEF q
<1>3. Steady(r, q) BY <1>1, Irrelevant
<1>4. Steady(q, nativeStateChanged(q, ok)) BY <1>3, NativeStateChanged DEF Steady
<1>5. Steady(r, n) BY <1>3, <1>4, SteadyOn, Untouched
<1> HIDE DEF n
<1>6. n \in Supervisor BY <1>5 DEF Steady, Sound, Told
<1>7. a \in Supervisor /\ SameBut(n, a)
  <2>1. a \in Supervisor BY <1>6 DEF Supervisor
  <2>2. a.calls = n.calls /\ a.manual = n.manual /\ a.asking = n.asking /\ a.id = n.id
        /\ a.dispatched = n.dispatched /\ a.offered = n.offered
    BY <1>6 DEF Supervisor
  <2>3. a.published = n.published /\ a.ready = n.ready /\ a.admitted = n.admitted
        /\ a.preparing = n.preparing /\ a.delay = n.delay /\ a.view = n.view
        /\ a.sent = n.sent /\ a.result = n.result
    BY <1>6 DEF Supervisor
  <2> QED BY <2>1, <2>2, <2>3 DEF SameBut
<1> HIDE DEF a
<1>8. Steady(n, a) BY <1>5, <1>7, Irrelevant DEF Steady
<1>9. Steady(r, a) BY <1>5, <1>8, SteadyOn
<1>10. Steady(a, c) BY <1>8, CancelSuspend DEF Steady
<1> HIDE DEF c
<1>11. Steady(c, f) BY <1>10, RefuseManual DEF Steady
<1> HIDE DEF f
<1>12. Steady(f, d) BY <1>11, AcquireDelayInhibitor DEF Steady
<1> HIDE DEF d
<1>13. Steady(d, notifyAvailability[d]) /\ Offered(notifyAvailability[d])
  BY <1>12, Notified DEF Steady
<1>14. Steady(r, f) BY <1>9, <1>10, <1>11, SteadyOn
<1>15. Steady(r, d) BY <1>12, <1>14, SteadyOn
<1> QED BY <1>2, <1>13, <1>15, SteadyOn

LEMMA Preparing ==
    ASSUME NEW r, Sound(r), NEW value \in BOOLEAN, NEW ok \in BOOLEAN
    PROVE  /\ Made(r, preparing(r, value, ok))
           /\ Offering(r) \/ available(r) => Offering(preparing(r, value, ok))
<1>1. Made(r, r) BY Untouched, SteadyMade
<1> QED BY <1>1, AnnouncedSleep, EndedSleep, SteadyMade DEF preparing, Offering

-----------------------------------------------------------------------------
(* The supervisor's events: what each leaves of the record.                 *)

RecordInv(r) == Sound(r) /\ Offered(r) /\ Fresh(r)

\* An event of the supervisor: nothing is sent to logind, the delay is given back
\* and a lock is shown behind the lock only.
Handled ==
    /\ RecordInv(s') /\ s'.sent = s.sent
    /\ s'.view = "Locked" => BehindLock
    /\ s.delay /\ ~s'.delay /\ available(s') /\ s'.preparing => BehindLock

SleepInv ==
    /\ TypeOK /\ signals \in Seq(Messages) /\ RecordInv(s)
    /\ Replies(signals, s.sent) /\ ViewFollows

LEMMA OfferSettles ==
    ASSUME NEW r, Fresh(r), Offering(r)
    PROVE  Offered(r)
BY DEF Fresh, Offering, Offered, Announced, canSuspend, Snapshot

LEMMA OfferStands ==
    ASSUME NEW r, Offered(r), Fresh(r)
    PROVE  Announced(r)
BY DEF Fresh, Offered, Announced, canSuspend, Snapshot

\* Functions on a record that lost nothing.
LEMMA MadeHandled ==
    ASSUME SleepInv, NEW q, Sound(q), Fresh(q), Offering(q),
           q.view = s.view, q.delay = s.delay, q.sent = s.sent, Made(q, s')
    PROVE  Handled
<1>1. RecordInv(s') BY OfferSettles DEF Made, Follows, RecordInv
<1>2. s.view = "Locked" => BehindLock BY DEF SleepInv, ViewFollows
<1> QED BY <1>1, <1>2 DEF Handled, Made, Follows

LEMMA SelfHandled == ASSUME SleepInv, Made(s, s') PROVE Handled
BY MadeHandled DEF SleepInv, RecordInv, Offering

\* Functions on a record whose published state is behind, and then published.
LEMMA PublishHandled ==
    ASSUME SleepInv, NEW q, Sound(q), Offering(q), q.sent = s.sent,
           q.view \in {s.view, "Unknown"},
           s.delay /\ ~q.delay => s.view = "Locked" \/ ~available(q) \/ ~q.preparing,
           s' = publishAvailability[q]
    PROVE  Handled
<1>1. Steady(q, s') /\ Fresh(s') /\ Offered(s') BY PublishAvailability
<1>2. RecordInv(s') BY <1>1 DEF Steady, RecordInv
<1>3. s.view = "Locked" => BehindLock BY DEF SleepInv, ViewFollows
<1>4. available(s') = available(q) BY <1>1 DEF Steady, Follows, available
<1> QED BY <1>1, <1>2, <1>3, <1>4 DEF Handled, Steady, Follows

\* What the transport learns of logind leaves requests and the offer alone.
SameRequests(r, q) ==
    /\ q.manual = r.manual /\ q.asking = r.asking /\ q.dispatched = r.dispatched
    /\ q.offered = r.offered /\ q.published = r.published /\ q.view = r.view
    /\ q.id = r.id /\ q.sent = r.sent /\ q.result = r.result
    /\ \A c \in q.calls : c.method = "Sleep" => c \in r.calls

LEMMA Altered ==
    ASSUME NEW r, RecordInv(r), NEW q \in Supervisor, SameRequests(r, q)
    PROVE  Sound(q) /\ Announced(q)
<1>1. Sound(q) BY DEF RecordInv, Sound, Told, SameRequests
<1>2. Announced(r) BY OfferStands DEF RecordInv
<1> QED BY <1>1, <1>2 DEF Announced, SameRequests

LEMMA RequestSleep ==
    ASSUME SleepInv, requestSleep
    PROVE  Handled
<1> DEFINE q == [s EXCEPT !.manual = TRUE, !.authorized = TRUE, !.id = @ + 1]
           a == notifyAvailability[q]
<1>1. PICK ok \in Oks :
         s' = IF s.dispatch = "none" THEN requestSuspend(a, "manual", ok) ELSE refuseManual[a]
  BY DEF requestSleep, supervisor
<1>2. ok \in BOOLEAN BY DEF Oks
<1>3. s \in Supervisor /\ ~s.manual /\ ~s.asking /\ Sound(s)
  BY DEF SleepInv, RecordInv, Sound, Told, requestSleep, canSuspend
<1>4. s.id \in 0 .. MaxRequests /\ s.id + 1 \in Requests
  BY <1>3, SleepBounds DEF requestSleep, Supervisor, Requests
<1>5. q \in Supervisor
  <2>1. s.id + 1 \in 0 .. MaxRequests BY <1>4, SleepBounds DEF Requests
  <2> QED BY <1>3, <2>1 DEF Supervisor
<1>6. /\ q.manual /\ q.asking = s.asking /\ q.offered = s.offered
      /\ q.published = s.published /\ q.calls = s.calls
      /\ q.ready = s.ready /\ q.admitted = s.admitted /\ q.preparing = s.preparing
      /\ q.delay = s.delay /\ q.view = s.view /\ q.id = s.id + 1 /\ q.sent = s.sent
      /\ q.result = s.result
  BY <1>3, <1>4 DEF Supervisor
<1>7. q.id \notin q.sent /\ q.result[q.id] = "none" /\ \A i \in q.sent : i <= q.id
  <2>1. \A i \in s.sent : i \in Nat /\ i <= s.id
    BY <1>3, SleepBounds DEF Sound, Told, Supervisor, Requests
  <2> QED BY <2>1, <1>3, <1>4, <1>6 DEF Sound, Told
<1>8. \A i \in Requests : i >= q.id => q.result[i] = "none"
  <2>1. \A i \in Requests : i >= s.id + 1 => i > s.id BY <1>4, SleepBounds DEF Requests
  <2> QED BY <1>3, <1>6, <2>1 DEF Sound, Told
<1>9. Sound(q)
  <2>1. q.id \in Nat /\ \A i \in Requests : i > q.id \/ i = q.id => i >= q.id
    BY <1>4, <1>6, SleepBounds DEF Requests
  <2> QED BY <1>3, <1>4, <1>5, <1>6, <1>7, <1>8, <2>1 DEF Sound, Told
<1>10. Fresh(q) BY <1>3, <1>5, <1>6, OfferDepends DEF SleepInv, RecordInv, Fresh
<1> HIDE DEF q
<1>11. Steady(q, a) /\ Offered(a) BY <1>9, Notified
<1> HIDE DEF a
<1>12. Sound(a) /\ Fresh(a) /\ a.view = s.view /\ a.delay = s.delay /\ a.sent = s.sent
  BY <1>6, <1>10, <1>11 DEF Steady, Follows
<1>13. Made(a, s') BY <1>1, <1>2, <1>12, RequestSuspend, RefuseManual, SteadyMade
<1> QED BY <1>11, <1>12, <1>13, MadeHandled DEF Offering

LEMMA Retired ==
    ASSUME NEW r, Sound(r)
    PROVE  Steady(r, refuseManual[cancelSuspend[r]])
<1>1. Steady(r, cancelSuspend[r]) BY CancelSuspend
<1>2. Steady(cancelSuspend[r], refuseManual[cancelSuspend[r]])
  BY <1>1, RefuseManual DEF Steady
<1> QED BY <1>1, <1>2, SteadyOn

LEMMA CancelRequest ==
    ASSUME SleepInv, cancelRequest \/ requestDeadline
    PROVE  Handled
<1> DEFINE q == [s EXCEPT !.authorized = FALSE]
<1>1. s' = refuseManual[cancelSuspend[q]] BY DEF cancelRequest, requestDeadline, supervisor
<1>2. s \in Supervisor /\ Sound(s) BY DEF SleepInv, RecordInv, Sound, Told
<1>3. q \in Supervisor /\ SameBut(s, q) BY <1>2 DEF Supervisor, SameBut
<1> HIDE DEF q
<1>4. Steady(s, q) BY <1>2, <1>3, Irrelevant
<1>5. Steady(q, s') BY <1>1, <1>4, Retired DEF Steady
<1>6. Steady(s, s') BY <1>2, <1>4, <1>5, SteadyOn
<1> QED BY <1>6, SteadyMade, SelfHandled

LEMMA SuspendDeadline ==
    ASSUME SleepInv, suspendDeadline
    PROVE  Handled
BY CancelSuspend, SteadyMade, SelfHandled DEF suspendDeadline, supervisor, SleepInv, RecordInv

LEMMA RequestLock ==
    ASSUME SleepInv, requestLock
    PROVE  Handled
<1>1. Sound(s) BY DEF SleepInv, RecordInv
<1>2. s' = acquireForReason(s, TRUE) BY DEF requestLock, supervisor
<1>3. Steady(s, s') BY <1>1, <1>2, AcquireForReason
<1> QED BY <1>3, SteadyMade, SelfHandled

LEMMA LockRefused ==
    ASSUME SleepInv, lockRefused
    PROVE  Handled
<1> DEFINE q == [s EXCEPT !.requesting = FALSE]
<1>1. s' = cancelSuspend[q] BY DEF lockRefused, supervisor
<1>2. s \in Supervisor /\ Sound(s) BY DEF SleepInv, RecordInv, Sound, Told
<1>3. q \in Supervisor /\ SameBut(s, q) BY <1>2 DEF Supervisor, SameBut
<1> HIDE DEF q
<1>4. Steady(s, q) BY <1>2, <1>3, Irrelevant
<1>5. Steady(q, s') BY <1>1, <1>4, CancelSuspend DEF Steady
<1>6. Steady(s, s') BY <1>2, <1>4, <1>5, SteadyOn
<1> QED BY <1>6, SteadyMade, SelfHandled

LEMMA MaintenanceRetry ==
    ASSUME SleepInv, maintenanceRetry
    PROVE  Handled
<1> DEFINE q == [s EXCEPT !.retry = FALSE]
           t == acquireDelayInhibitor[q]
<1>1. s' = sendLockedHint[t] BY DEF maintenanceRetry, supervisor
<1>2. s \in Supervisor /\ Sound(s) BY DEF SleepInv, RecordInv, Sound, Told
<1>3. q \in Supervisor /\ SameBut(s, q) BY <1>2 DEF Supervisor, SameBut
<1> HIDE DEF q
<1>4. Steady(s, q) BY <1>2, <1>3, Irrelevant
<1>5. Steady(q, t) BY <1>4, AcquireDelayInhibitor DEF Steady
<1> HIDE DEF t
<1>6. Steady(t, s') BY <1>1, <1>5, SendLockedHint DEF Steady
<1>7. Steady(s, s') BY <1>2, <1>4, <1>5, <1>6, SteadyOn
<1> QED BY <1>7, SteadyMade, SelfHandled

LEMMA StateInvalidated ==
    ASSUME SleepInv, stateInvalidated
    PROVE  Handled
<1> DEFINE t == published(s, "Unknown", TRUE)
<1>1. s' = t BY DEF stateInvalidated
<1>2. Sound(s) /\ Offered(s) /\ Fresh(s) BY DEF SleepInv, RecordInv
<1> HIDE DEF t
<1>3. /\ Sound(t) /\ Offered(t) /\ Fresh(t) /\ t.sent = s.sent /\ t.view = "Unknown"
      /\ s.delay /\ ~t.delay => FALSE
  BY <1>2, Published DEF t
<1> QED BY <1>1, <1>3 DEF Handled, RecordInv

LEMMA StateResolved ==
    ASSUME SleepInv, stateResolved
    PROVE  Handled
<1>1. PICK ok \in Oks : s' = published(s, screen, ok) BY DEF stateResolved, supervisor
<1> DEFINE t == published(s, screen, ok)
<1>2. ok \in BOOLEAN BY DEF Oks
<1>3. screen \in {"Unknown", "Unlocked", "Locking", "Locked"} BY DEF SleepInv, TypeOK
<1>4. Sound(s) /\ Offered(s) /\ Fresh(s) BY DEF SleepInv, RecordInv
<1> HIDE DEF t
<1>5. /\ Sound(t) /\ Offered(t) /\ Fresh(t) /\ t.sent = s.sent /\ t.view = screen
      /\ s.delay /\ ~t.delay => screen = "Locked"
  BY <1>2, <1>3, <1>4, Published DEF t
<1>6. s' = t BY <1>1 DEF t
<1> QED BY <1>5, <1>6 DEF Handled, RecordInv, BehindLock

LEMMA ReevaluateAdmission ==
    ASSUME SleepInv, reevaluateAdmission
    PROVE  Handled
<1> DEFINE r == [s EXCEPT !.admitted = ~@]
           lost == [r EXCEPT !.delay = FALSE, !.retry = FALSE]
           asked == acquireDelayInhibitor[r]
           told == sendLockedHint[asked]
           q == IF ~r.admitted THEN lost
                ELSE IF r.ready /\ ~r.preparing THEN told ELSE r
<1>1. s' = publishAvailability[q] BY DEF reevaluateAdmission, supervisor
<1>2. s \in Supervisor /\ RecordInv(s) BY DEF SleepInv, RecordInv, Sound, Told
<1>3. r \in Supervisor /\ SameRequests(s, r) /\ r.delay = s.delay
  <2>1. r \in Supervisor
    <3>1. \A b \in BOOLEAN : [s EXCEPT !.admitted = b] \in Supervisor
      BY <1>2 DEF Supervisor
    <3>2. CASE s.admitted BY <3>1, <3>2
    <3>3. CASE ~s.admitted BY <3>1, <3>3
    <3> QED BY <3>2, <3>3
  <2>2. /\ r.manual = s.manual /\ r.asking = s.asking /\ r.dispatched = s.dispatched
        /\ r.offered = s.offered /\ r.published = s.published /\ r.view = s.view
        /\ r.id = s.id /\ r.sent = s.sent /\ r.result = s.result /\ r.calls = s.calls
        /\ r.delay = s.delay
    BY <1>2 DEF Supervisor
  <2> QED BY <2>1, <2>2 DEF SameRequests
<1>4. lost \in Supervisor /\ SameRequests(s, lost) /\ lost.admitted = r.admitted
  <2> HIDE DEF r
  <2>1. /\ lost \in Supervisor /\ SameRequests(r, lost) /\ lost.admitted = r.admitted
    BY <1>3 DEF Supervisor, SameRequests
  <2> QED BY <1>3, <2>1 DEF SameRequests
<1> HIDE DEF r, lost
<1>5. Sound(r) /\ Announced(r) /\ Sound(lost) /\ Announced(lost) BY <1>2, <1>3, <1>4, Altered
<1>6. Steady(r, asked) BY <1>5, AcquireDelayInhibitor
<1> HIDE DEF asked
<1>7. Steady(asked, told) BY <1>6, SendLockedHint DEF Steady
<1> HIDE DEF told
<1>8. Steady(r, told) BY <1>5, <1>6, <1>7, SteadyOn
<1>9. Sound(q) /\ Offering(q) BY <1>5, <1>8 DEF Steady, Follows, Offering
<1>10. q.sent = s.sent /\ q.view = s.view
  BY <1>3, <1>4, <1>8 DEF Steady, Follows, SameRequests
<1>11. s.delay /\ ~q.delay => ~available(q)
  BY <1>3, <1>4, <1>8 DEF Steady, available
<1> HIDE DEF q
<1> QED BY <1>1, <1>9, <1>10, <1>11, PublishHandled

LEMMA Unbind ==
    ASSUME SleepInv, unbind
    PROVE  Handled
<1> DEFINE q == [s EXCEPT !.ready = FALSE, !.preparing = FALSE, !.acquiring = FALSE,
                          !.hinting = FALSE, !.confirmed = "none", !.delay = FALSE,
                          !.retry = FALSE, !.calls = {}]
           t == cancelSleep[q]
<1>1. s' = publishAvailability[t] BY DEF unbind
<1>2. s \in Supervisor /\ RecordInv(s) BY DEF SleepInv, RecordInv, Sound, Told
<1>3. q \in Supervisor
  <2> DEFINE u == [s EXCEPT !.ready = FALSE, !.preparing = FALSE, !.acquiring = FALSE,
                            !.hinting = FALSE, !.confirmed = "none"]
  <2>1. u \in Supervisor BY <1>2 DEF Supervisor
  <2>2. q = [u EXCEPT !.delay = FALSE, !.retry = FALSE, !.calls = {}] OBVIOUS
  <2>3. {} \in SUBSET Call OBVIOUS
  <2> HIDE DEF u, q
  <2> QED BY <2>1, <2>2, <2>3 DEF Supervisor
<1>4. SameRequests(s, q) /\ ~q.ready
  <2>1. /\ q.manual = s.manual /\ q.asking = s.asking /\ q.dispatched = s.dispatched
        /\ q.offered = s.offered /\ q.published = s.published /\ q.view = s.view
        /\ q.id = s.id /\ q.sent = s.sent /\ q.result = s.result
        /\ q.calls = {} /\ ~q.ready
    BY <1>2 DEF Supervisor
  <2> QED BY <2>1 DEF SameRequests
<1> HIDE DEF q
<1>5. Sound(q) /\ Announced(q) BY <1>2, <1>3, <1>4, Altered
<1>6. Steady(q, t) BY <1>5, CancelSleep
<1> HIDE DEF t
<1>7. Sound(t) /\ Offering(t) /\ t.sent = s.sent /\ t.view = s.view /\ ~available(t)
  BY <1>4, <1>5, <1>6 DEF Steady, Follows, Offering, SameRequests, available
<1> QED BY <1>1, <1>7, PublishHandled

LEMMA Bind ==
    ASSUME SleepInv, bind
    PROVE  Handled
<1> DEFINE going == system = "going"
           up == [s EXCEPT !.ready = TRUE]
           ready == publishAvailability[up]
           seen == [ready EXCEPT !.preparing = going]
<1>1. PICK ok \in Oks :
         s' = LET known == preparing(seen, going, ok)
                  kept == IF known.preparing THEN known ELSE acquireDelayInhibitor[known]
              IN  publishAvailability[sendLockedHint[kept]]
  BY DEF bind, supervisor
<1> DEFINE known == preparing(seen, going, ok)
           kept == IF known.preparing THEN known ELSE acquireDelayInhibitor[known]
           told == sendLockedHint[kept]
<1>2. s' = publishAvailability[told] BY <1>1
<1>3. s \in Supervisor /\ RecordInv(s) /\ ok \in BOOLEAN
  BY DEF SleepInv, RecordInv, Sound, Told, Oks
<1>4. up \in Supervisor /\ SameRequests(s, up) /\ up.delay = s.delay
  BY <1>3 DEF Supervisor, SameRequests
<1> HIDE DEF up
<1>5. Sound(up) /\ Announced(up) BY <1>3, <1>4, Altered
<1>6. Steady(up, ready) /\ Fresh(ready) /\ Offered(ready)
  BY <1>5, PublishAvailability DEF Offering
<1> HIDE DEF ready
<1>7. ready \in Supervisor /\ RecordInv(ready) BY <1>6 DEF Steady, Sound, Told, RecordInv
<1>8. seen \in Supervisor /\ SameRequests(ready, seen) /\ seen.delay = ready.delay
  BY <1>7 DEF Supervisor, SameRequests
<1> HIDE DEF seen
<1>9. Sound(seen) /\ Announced(seen) BY <1>7, <1>8, Altered
<1>10. Made(seen, known) /\ Offering(known)
  BY <1>3, <1>9, Preparing DEF Offering
<1> HIDE DEF known
<1>11. Steady(known, kept) BY <1>10, AcquireDelayInhibitor, Untouched DEF Made
<1> HIDE DEF kept
<1>12. Steady(kept, told) BY <1>11, SendLockedHint DEF Steady
<1> HIDE DEF told
<1>13. Sound(told) /\ Offering(told) BY <1>10, <1>11, <1>12 DEF Steady, Follows, Made
<1>14. /\ told.sent = seen.sent /\ told.view \in {seen.view, "Unknown"}
       /\ seen.delay /\ ~told.delay => seen.view = "Locked"
  BY <1>10, <1>11, <1>12 DEF Steady, Follows, Made
<1>15. seen.sent = s.sent /\ seen.view = s.view /\ seen.delay = s.delay
  BY <1>4, <1>6, <1>8 DEF Steady, Follows, SameRequests
<1> QED BY <1>2, <1>13, <1>14, <1>15, PublishHandled

-----------------------------------------------------------------------------
(* Logind's messages.                                                       *)

LEMMA ReceivePrepare ==
    ASSUME SleepInv, NEW value \in BOOLEAN, receivePrepare(value)
    PROVE  Handled
<1> DEFINE q == [s EXCEPT !.preparing = value, !.retry = @ /\ ~value]
<1>1. PICK ok \in Oks :
         s' = LET told == preparing(q, value, ok)
              IN  publishAvailability[IF value THEN told ELSE acquireDelayInhibitor[told]]
  BY DEF receivePrepare
<1> DEFINE told == preparing(q, value, ok)
           t == IF value THEN told ELSE acquireDelayInhibitor[told]
<1>2. s' = publishAvailability[t] BY <1>1
<1>3. s \in Supervisor /\ RecordInv(s) /\ ok \in BOOLEAN
  BY DEF SleepInv, RecordInv, Sound, Told, Oks
<1>4. q \in Supervisor /\ SameRequests(s, q) /\ q.delay = s.delay
  <2>1. \A b, c \in BOOLEAN : [s EXCEPT !.preparing = b, !.retry = c] \in Supervisor
    BY <1>3 DEF Supervisor
  <2>2. q \in Supervisor
    <3>1. CASE s.retry /\ ~value BY <2>1, <3>1
    <3>2. CASE ~(s.retry /\ ~value) BY <2>1, <3>2
    <3> QED BY <3>1, <3>2
  <2>3. /\ q.manual = s.manual /\ q.asking = s.asking /\ q.dispatched = s.dispatched
        /\ q.offered = s.offered /\ q.published = s.published /\ q.view = s.view
        /\ q.id = s.id /\ q.sent = s.sent /\ q.result = s.result
        /\ q.calls = s.calls /\ q.delay = s.delay
    BY <1>3 DEF Supervisor
  <2> QED BY <2>2, <2>3 DEF SameRequests
<1> HIDE DEF q
<1>5. Sound(q) /\ Announced(q) BY <1>3, <1>4, Altered
<1>6. Made(q, told) /\ Offering(told) BY <1>3, <1>5, Preparing DEF Offering
<1> HIDE DEF told
<1>7. Steady(told, t) BY <1>6, AcquireDelayInhibitor, Untouched DEF Made
<1> HIDE DEF t
<1>8. /\ Sound(t) /\ Offering(t) /\ t.sent = q.sent /\ t.view \in {q.view, "Unknown"}
      /\ q.delay /\ ~t.delay => q.view = "Locked"
  BY <1>6, <1>7 DEF Steady, Made, Follows
<1>9. q.sent = s.sent /\ q.view = s.view BY <1>4 DEF SameRequests
<1> QED BY <1>2, <1>4, <1>8, <1>9, PublishHandled

LEMMA Inhibited ==
    ASSUME SleepInv, NEW granted \in BOOLEAN, inhibited(granted)
    PROVE  Handled
<1> DEFINE r == [s EXCEPT !.acquiring = FALSE]
           denied == [r EXCEPT !.retry = @ \/ ~r.preparing]
           held == [r EXCEPT !.delay = TRUE, !.retry = FALSE]
           q == IF ~granted THEN denied
                ELSE IF r.delay \/ (~r.preparing /\ r.admitted) THEN held ELSE r
<1>1. s' = publishAvailability[q] BY DEF inhibited
<1>2. s \in Supervisor /\ RecordInv(s) BY DEF SleepInv, RecordInv, Sound, Told
<1>3. r \in Supervisor /\ SameRequests(s, r) /\ r.delay = s.delay
  BY <1>2 DEF Supervisor, SameRequests
<1> HIDE DEF r
<1>4. denied \in Supervisor /\ SameRequests(r, denied) /\ denied.delay = r.delay
  <2>1. (r.retry \/ ~r.preparing) \in BOOLEAN BY <1>3 DEF Supervisor
  <2>2. denied \in Supervisor BY <1>3, <2>1 DEF Supervisor
  <2>3. /\ denied.manual = r.manual /\ denied.asking = r.asking
        /\ denied.dispatched = r.dispatched /\ denied.offered = r.offered
        /\ denied.published = r.published /\ denied.view = r.view /\ denied.id = r.id
        /\ denied.sent = r.sent /\ denied.result = r.result
        /\ denied.calls = r.calls /\ denied.delay = r.delay
    BY <1>3 DEF Supervisor
  <2> QED BY <2>2, <2>3 DEF SameRequests
<1>5. held \in Supervisor /\ SameRequests(r, held) /\ held.delay
  BY <1>3 DEF Supervisor, SameRequests
<1> HIDE DEF denied, held
<1>6. q \in Supervisor /\ SameRequests(s, q) /\ (s.delay => q.delay)
  BY <1>3, <1>4, <1>5 DEF SameRequests
<1> HIDE DEF q
<1>7. Sound(q) /\ Offering(q) BY <1>2, <1>6, Altered DEF Offering
<1> QED BY <1>1, <1>6, <1>7, PublishHandled DEF SameRequests

LEMMA Hinted ==
    ASSUME SleepInv, NEW v \in {"yes", "no", "unhinted"}, hinted(v)
    PROVE  Handled
<1> DEFINE r == [s EXCEPT !.hinting = FALSE]
           lost == [r EXCEPT !.confirmed = "none", !.retry = TRUE]
           known == [r EXCEPT !.confirmed = v]
<1>1. s' = IF v = "unhinted" THEN lost ELSE sendLockedHint[known] BY DEF hinted
<1>2. s \in Supervisor /\ Sound(s) BY DEF SleepInv, RecordInv, Sound, Told
<1>3. r \in Supervisor /\ SameBut(s, r) BY <1>2 DEF Supervisor, SameBut
<1> HIDE DEF r
<1>4. lost \in Supervisor /\ SameBut(r, lost) BY <1>3 DEF Supervisor, SameBut
<1>5. v # "unhinted" => known \in Supervisor /\ SameBut(r, known)
  BY <1>3 DEF Supervisor, SameBut
<1> HIDE DEF lost, known
<1>6. Steady(s, r) BY <1>2, <1>3, Irrelevant
<1>7. Steady(r, lost) /\ (v # "unhinted" => Steady(r, known))
  BY <1>4, <1>5, <1>6, Irrelevant DEF Steady
<1>8. v # "unhinted" => Steady(known, sendLockedHint[known])
  BY <1>7, SendLockedHint DEF Steady
<1>9. Steady(s, lost) /\ (v # "unhinted" => Steady(s, known)) BY <1>2, <1>6, <1>7, SteadyOn
<1>10. v # "unhinted" => Steady(s, sendLockedHint[known]) BY <1>2, <1>8, <1>9, SteadyOn
<1> QED BY <1>1, <1>9, <1>10, SteadyMade, SelfHandled

\* The end of a request: an action that is done was sent.
LEMMA SleepReplied ==
    ASSUME SleepInv, NEW done \in BOOLEAN, sleepReplied(done)
    PROVE  Handled
<1> DEFINE m == Head(signals)
           q == [s EXCEPT !.asking = FALSE, !.dispatched = FALSE]
           v == IF done THEN "Confirmed" ELSE "Uncertain"
           t == finishManual(q, v)
<1>1. s \in Supervisor /\ Sound(s) /\ RecordInv(s) BY DEF SleepInv, RecordInv, Sound, Told
<1>2. CASE ~current(m.id)
  <2>1. s' = s BY <1>2 DEF sleepReplied
  <2> QED BY <1>1, <2>1, Untouched, SteadyMade, SelfHandled
<1>3. CASE current(m.id)
  <2>1. s' = t BY <1>3 DEF sleepReplied
  <2>2. m.kind = "done" => m.id \in s.sent
    BY DEF SleepInv, Replies, sleepReplied, received
  <2>3. s.asking /\ s.manual /\ m.id = s.id BY <1>1, <1>3 DEF current, Sound, Told
  <2>4. q \in Supervisor BY <1>1 DEF Supervisor
  <2>5. /\ q.manual = s.manual /\ ~q.asking
        /\ q.offered = s.offered /\ q.published = s.published
        /\ q.ready = s.ready /\ q.admitted = s.admitted /\ q.preparing = s.preparing
        /\ q.delay = s.delay /\ q.view = s.view
        /\ q.id = s.id /\ q.sent = s.sent /\ q.result = s.result /\ q.calls = s.calls
    BY <1>1 DEF Supervisor
  <2>6. Told(q) BY <1>1, <2>4, <2>5 DEF Sound, Told
  <2>7. v \in {"Confirmed", "Uncertain"} /\ (v = "Confirmed" => q.id \in q.sent)
    BY <2>2, <2>3, <2>5 DEF sleepReplied, received
  <2>8. Fresh(q) BY <1>1, <2>4, <2>5, OfferDepends DEF RecordInv, Fresh
  <2> HIDE DEF q, v
  <2>9. /\ Sound(t) /\ Follows(q, t) /\ Offered(t) /\ t.view = q.view /\ t.delay = q.delay
    BY <2>3, <2>5, <2>6, <2>7, FinishManual
  <2> HIDE DEF t
  <2>10. RecordInv(t) BY <2>8, <2>9 DEF RecordInv, Follows
  <2>11. s.view = "Locked" => BehindLock BY DEF SleepInv, ViewFollows
  <2> QED BY <2>1, <2>5, <2>9, <2>10, <2>11 DEF Handled, Follows
<1> QED BY <1>2, <1>3

\* The action is sent behind the lock, and the request is not reported on yet.
Sends ==
    /\ RecordInv(s') /\ s.sent \subseteq s'.sent
    /\ s'.view = s.view /\ s'.delay = s.delay /\ s.view = "Locked"

LEMMA Capable ==
    ASSUME SleepInv, NEW yes \in BOOLEAN, capable(yes)
    PROVE  Handled \/ Sends
<1>1. s \in Supervisor /\ Sound(s) /\ RecordInv(s) BY DEF SleepInv, RecordInv, Sound, Told
<1> DEFINE c == [method |-> "Sleep", id |-> s.id]
           q == [s EXCEPT !.dispatched = TRUE, !.sent = @ \cup {s.id}, !.calls = @ \cup {c}]
<1>2. s' \in {s, cancelSleep[s]} \/ (current(Head(signals).id) /\ protectedAdmission(s) /\ s' = q)
  BY DEF capable
<1>3. CASE s' \in {s, cancelSleep[s]}
  BY <1>1, <1>3, Untouched, CancelSleep, SteadyMade, SelfHandled
<1>4. CASE current(Head(signals).id) /\ protectedAdmission(s) /\ s' = q
  <2>1. s.asking /\ s.manual /\ s.view = "Locked"
    BY <1>4 DEF current, protectedAdmission, presentationProtected
  <2>2. s.id \in Requests BY <1>1, <2>1 DEF Sound, Told
  <2>3. c \in Call /\ c.id = s.id BY <2>2, CallsTyped
  <2>4. q \in Supervisor
    <3>1. s.calls \cup {c} \in SUBSET Call /\ s.sent \cup {s.id} \in SUBSET Requests
      BY <1>1, <2>2, <2>3 DEF Supervisor
    <3> QED BY <1>1, <3>1 DEF Supervisor
  <2>5. /\ q.manual = s.manual /\ q.asking = s.asking /\ q.dispatched
        /\ q.offered = s.offered /\ q.published = s.published
        /\ q.ready = s.ready /\ q.admitted = s.admitted /\ q.preparing = s.preparing
        /\ q.delay = s.delay /\ q.view = s.view
        /\ q.id = s.id /\ q.sent = s.sent \cup {s.id} /\ q.result = s.result
        /\ q.calls = s.calls \cup {c}
    BY <1>1 DEF Supervisor
  <2> HIDE DEF c
  <2>6. s.result[s.id] = "none" BY <1>1, <2>1, <2>2 DEF Sound, Told
  <2>7. s.id <= s.id BY <2>2, SleepBounds DEF Requests
  <2>8. Sound(q) BY <1>1, <2>1, <2>2, <2>3, <2>4, <2>5, <2>6, <2>7 DEF Sound, Told
  <2>9. Offered(q) /\ Fresh(q)
    BY <1>1, <2>4, <2>5, OfferDepends DEF RecordInv, Offered, Fresh
  <2> HIDE DEF q
  <2> QED BY <1>4, <2>1, <2>5, <2>8, <2>9 DEF Sends, RecordInv
<1> QED BY <1>2, <1>3, <1>4

-----------------------------------------------------------------------------
(* Every step.                                                              *)

\* What a step does to the queue: nothing, one message less, or one more that
\* answers a call.
Queued ==
    \/ signals' = signals \/ signals' = <<>>
    \/ signals # <<>> /\ signals' = Tail(signals)
    \/ \E m \in Messages : /\ signals' = Append(signals, m)
                           /\ m.kind = "done" => m.id \in s.sent

LEMMA QueueElements ==
    ASSUME NEW q \in Seq(Messages)
    PROVE  \A i \in DOMAIN q : q[i] \in Messages
BY ElementOfSeq

LEMMA QueueKept ==
    ASSUME SleepInv, Queued, s.sent \subseteq s'.sent
    PROVE  signals' \in Seq(Messages) /\ Replies(signals', s'.sent)
<1> signals \in Seq(Messages) /\ Replies(signals, s.sent) BY DEF SleepInv
<1>1. CASE signals' = signals BY <1>1 DEF Replies
<1>2. CASE signals' = <<>> BY <1>2 DEF Replies
<1>3. CASE signals # <<>> /\ signals' = Tail(signals)
  <2>1. /\ Tail(signals) \in Seq(Messages) /\ Len(Tail(signals)) = Len(signals) - 1
        /\ \A i \in 1 .. Len(signals) - 1 : Tail(signals)[i] = signals[i + 1]
    BY <1>3
  <2>2. \A i \in 1 .. Len(signals) - 1 : i + 1 \in DOMAIN signals BY <1>3
  <2> QED BY <1>3, <2>1, <2>2 DEF Replies
<1>4. ASSUME NEW m \in Messages, signals' = Append(signals, m), m.kind = "done" => m.id \in s.sent
      PROVE  signals' \in Seq(Messages) /\ Replies(signals', s'.sent)
  <2>1. \A i \in DOMAIN signals' :
           \/ i \in DOMAIN signals /\ signals'[i] = signals[i]
           \/ signals'[i] = m
    BY <1>4
  <2> QED BY <1>4, <2>1 DEF Replies
<1> QED BY <1>1, <1>2, <1>3, <1>4 DEF Queued

\* The delay is given to a sleep, and a request is sent, behind the lock only.
Guarded ==
    /\ s.sent # s'.sent => BehindLock
    /\ s.delay /\ ~s'.delay /\ available(s') /\ s'.preparing => BehindLock

\* A step of the supervisor: what the compositor did is not undone by it.
LEMMA SupervisorStep ==
    ASSUME SleepInv, Handled \/ Sends, Queued, UNCHANGED <<screen, system, hint>>,
           news' \in BOOLEAN, news /\ ~news' => s'.view = "Unknown"
    PROVE  SleepInv' /\ Guarded
<1>1. s.view = "Locked" => BehindLock BY DEF SleepInv, ViewFollows
<1>2. s.sent \subseteq s'.sent BY DEF Handled, Sends
<1>3. signals' \in Seq(Messages) /\ Replies(signals', s'.sent) BY <1>2, QueueKept
<1>4. RecordInv(s') BY DEF Handled, Sends
<1>5. s' \in Supervisor BY <1>4 DEF RecordInv, Sound, Told
<1>6. \A i \in DOMAIN signals' : signals'[i].id \in 0 .. MaxRequests
  BY <1>3, QueueElements DEF Messages
<1>7. TypeOK' BY <1>5, <1>6 DEF SleepInv, TypeOK
<1>8. ViewFollows' BY <1>1 DEF Handled, Sends, ViewFollows, BehindLock
<1>9. Guarded BY <1>1 DEF Handled, Sends, Guarded
<1> QED BY <1>3, <1>4, <1>7, <1>8, <1>9 DEF SleepInv

\* A step of logind or the compositor that leaves the record alone, or takes a
\* call or the lock request out of it.
LEMMA WorldStep ==
    ASSUME SleepInv, s' \in Supervisor, SameBut(s, s'), Queued,
           screen' \in {"Unlocked", "Locking", "Locked"}, news' \in BOOLEAN,
           system' \in {"awake", "going", "asleep"}, hint' \in {"yes", "no"},
           UNCHANGED <<screen, news>> \/ news'
    PROVE  SleepInv' /\ Guarded
<1>1. Sound(s) /\ Offered(s) /\ Fresh(s) BY DEF SleepInv, RecordInv
<1>2. Steady(s, s') BY <1>1, Irrelevant
<1>3. Handled BY <1>2, SteadyMade, SelfHandled
<1>4. s'.sent = s.sent /\ s'.view = s.view /\ s'.delay = s.delay BY DEF SameBut
<1>5. signals' \in Seq(Messages) /\ Replies(signals', s'.sent) BY <1>4, QueueKept
<1>6. \A i \in DOMAIN signals' : signals'[i].id \in 0 .. MaxRequests
  BY <1>5, QueueElements DEF Messages
<1>7. TypeOK' BY <1>6 DEF TypeOK
<1>8. ViewFollows' BY <1>4 DEF SleepInv, ViewFollows, BehindLock
<1>9. Guarded BY <1>4 DEF Guarded
<1> QED BY <1>3, <1>5, <1>7, <1>8, <1>9 DEF SleepInv, Handled

\* What the compositor and logind did so far is all the supervisor's steps read.
LEMMA InitSound == Init => SleepInv
<1> SUFFICES ASSUME Init PROVE SleepInv OBVIOUS
<1> USE SleepBounds
<1> DEFINE none == [available |-> FALSE, delay |-> FALSE, preparing |-> FALSE]
<1>1. s = Start BY DEF Init
<1>2. s \in Supervisor
  <2>1. /\ 0 \in 0 .. MaxRequests /\ {} \in SUBSET Requests /\ {} \in SUBSET Call
        /\ [i \in Requests |-> "none"]
             \in [Requests -> {"none", "Confirmed", "Refused", "Uncertain"}]
    OBVIOUS
  <2> QED BY <1>1, <2>1 DEF Start, Supervisor
<1>3. /\ ~s.manual /\ ~s.asking /\ s.sent = {} /\ s.calls = {} /\ ~s.offered
      /\ s.published = none /\ ~s.ready /\ ~s.delay /\ ~s.preparing
      /\ s.view = "Unknown" /\ \A i \in Requests : s.result[i] = "none"
  BY <1>1 DEF Start
<1>4. Sound(s) BY <1>2, <1>3 DEF Sound, Told
<1>5. Offered(s) BY <1>3 DEF Offered, canSuspend
<1>6. Fresh(s)
  BY <1>3 DEF Fresh, Snapshot, available, hasDelayInhibitor, preparingForSleep
<1>7. signals = <<>> /\ signals \in Seq(Messages) BY DEF Init
<1>8. Replies(signals, s.sent) BY <1>7 DEF Replies
<1>9. \A i \in DOMAIN signals : signals[i].id \in 0 .. MaxRequests BY <1>7
<1>10. TypeOK BY <1>2, <1>9 DEF Init, TypeOK
<1> QED BY <1>3, <1>4, <1>5, <1>6, <1>7, <1>8, <1>10 DEF SleepInv, RecordInv, ViewFollows

\* The steps of the supervisor that neither take a message nor end one.
LEMMA SupervisorActions ==
    ASSUME SleepInv,
           requestSleep \/ cancelRequest \/ timers \/ requestLock \/ lockRefused
           \/ stateResolved \/ reevaluateAdmission \/ bind
    PROVE  SleepInv' /\ Guarded
<1>1. Handled
  BY RequestSleep, CancelRequest, SuspendDeadline, MaintenanceRetry, RequestLock, LockRefused,
     StateResolved, ReevaluateAdmission, Bind
  DEF timers
<1>2. UNCHANGED <<screen, news, system, hint, signals>>
  BY DEF requestSleep, cancelRequest, timers, requestDeadline, suspendDeadline,
         maintenanceRetry, requestLock, lockRefused, stateResolved, reevaluateAdmission,
         bind, supervisor, keepWorld
<1>3. news' \in BOOLEAN /\ ~(news /\ ~news') BY <1>2 DEF SleepInv, TypeOK
<1> QED BY <1>1, <1>2, <1>3, SupervisorStep DEF Queued

LEMMA InvalidatedStep ==
    ASSUME SleepInv, stateInvalidated
    PROVE  SleepInv' /\ Guarded
<1>1. Sound(s) /\ Offered(s) /\ Fresh(s) BY DEF SleepInv, RecordInv
<1>2. s'.view = "Unknown" BY <1>1, Published DEF stateInvalidated
<1>3. Handled BY StateInvalidated
<1>4. Queued /\ UNCHANGED <<screen, system, hint>> /\ news' \in BOOLEAN
  BY DEF Queued, stateInvalidated
<1> QED BY <1>2, <1>3, <1>4, SupervisorStep

LEMMA UnbindStep ==
    ASSUME SleepInv, unbind
    PROVE  SleepInv' /\ Guarded
<1>1. Handled BY Unbind
<1>2. Queued /\ UNCHANGED <<screen, news, system, hint>> BY DEF Queued, unbind, keepWorld
<1>3. news' \in BOOLEAN /\ ~(news /\ ~news') BY <1>2 DEF SleepInv, TypeOK
<1> QED BY <1>1, <1>2, <1>3, SupervisorStep

\* A message is taken from the queue.
LEMMA MessageStep ==
    ASSUME SleepInv, messages
    PROVE  SleepInv' /\ Guarded
<1>1. Handled \/ Sends
  BY ReceivePrepare, Inhibited, Capable, SleepReplied, Hinted DEF messages
<1>2. signals # <<>> /\ signals' = Tail(signals)
  BY DEF messages, receivePrepare, inhibited, capable, sleepReplied, hinted, received
<1>3. UNCHANGED <<screen, news, system, hint>>
  BY DEF messages, receivePrepare, inhibited, capable, sleepReplied, hinted, keepWorld
<1>4. news' \in BOOLEAN /\ ~(news /\ ~news') BY <1>3 DEF SleepInv, TypeOK
<1>5. Queued BY <1>2 DEF Queued
<1> QED BY <1>1, <1>3, <1>4, <1>5, SupervisorStep

\* Logind's own signals.
LEMMA LogindStep ==
    ASSUME SleepInv, goesToSleep \/ suspends \/ wakes
    PROVE  SleepInv' /\ Guarded
<1>1. UNCHANGED <<s, screen, news, hint>> /\ system' \in {"awake", "going", "asleep"}
  BY DEF goesToSleep, suspends, wakes
<1>2. s' \in Supervisor /\ SameBut(s, s') BY <1>1 DEF SleepInv, TypeOK, SameBut
<1>3. /\ screen' \in {"Unlocked", "Locking", "Locked"} /\ news' \in BOOLEAN
      /\ hint' \in {"yes", "no"}
  BY <1>1 DEF SleepInv, TypeOK
<1>4. \A k \in {"sleep", "resume"} : message(k) \in Messages /\ message(k).kind # "done"
  BY SleepBounds DEF message, Messages
<1>5. signals' \in {signals, Append(signals, message("sleep")), Append(signals, message("resume"))}
  BY DEF goesToSleep, suspends, wakes, sends
<1> HIDE DEF message
<1>6. Queued BY <1>4, <1>5 DEF Queued
<1> QED BY <1>1, <1>2, <1>3, <1>6, WorldStep

\* A call is answered: a sleep is done when it was asked for.
LEMMA AnswerStep ==
    ASSUME SleepInv, NEW c \in Call, accepts(c) \/ refuses(c)
    PROVE  SleepInv' /\ Guarded
<1> DEFINE m(i) == [kind |-> Answers(c.method)[i], id |-> c.id]
<1>1. c \in s.calls /\ s' = [s EXCEPT !.calls = @ \ {c}] BY DEF accepts, refuses, answered
<1>2. s \in Supervisor /\ Sound(s) BY DEF SleepInv, RecordInv, Sound, Told
<1>3. s.calls \ {c} \in SUBSET Call BY <1>2 DEF Supervisor
<1>4. s' \in Supervisor /\ SameBut(s, s') BY <1>1, <1>2, <1>3 DEF Supervisor, SameBut
<1>5. signals' = Append(signals, m(1)) \/ signals' = Append(signals, m(2))
  BY DEF accepts, refuses, sends
<1>6. c.method \in {"Inhibit", "HintYes", "HintNo", "Can", "Sleep"} /\ c.id \in 0 .. MaxRequests
  BY DEF Call
<1>7. /\ Answers(c.method)[1] \in {"granted", "yes", "no", "able", "done"}
      /\ Answers(c.method)[2] \in {"denied", "unhinted", "unable", "failed"}
      /\ Answers(c.method)[1] = "done" => c.method = "Sleep"
  BY <1>6 DEF Answers
<1>8. m(1) \in Messages /\ m(2) \in Messages /\ m(2).kind # "done" BY <1>6, <1>7 DEF Messages
<1>9. m(1).kind = "done" => m(1).id \in s.sent BY <1>1, <1>2, <1>7 DEF Sound, Told
<1>10. Queued
  <2> HIDE DEF m
  <2> QED BY <1>5, <1>8, <1>9 DEF Queued
<1>11. /\ UNCHANGED <<screen, news, system>> /\ hint' \in {"yes", "no"}
  BY DEF accepts, refuses, SleepInv, TypeOK
<1>12. /\ screen' \in {"Unlocked", "Locking", "Locked"} /\ news' \in BOOLEAN
       /\ system' \in {"awake", "going", "asleep"}
  BY <1>11 DEF SleepInv, TypeOK
<1> QED BY <1>4, <1>10, <1>11, <1>12, WorldStep

\* A change of the lock is news to the monitor.
LEMMA LockStep ==
    ASSUME SleepInv, lockAdmitted \/ lockShown \/ authenticated
    PROVE  SleepInv' /\ Guarded
<1>1. s \in Supervisor BY DEF SleepInv, TypeOK
<1>2. s' \in Supervisor /\ SameBut(s, s')
  <2>1. s' \in {s, [s EXCEPT !.requesting = FALSE]}
    BY DEF lockAdmitted, lockShown, authenticated, screenChanges
  <2>2. SameBut(s, s) /\ SameBut(s, [s EXCEPT !.requesting = FALSE])
    BY <1>1 DEF SameBut, Supervisor
  <2>3. [s EXCEPT !.requesting = FALSE] \in Supervisor BY <1>1 DEF Supervisor
  <2> QED BY <1>1, <2>1, <2>2, <2>3
<1>3. UNCHANGED <<system, signals, hint>> /\ (UNCHANGED <<screen, news>> \/ news')
  BY DEF lockAdmitted, lockShown, authenticated, screenChanges, SleepInv, TypeOK
<1>4. screen' \in {"Unlocked", "Locking", "Locked"} /\ news' \in BOOLEAN
  BY DEF lockAdmitted, lockShown, authenticated, screenChanges, SleepInv, TypeOK
<1>5. system' \in {"awake", "going", "asleep"} /\ hint' \in {"yes", "no"}
  BY <1>3 DEF SleepInv, TypeOK
<1>6. Queued BY <1>3 DEF Queued
<1> QED BY <1>2, <1>3, <1>4, <1>5, <1>6, WorldStep

LEMMA StepSound ==
    ASSUME SleepInv, [Next]_vars
    PROVE  SleepInv' /\ Guarded
<1>1. CASE Next
  BY <1>1, SupervisorActions, InvalidatedStep, UnbindStep, MessageStep, LogindStep, AnswerStep,
     LockStep
  DEF Next, lockEvents
<1>2. CASE UNCHANGED vars
  <2>1. SleepInv'
    BY <1>2 DEF vars, SleepInv, TypeOK, RecordInv, Sound, Told, Offered, Fresh, Replies,
                ViewFollows, BehindLock, canSuspend
  <2>2. Guarded BY <1>2 DEF vars, Guarded
  <2> QED BY <2>1, <2>2
<1> QED BY <1>1, <1>2

-----------------------------------------------------------------------------
(* The theorems.                                                            *)

THEOREM SleepInvariant == Spec => []SleepInv
<1>1. SleepInv /\ [Next]_vars => SleepInv' BY StepSound
<1> QED BY InitSound, <1>1, PTL DEF Spec

\* The record, the lock and logind's queue keep their types, whatever the
\* handlers of the supervisor call of each other.
THEOREM SleepTypeCorrect == Spec => []TypeOK
<1>1. SleepInv => TypeOK BY DEF SleepInv
<1> QED BY <1>1, SleepInvariant, PTL

\* What Sleep1 answers a client stays true: a request reported as refused was
\* not and will not be sent to logind, one reported as confirmed was.
THEOREM ResultsTrue == Spec => []ResultIsTrue
<1>1. SleepInv => ResultIsTrue BY DEF SleepInv, RecordInv, Sound, Told, ResultIsTrue
<1> QED BY <1>1, SleepInvariant, PTL

\* Whether a sleep is offered to clients is at any time what canSuspend() says,
\* though it is read of state of three objects that call one another.
THEOREM OfferCurrent == Spec => []OfferIsCurrent
<1>1. SleepInv => OfferIsCurrent BY DEF SleepInv, RecordInv, Offered, OfferIsCurrent
<1> QED BY <1>1, SleepInvariant, PTL

\* No request is sent to logind, and no delay is given to a sleep, before the
\* lock is on screen, however the lock, the gate and the requests interleave.
THEOREM LockedFirst == Spec => OnlyBehindLock
<1>1. SleepInv /\ [Next]_vars => [/\ s.sent # s'.sent => BehindLock
                                  /\ s.delay /\ ~s'.delay /\ available(s') /\ s'.preparing
                                       => BehindLock]_vars
  BY StepSound DEF Guarded
<1> QED BY <1>1, SleepInvariant, PTL DEF Spec, OnlyBehindLock

=============================================================================
