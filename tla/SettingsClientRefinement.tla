---------------------- MODULE SettingsClientRefinement ----------------------
(***************************************************************************)
(* The client of Settings1 implements SettingsWrite: with the messages     *)
(* coherent (SettingsClientProofs), each step of client, bus and service   *)
(* is a step of the promise or changes nothing it speaks of.               *)
(***************************************************************************)
EXTENDS SettingsClientProofs

\* The promise's variables: by Linked its write is the client's fate.
Count == Cardinality(Strays)
Promised == <<fate, told, Count, effects>>

\* The steps of SettingsWrite, and a step it does not see.
Begins == fate = "none" /\ fate' = "asked" /\ UNCHANGED <<told, Count, effects>>
Decides ==
    /\ fate = "asked" /\ fate' \in {"applied", "refused"}
    /\ effects' \in IF fate' = "applied" THEN {effects, effects + 1} ELSE {effects}
    /\ UNCHANGED <<told, Count>>
StrayEnds ==
    /\ Count' \in 0 .. Count
    /\ effects' \in effects .. effects + (Count - Count')
    /\ UNCHANGED <<fate, told>>
Finishes ==
    /\ fate \in {"applied", "refused"} /\ told' = fate /\ fate' = "none"
    /\ UNCHANGED <<Count, effects>>
Doubts ==
    /\ fate # "none" /\ fate' = "none" /\ told' \in {"uncertain", "nothing"}
    /\ Count' \in Count .. Count + IF fate = "asked" THEN 1 ELSE 0
    /\ UNCHANGED effects
Unseen == UNCHANGED <<fate, told, Count, effects>>

PromiseStep == Begins \/ Decides \/ StrayEnds \/ Finishes \/ Doubts \/ Unseen

LEMMA StepsOfPromise ==
    ASSUME Linked, Linked', PromiseStep
    PROVE  [Promise!Next]_(Promise!writeVars)
<1>1. /\ (IF write = None THEN "none" ELSE fate) = fate
      /\ (IF write' = None THEN "none" ELSE fate') = fate'
  BY DEF Linked
<1>2. CASE Begins BY <1>1, <1>2 DEF Begins, Count, Promise!Next, Promise!Begin
<1>3. CASE Decides BY <1>1, <1>3 DEF Decides, Count, Promise!Next, Promise!Decide
<1>4. CASE StrayEnds BY <1>1, <1>4 DEF StrayEnds, Count, Promise!Next, Promise!Strayed
<1>5. CASE Finishes BY <1>1, <1>5 DEF Finishes, Count, Promise!Next, Promise!Finish
<1>6. CASE Doubts BY <1>1, <1>6 DEF Doubts, Count, Promise!Next, Promise!Doubt
<1>7. CASE Unseen BY <1>1, <1>7 DEF Unseen, Count, Promise!writeVars
<1> QED BY <1>2, <1>3, <1>4, <1>5, <1>6, <1>7 DEF PromiseStep

-----------------------------------------------------------------------------
(* The strays: commits under way that are not the request in flight.        *)

StrayTokens(cs, r) ==
    {t \in Token : \E i \in 1 .. Len(cs) :
        cs[i].kind = "commit" /\ cs[i].token = t /\ ~(r # None /\ r.token = t)}

LEMMA StraysAre ==
    /\ calls \in Seq(Call) => Strays = StrayTokens(calls, request)
    /\ calls' \in Seq(Call) => Strays' = StrayTokens(calls', request')
<1>1. calls \in Seq(Call) => DOMAIN calls = 1 .. Len(calls) BY ElementOf
<1>2. calls' \in Seq(Call) => DOMAIN calls' = 1 .. Len(calls') BY ElementOf
<1>3. calls \in Seq(Call) => Strays = StrayTokens(calls, request)
  BY <1>1 DEF Strays, StrayTokens, mine
<1>4. calls' \in Seq(Call) => Strays' = StrayTokens(calls', request')
  BY <1>2 DEF Strays, StrayTokens, mine
<1> QED BY <1>3, <1>4

LEMMA StraysFinite ==
    ASSUME NEW cs, NEW r
    PROVE  IsFiniteSet(StrayTokens(cs, r)) /\ Cardinality(StrayTokens(cs, r)) \in Nat
<1>1. IsFiniteSet(Token) BY FS_Interval, BoundsAssumption DEF Token
<1>2. StrayTokens(cs, r) \in SUBSET Token BY DEF StrayTokens
<1> QED BY <1>1, <1>2, FS_Subset, FS_CardinalityType

\* A request that is forgotten leaves its commit behind as a stray, if the
\* service has not decided on it.
LEMMA ForgottenStrays ==
    ASSUME NEW q, NEW cs \in Seq(Call), NEW r \in Request, NEW f, Coherent(q, cs, r, f)
    PROVE  /\ StrayTokens(cs, r) \subseteq StrayTokens(cs, None)
           /\ StrayTokens(cs, None) \subseteq StrayTokens(cs, r) \cup {r.token}
           /\ r.kind # "commit" \/ f # "asked" => StrayTokens(cs, None) = StrayTokens(cs, r)
<1>1. StrayTokens(cs, r) \subseteq StrayTokens(cs, None) BY DEF StrayTokens
<1>2. StrayTokens(cs, None) \subseteq StrayTokens(cs, r) \cup {r.token} BY DEF StrayTokens
<1>3. r # None BY NoneAssumption
<1>4. ASSUME r.kind # "commit" \/ f # "asked"
      PROVE  StrayTokens(cs, None) \subseteq StrayTokens(cs, r)
  BY <1>3, <1>4 DEF StrayTokens, Coherent, Called
<1> QED BY <1>1, <1>2, <1>4

\* Neither does the token of a new request name a stray.
LEMMA CalledStrays ==
    ASSUME NEW q, NEW cs \in Seq(Call), NEW r \in Request, Fresh(q, cs, r.token),
           NEW c \in Call, c.token = r.token
    PROVE  /\ StrayTokens(cs, r) = StrayTokens(cs, None)
           /\ StrayTokens(Append(cs, c), r) = StrayTokens(cs, None)
<1>1. r # None BY NoneAssumption
<1>2. StrayTokens(cs, r) = StrayTokens(cs, None) BY <1>1 DEF StrayTokens, Fresh
<1>3. /\ Len(cs) \in Nat /\ Len(Append(cs, c)) = Len(cs) + 1
      /\ Append(cs, c)[Len(cs) + 1] = c
      /\ \A i \in 1 .. Len(cs) : Append(cs, c)[i] = cs[i] /\ i \in 1 .. Len(Append(cs, c))
      /\ \A i \in 1 .. Len(Append(cs, c)) : i \in 1 .. Len(cs) \/ i = Len(cs) + 1
  BY AppendOf
<1>4. StrayTokens(Append(cs, c), r) = StrayTokens(cs, r) BY <1>1, <1>3 DEF StrayTokens
<1> QED BY <1>2, <1>4

\* The service takes a call.
LEMMA TakenStrays ==
    ASSUME NEW q, NEW cs \in Seq(Call), NEW r, NEW f, Coherent(q, cs, r, f), cs # <<>>
    PROVE  StrayTokens(Tail(cs), r) = StrayTokens(cs, r) \ {Head(cs).token}
<1>1. /\ Len(cs) \in Nat \ {0} /\ Head(cs) = cs[1] /\ 1 \in 1 .. Len(cs)
      /\ \A i \in 1 .. Len(Tail(cs)) :
            i + 1 \in 1 .. Len(cs) /\ i + 1 # 1 /\ Tail(cs)[i] = cs[i + 1]
      /\ \A i \in 1 .. Len(cs) :
            i # 1 => i - 1 \in 1 .. Len(Tail(cs)) /\ Tail(cs)[i - 1] = cs[i]
  BY TailOf
<1>2. \A i \in 1 .. Len(cs) : Carrier(cs[i]) BY ElementOf, CallFields
<1>3. \A i \in 1 .. Len(cs) : i # 1 => cs[i].token # Head(cs).token
  BY <1>1, <1>2 DEF Coherent, Distinct
<1>4. StrayTokens(Tail(cs), r) \subseteq StrayTokens(cs, r) \ {Head(cs).token}
  BY <1>1, <1>3 DEF StrayTokens
<1>5. StrayTokens(cs, r) \ {Head(cs).token} \subseteq StrayTokens(Tail(cs), r)
  BY <1>1 DEF StrayTokens
<1> QED BY <1>4, <1>5

-----------------------------------------------------------------------------
(* Each step keeps the promise.                                             *)

\* Nothing the promise speaks of changes with the messages to the client.
LEMMA UnseenStep ==
    ASSUME ClientInv, UNCHANGED <<calls, request, fate, told, effects>>
    PROVE  PromiseStep
BY DEF PromiseStep, Unseen, Count, Strays, mine

\* The request in flight, of whatever kind, is given up.
LEMMA GivenUpStep ==
    ASSUME ClientInv, request' = None, UNCHANGED <<calls, effects>>,
           write = None => UNCHANGED <<fate, told>>,
           write # None => fate' = "none" /\ told' \in {"uncertain", "nothing"}
    PROVE  PromiseStep
<1>1. /\ TypeOK /\ Linked /\ calls \in Seq(Call) /\ calls' \in Seq(Call)
      /\ request \in Request \cup {None} /\ Coherent(inbox, calls, request, fate)
  BY DEF ClientInv, TypeOK
<1>2. CASE request = None
  <2>1. write = None BY <1>1, <1>2 DEF Linked
  <2> QED BY <1>2, <2>1, UnseenStep
<1>3. CASE request # None
  <2> DEFINE S == StrayTokens(calls, request)  T == StrayTokens(calls, None)
  <2>1. Strays = S /\ Strays' = T BY <1>1, StraysAre
  <2>2. /\ S \subseteq T /\ T \subseteq S \cup {request.token}
        /\ request.kind # "commit" \/ fate # "asked" => T = S
    BY <1>1, <1>3, ForgottenStrays
  <2>3. /\ IsFiniteSet(S) /\ IsFiniteSet(T) /\ Cardinality(S) \in Nat /\ Cardinality(T) \in Nat
    BY StraysFinite
  <2> HIDE DEF S, T
  <2>4. Cardinality(S) <= Cardinality(T) BY <2>2, <2>3, FS_Subset
  <2>5. Cardinality(T) <= Cardinality(S) + 1
    <3>1. /\ IsFiniteSet(S \cup {request.token})
          /\ Cardinality(S \cup {request.token}) \in {Cardinality(S), Cardinality(S) + 1}
      BY <2>3, FS_AddElement
    <3>2. Cardinality(T) <= Cardinality(S \cup {request.token}) BY <2>2, <3>1, FS_Subset
    <3> QED BY <2>3, <3>1, <3>2
  <2>6. CASE write = None
    <3>1. T = S BY <1>1, <1>3, <2>2, <2>6 DEF Linked
    <3> QED BY <2>1, <2>6, <3>1 DEF PromiseStep, Unseen, Count
  <2>7. CASE write # None
    <3>1. fate # "none" BY <1>1, <2>7 DEF Linked
    <3>2. fate # "asked" => Cardinality(T) = Cardinality(S) BY <2>2
    <3>3. Cardinality(T) \in Cardinality(S) .. Cardinality(S) + IF fate = "asked" THEN 1 ELSE 0
      BY <2>3, <2>4, <2>5, <3>2
    <3> QED BY <2>1, <2>7, <3>1, <3>3 DEF PromiseStep, Doubts, Count
  <2> QED BY <2>6, <2>7
<1> QED BY <1>2, <1>3

\* A request goes out: a read is not seen, a write begins.
LEMMA SentStep ==
    ASSUME ClientInv, request = None, NEW r \in Request, Fresh(inbox, calls, r.token), request' = r,
           NEW c \in Call, c.token = r.token, calls' \in Seq(Call),
           calls' = calls \/ calls' = Append(calls, c)
    PROVE  Count' = Count
<1>1. calls \in Seq(Call) BY DEF ClientInv, TypeOK
<1>2. Strays = StrayTokens(calls, None) /\ Strays' = StrayTokens(calls', r) BY <1>1, StraysAre
<1> QED BY <1>1, <1>2, CalledStrays DEF Count

LEMMA InterfaceStep ==
    ASSUME ClientInv, start \/ refresh \/ stop \/ \E w \in Write : setUserValue(w)
    PROVE  PromiseStep
<1>1. CASE start \/ refresh BY <1>1, UnseenStep DEF start, refresh, service, history
<1>2. CASE stop
  <2>1. write = None => fate = "none" BY DEF ClientInv, Linked
  <2> QED BY <1>2, <2>1, GivenUpStep DEF stop, service
<1>3. ASSUME NEW w \in Write, setUserValue(w) PROVE PromiseStep
  <2>1. /\ TypeOK /\ Linked /\ request = None /\ fate = "none" /\ calls \in Seq(Call)
        /\ owner \in Owner /\ snapshot.rev \in 0 .. MaxRevision
    BY <1>3 DEF ClientInv, setUserValue, canSetUserValue, Linked, TypeOK, Snapshot
  <2>2. nextToken \in Token /\ Fresh(inbox, calls, nextToken)
    BY <1>3, <2>1, NextTokenFresh DEF setUserValue
  <2> DEFINE c == CommitUserTransaction(nextToken, snapshot.rev, w)
             r == [token |-> nextToken, owner |-> owner, kind |-> "commit"]
  <2>3. /\ c \in Call /\ c.token = nextToken /\ r \in Request /\ r.token = nextToken
    BY <2>1, <2>2, CallsTyped DEF CommitUserTransaction, Request
  <2>4. request' = r /\ (calls' = calls \/ calls' = Append(calls, c))
    BY <1>3 DEF setUserValue, send
  <2> HIDE DEF c, r
  <2>5. calls' \in Seq(Call) BY <2>1, <2>3, <2>4, AppendOf
  <2>6. Count' = Count BY <2>1, <2>2, <2>3, <2>4, <2>5, SentStep
  <2> QED BY <1>3, <2>1, <2>6 DEF setUserValue, PromiseStep, Begins
<1> QED BY <1>1, <1>2, <1>3

\* The reply to the write in flight tells what the service did with it.
LEMMA FinishStep ==
    ASSUME ClientInv, handleCommit, finishes(Head(inbox))
    PROVE  PromiseStep
<1> DEFINE m == Head(inbox)
<1>1. /\ TypeOK /\ Linked /\ Coherent(inbox, calls, request, fate)
      /\ calls \in Seq(Call) /\ request \in Request
      /\ inbox \in Seq(Message) /\ inbox # <<>> /\ m.kind = "commit" /\ m.token = request.token
      /\ request # None /\ request.kind = "commit" /\ UNCHANGED <<calls, effects>>
      /\ request' = None /\ fate' = "none" /\ told' = Verdict(m.status)
  BY DEF ClientInv, TypeOK, handleCommit, finishes, answers, receive, Verdict, service
<1>2. 1 \in 1 .. Len(inbox) /\ m = inbox[1] /\ Carrier(m) BY <1>1, TailOf DEF Carrier
<1> HIDE DEF m
<1>3. fate = Verdict(m.status) BY <1>1, <1>2 DEF Coherent, Answered
<1>4. fate # "asked" /\ fate \in {"applied", "refused"} BY <1>3 DEF Verdict
<1>5. StrayTokens(calls, None) = StrayTokens(calls, request) BY <1>1, <1>4, ForgottenStrays
<1>6. Count' = Count BY <1>1, <1>5, StraysAre DEF Count
<1> QED BY <1>1, <1>3, <1>4, <1>6 DEF PromiseStep, Finishes

LEMMA HandlersStep ==
    ASSUME ClientInv, deliveries \/ timeout \/ handleRefreshTimer \/ handleBusDisconnected
    PROVE  PromiseStep
<1>1. TypeOK /\ Linked BY DEF ClientInv
<1>2. CASE handleOwnerChanged
  <2>1. CASE Head(inbox).owner = owner
    BY <1>2, <2>1, UnseenStep DEF handleOwnerChanged, client, service, history
  <2>2. CASE Head(inbox).owner # owner
    BY <1>2, <2>2, GivenUpStep DEF handleOwnerChanged, giveUpWrite, service, history
  <2> QED BY <2>1, <2>2
<1>3. CASE handleInvalidation \/ handleActivation
  BY <1>3, UnseenStep DEF handleInvalidation, handleActivation, service, history
<1>4. CASE handleSnapshot
  <2>1. CASE answers(Head(inbox))
    <3>1. write = None BY <1>1, <1>4, <2>1 DEF handleSnapshot, receive, answers, Linked
    <3> QED BY <1>4, <2>1, <3>1, GivenUpStep DEF handleSnapshot, service, history
  <2>2. CASE ~answers(Head(inbox)) BY <1>4, <2>2, UnseenStep DEF handleSnapshot, service, history
  <2> QED BY <2>1, <2>2
<1>5. CASE handleCommit
  <2>1. CASE finishes(Head(inbox)) BY <1>5, <2>1, FinishStep
  <2>2. CASE ~finishes(Head(inbox)) BY <1>5, <2>2, UnseenStep DEF handleCommit, service, history
  <2> QED BY <2>1, <2>2
<1>6. CASE handleFailure
  <2>1. CASE fails(Head(inbox))
    BY <1>6, <2>1, GivenUpStep DEF handleFailure, fail, giveUpWrite, service, history
  <2>2. CASE ~fails(Head(inbox)) BY <1>6, <2>2, UnseenStep DEF handleFailure, client, service, history
  <2> QED BY <2>1, <2>2
<1>7. CASE timeout BY <1>7, GivenUpStep DEF timeout, fail, giveUpWrite, service, history
<1>8. CASE handleBusDisconnected
  <2>1. CASE transportStarted
    BY <1>8, <2>1, GivenUpStep DEF handleBusDisconnected, giveUpWrite, service, history
  <2>2. CASE ~transportStarted BY <1>8, <2>2, UnseenStep DEF handleBusDisconnected, service, history
  <2> QED BY <2>1, <2>2
<1>9. CASE handleRefreshTimer
  <2>1. CASE requestSnapshotNow /\ request = None
    <3>1. nextToken \in Token /\ Fresh(inbox, calls, nextToken) /\ owner \in Owner
      BY <1>1, <2>1, NextTokenFresh DEF requestSnapshotNow, TypeOK
    <3> DEFINE c == GetSnapshot(nextToken)
               r == [token |-> nextToken, owner |-> owner, kind |-> "snapshot"]
    <3>2. /\ c \in Call /\ c.token = nextToken /\ r \in Request /\ r.token = nextToken
      BY <3>1, CallsTyped DEF GetSnapshot, Request
    <3>3. request' = r /\ (calls' = calls \/ calls' = Append(calls, c))
      BY <2>1 DEF requestSnapshotNow, send
    <3> HIDE DEF c, r
    <3>4. calls' \in Seq(Call) BY <1>1, <3>2, <3>3, AppendOf DEF TypeOK
    <3>5. Count' = Count BY <2>1, <3>1, <3>2, <3>3, <3>4, SentStep
    <3> QED BY <1>9, <3>5 DEF handleRefreshTimer, history, PromiseStep, Unseen
  <2>2. CASE ~(requestSnapshotNow /\ request = None)
    BY <1>9, <2>2, UnseenStep DEF handleRefreshTimer, requestSnapshotNow, history
  <2> QED BY <2>1, <2>2
<1> QED BY <1>2, <1>3, <1>4, <1>5, <1>6, <1>7, <1>8, <1>9 DEF deliveries

LEMMA BusStep ==
    ASSUME ClientInv, resolveOwner \/ activate \/ otherCommit \/ otherActivation \/ reconnect
    PROVE  PromiseStep
BY UnseenStep DEF resolveOwner, activate, otherCommit, otherActivation, reconnect, client, service,
   history

\* What the head of the calls is: the write in flight, not decided and the only
\* call, a stray, or a read.
LEMMA HeadOfCalls ==
    ASSUME ClientInv, calls # <<>>
    PROVE  LET c == Head(calls)
               S == StrayTokens(calls, request)
           IN  /\ c \in Call /\ calls \in Seq(Call) /\ Tail(calls) \in Seq(Call)
               /\ Strays = S /\ IsFiniteSet(S) /\ Cardinality(S) \in Nat
               /\ StrayTokens(Tail(calls), request) = S \ {c.token}
               /\ c.kind = "commit" /\ mine(c) => fate = "asked" /\ S = {} /\ c.token \notin S
               /\ c.kind = "commit" /\ ~mine(c) => c.token \in S
               /\ c.kind = "snapshot" => c.token \notin S
<1> DEFINE c == Head(calls)  S == StrayTokens(calls, request)
<1>1. /\ calls \in Seq(Call) /\ c \in Call /\ Tail(calls) \in Seq(Call) /\ c = calls[1]
      /\ 1 \in 1 .. Len(calls) /\ Coherent(inbox, calls, request, fate)
      /\ c.token \in Token
  BY TailOf, CallFields DEF ClientInv, TypeOK
<1>2. /\ Strays = S /\ IsFiniteSet(S) /\ Cardinality(S) \in Nat
      /\ StrayTokens(Tail(calls), request) = S \ {c.token}
  BY <1>1, StraysAre, StraysFinite, TakenStrays
<1>3. ASSUME c.kind = "commit", mine(c)
      PROVE  fate = "asked" /\ S = {}
  <2>1. request # None /\ calls[1].token = request.token BY <1>1, <1>3 DEF mine
  <2>2. calls[1].kind = request.kind /\ 1 = Len(calls) /\ (request.kind = "commit" => fate = "asked")
    BY <1>1, <2>1 DEF Coherent, Called
  <2>3. \A i \in 1 .. Len(calls) : i = 1
    <3> DEFINE n == Len(calls)
    <3>1. n = 1 BY <2>2
    <3> HIDE DEF n
    <3>2. \A i \in 1 .. n : i = 1 BY <3>1
    <3> QED BY <3>2 DEF n
  <2>4. S = {} BY <2>1, <2>3 DEF StrayTokens
  <2> QED BY <1>1, <1>3, <2>2, <2>4
<1>4. ASSUME c.kind = "commit", ~mine(c)
      PROVE  c.token \in S
  BY <1>1, <1>4 DEF StrayTokens, mine
<1>5. ASSUME c.kind = "snapshot"
      PROVE  c.token \notin S
  <2>1. \A i \in 1 .. Len(calls) : Carrier(calls[i]) BY <1>1, ElementOf, CallFields
  <2>2. \A i \in 1 .. Len(calls) : calls[i].token = c.token => i = 1
    BY <1>1, <2>1 DEF Coherent, Distinct
  <2> QED BY <1>1, <1>5, <2>2 DEF StrayTokens
<1> QED BY <1>1, <1>2, <1>3, <1>4, <1>5

LEMMA SnapshotStep ==
    ASSUME ClientInv, serveSnapshot
    PROVE  PromiseStep
<1>1. /\ calls # <<>> /\ calls' = Tail(calls) /\ Head(calls).kind = "snapshot"
      /\ UNCHANGED <<request, fate, told, effects>>
  BY DEF serveSnapshot, served, client, history
<1>2. StrayTokens(calls', request') = StrayTokens(calls, request) BY <1>1, HeadOfCalls
<1>3. calls' \in Seq(Call) BY <1>1, HeadOfCalls
<1>4. Strays' = Strays BY <1>1, <1>2, <1>3, StraysAre, HeadOfCalls
<1> QED BY <1>1, <1>4 DEF PromiseStep, Unseen, Count

LEMMA CommitStep ==
    ASSUME ClientInv, serveCommit
    PROVE  PromiseStep
<1> DEFINE c == Head(calls)  S == StrayTokens(calls, request)
<1>1. /\ calls # <<>> /\ calls' = Tail(calls) /\ c.kind = "commit" /\ UNCHANGED <<request, told>>
  BY DEF serveCommit, served, client
<1>2. /\ calls' \in Seq(Call) /\ Strays = S /\ IsFiniteSet(S) /\ Cardinality(S) \in Nat
      /\ StrayTokens(calls', request') = S \ {c.token}
  BY <1>1, HeadOfCalls
<1>3. Strays' = S \ {c.token} BY <1>2, StraysAre
<1>4. \E a \in {"applied", "refused"} :
         decide(c, a) /\ effects' \in IF a = "applied" THEN {effects, effects + 1} ELSE {effects}
  BY DEF serveCommit
<1>5. effects \in Nat BY DEF ClientInv, TypeOK
<1>6. CASE mine(c)
  <2>1. fate = "asked" /\ Strays' = Strays BY <1>1, <1>2, <1>3, <1>6, HeadOfCalls
  <2>2. Decides BY <1>1, <1>4, <1>6, <2>1 DEF Decides, Count, decide
  <2> QED BY <2>2 DEF PromiseStep
<1>7. CASE ~mine(c)
  <2>1. c.token \in S BY <1>1, <1>7, HeadOfCalls
  <2> HIDE DEF S
  <2>2. Count' = Count - 1 /\ Count \in Nat /\ Count' \in Nat
    <3>1. IsFiniteSet(S \ {c.token}) /\ Cardinality(S \ {c.token}) = Cardinality(S) - 1
      BY <1>2, <2>1, FS_RemoveElement
    <3>2. Cardinality(S \ {c.token}) \in Nat BY <3>1, FS_CardinalityType
    <3> QED BY <1>2, <1>3, <3>1, <3>2 DEF Count
  <2>3. fate' = fate /\ (effects' = effects \/ effects' = effects + 1) BY <1>4, <1>7 DEF decide
  <2>4. StrayEnds BY <1>1, <1>5, <2>2, <2>3 DEF StrayEnds
  <2> QED BY <2>4 DEF PromiseStep
<1> QED BY <1>6, <1>7

LEMMA DeathStep ==
    ASSUME ClientInv, die
    PROVE  PromiseStep
<1> DEFINE c == Head(calls)  S == StrayTokens(calls, request)
<1>1. calls' = <<>> /\ UNCHANGED <<request, told>> BY DEF die, client
<1>2. /\ effects \in Nat /\ calls \in Seq(Call) /\ calls' \in Seq(Call)
      /\ Strays = S /\ IsFiniteSet(S) /\ Cardinality(S) \in Nat
  BY <1>1, EmptySeq, StraysAre, StraysFinite DEF ClientInv, TypeOK
<1>3. Strays' = {} /\ Count' = 0
  <2>1. StrayTokens(<<>>, request) = {} BY DEF StrayTokens
  <2>2. Strays' = {} BY <1>1, <1>2, <2>1, StraysAre
  <2> QED BY <2>2, FS_EmptySet DEF Count
<1>4. CASE UNCHANGED <<value, effects, fate>>
  <2>1. Count \in Nat BY <1>2 DEF Count
  <2>2. StrayEnds BY <1>1, <1>2, <1>3, <1>4, <2>1 DEF StrayEnds
  <2> QED BY <2>2 DEF PromiseStep
<1>5. CASE ~UNCHANGED <<value, effects, fate>>
  <2>1. /\ calls # <<>> /\ c.kind = "commit" /\ decide(c, "applied") /\ effects' = effects + 1
    BY <1>5 DEF die
  <2>2. CASE mine(c)
    <3>1. fate = "asked" /\ Strays' = Strays BY <1>2, <1>3, <2>1, <2>2, HeadOfCalls
    <3>2. Decides BY <1>1, <2>1, <2>2, <3>1 DEF Decides, Count, decide
    <3> QED BY <3>2 DEF PromiseStep
  <2>3. CASE ~mine(c)
    <3>1. c.token \in S BY <2>1, <2>3, HeadOfCalls
    <3> HIDE DEF S
    <3>2. Count \in Nat \ {0} BY <1>2, <3>1, FS_EmptySet DEF Count
    <3>3. fate' = fate BY <2>1, <2>3 DEF decide
    <3>4. StrayEnds BY <1>1, <1>2, <1>3, <2>1, <3>2, <3>3 DEF StrayEnds
    <3> QED BY <3>4 DEF PromiseStep
  <2> QED BY <2>2, <2>3
<1> QED BY <1>4, <1>5

\* A write takes effect at most once, and what the writer is told of it is final
\* and true, or "uncertain": the client of the code, its transport, the bus and
\* the service implement SettingsWrite, whatever is lost, late, repeated by the
\* user or dies, and for any number of requests, revisions and processes.
THEOREM ClientKeepsPromise == Spec => KeepsPromise
<1>1. Init => Promise!Init
  <2> SUFFICES ASSUME Init PROVE Promise!Init OBVIOUS
  <2>1. write = None /\ told = "nothing" /\ effects = 0 /\ calls = <<>> BY DEF Init
  <2>2. Strays = {} BY <2>1 DEF Strays
  <2>3. Cardinality(Strays) = 0 BY <2>2, FS_EmptySet
  <2> QED BY <2>1, <2>3 DEF Promise!Init
<1>2. ClientInv /\ ClientInv' /\ [Next]_settingsVars => [Promise!Next]_(Promise!writeVars)
  <2> SUFFICES ASSUME ClientInv, ClientInv', [Next]_settingsVars
               PROVE  [Promise!Next]_(Promise!writeVars)
    OBVIOUS
  <2>1. Next => PromiseStep
    BY InterfaceStep, HandlersStep, BusStep, SnapshotStep, CommitStep, DeathStep
       DEF Next, answersOfTheBus
  <2>2. UNCHANGED settingsVars => PromiseStep
    BY UnseenStep DEF settingsVars, client, service, history
  <2>3. Linked /\ Linked' BY DEF ClientInv
  <2> QED BY <2>1, <2>2, <2>3, StepsOfPromise
<1> QED BY <1>1, <1>2, ClientInvariant, PTL DEF Spec, KeepsPromise, Promise!Spec
=============================================================================
