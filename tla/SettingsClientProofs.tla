------------------------ MODULE SettingsClientProofs ------------------------
(***************************************************************************)
(* What a writer of Settings1 may rely on, for any number of processes of  *)
(* the service, revisions and requests: the client of SettingsClient keeps *)
(* the promise of SettingsWrite.  The argument is about tokens: one        *)
(* message at most carries each, so the reply the client takes for its own *)
(* is what the service did with the write that is in flight.               *)
(***************************************************************************)
EXTENDS SettingsClient, SequenceTheorems, FiniteSetTheorems, TLAPS

Carrier(m) == m.kind \in {"snapshot", "commit", "error"}

\* What the client makes of the status of a reply.
Verdict(status) == IF status = "applied" THEN "applied" ELSE "refused"

\* One message at most carries a token, in either direction.
Distinct(q) ==
    \A i, j \in 1 .. Len(q) :
        Carrier(q[i]) /\ Carrier(q[j]) /\ q[i].token = q[j].token => i = j
Apart(q, cs) ==
    \A i \in 1 .. Len(q), j \in 1 .. Len(cs) : Carrier(q[i]) => q[i].token # cs[j].token

\* An answer to the request in flight is of its kind, or an error, and tells
\* what the service did.
Answered(q, r, f) ==
    \A i \in 1 .. Len(q) :
        Carrier(q[i]) /\ r # None /\ q[i].token = r.token =>
            /\ q[i].kind \in {r.kind, "error"}
            /\ q[i].kind = "commit" => f = Verdict(q[i].status)

\* The call of the request in flight is the last one made, and not decided.
Called(cs, r, f) ==
    \A j \in 1 .. Len(cs) :
        r # None /\ cs[j].token = r.token =>
            /\ cs[j].kind = r.kind /\ j = Len(cs)
            /\ r.kind = "commit" => f = "asked"

Coherent(q, cs, r, f) ==
    Distinct(q) /\ Distinct(cs) /\ Apart(q, cs) /\ Answered(q, r, f) /\ Called(cs, r, f)

\* A write is in flight as long as its request is; a client that is Ready has an
\* owner, and a service that is called is there.
Linked ==
    /\ write # None <=> request # None /\ request.kind = "commit"
    /\ write # None <=> fate # "none"
    /\ clientState = "Ready" => owner # NoOwner
    /\ calls # <<>> => serving # NoOwner

ClientInv == TypeOK /\ Linked /\ Coherent(inbox, calls, request, fate)

-----------------------------------------------------------------------------
(* Messages and sequences.                                                  *)

LEMMA MessagesTyped ==
    /\ \A o \in Owner \cup {NoOwner} : OwnerIs(o) \in Message
    /\ \A o \in Owner, r \in 0 .. MaxRevision : Changed(o, r) \in Message
    /\ \A t \in Token, s \in Snapshot : SnapshotReply(t, s) \in Message
    /\ \A t \in Token, s \in Snapshot, a \in {"applied", "conflict", "refused"} :
          CommitReply(t, a, s) \in Message
    /\ \A t \in Token, o \in Owner : Failure(t, o) \in Message
    /\ \A ok \in BOOLEAN : Activation(ok) \in Message
BY DEF Message, OwnerIs, Changed, SnapshotReply, CommitReply, Failure, Activation

LEMMA CallsTyped ==
    /\ \A t \in Token : GetSnapshot(t) \in Call
    /\ \A t \in Token, b \in 0 .. MaxRevision, w \in Write : CommitUserTransaction(t, b, w) \in Call
BY DEF Call, GetSnapshot, CommitUserTransaction

LEMMA MessageFields ==
    ASSUME NEW m \in Message
    PROVE  /\ m.kind \in {"owner", "changed", "snapshot", "commit", "error", "activation"}
           /\ m.kind = "owner" => m.owner \in Owner \cup {NoOwner}
           /\ m.kind = "snapshot" => m.snapshot \in Snapshot
           /\ m.kind = "commit" => /\ m.status \in {"applied", "conflict", "refused"}
                                    /\ m.snapshot \in Snapshot
           /\ m.kind = "activation" => m.ok \in BOOLEAN
           /\ Carrier(m) => m.token \in Token
BY DEF Message, Carrier

LEMMA CallFields ==
    ASSUME NEW c \in Call
    PROVE  /\ c.kind \in {"snapshot", "commit"} /\ c.token \in Token /\ Carrier(c)
           /\ c.kind = "commit" => c.base \in 0 .. MaxRevision /\ c.write \in Write
BY DEF Call, Carrier

LEMMA TailOf ==
    ASSUME NEW S, NEW q \in Seq(S), q # <<>>
    PROVE  /\ Head(q) \in S /\ Tail(q) \in Seq(S) /\ Len(q) \in Nat \ {0} /\ Head(q) = q[1]
           /\ Len(Tail(q)) = Len(q) - 1 /\ \A i \in 1 .. Len(Tail(q)) : Tail(q)[i] = q[i + 1]
BY HeadTailProperties, EmptySeq

LEMMA AppendOf ==
    ASSUME NEW S, NEW q \in Seq(S), NEW m \in S
    PROVE  /\ Append(q, m) \in Seq(S) /\ Len(q) \in Nat /\ Len(Append(q, m)) = Len(q) + 1
           /\ Append(q, m)[Len(q) + 1] = m
           /\ \A i \in 1 .. Len(q) : Append(q, m)[i] = q[i]
OBVIOUS

LEMMA PairOf ==
    ASSUME NEW S, NEW a \in S, NEW b \in S
    PROVE  <<a, b>> \in Seq(S) /\ \A q \in Seq(S) : q \o <<a, b>> = Append(Append(q, a), b)
<1>1. <<a>> \in Seq(S) /\ <<b>> \in Seq(S) OBVIOUS
<1>2. <<a, b>> \in Seq(S) OBVIOUS
<1>3. <<a, b>> = <<a>> \o <<b>>
  <2>1. <<a, b>> = Append(<<a>>, b) OBVIOUS
  <2> QED BY <1>1, <2>1, AppendIsConcat
<1>4. ASSUME NEW q \in Seq(S) PROVE q \o <<a, b>> = Append(Append(q, a), b)
  <2>1. q \o <<a, b>> = (q \o <<a>>) \o <<b>> BY <1>1, <1>3, ConcatAssociative
  <2>2. q \o <<a>> = Append(q, a) /\ Append(q, a) \in Seq(S) BY AppendOf, AppendIsConcat
  <2> QED BY <2>1, <2>2, AppendIsConcat
<1> QED BY <1>2, <1>4

LEMMA ElementOf ==
    ASSUME NEW S, NEW q \in Seq(S)
    PROVE  /\ Len(q) \in Nat /\ DOMAIN q = 1 .. Len(q) /\ \A i \in 1 .. Len(q) : q[i] \in S
BY LenProperties, ElementOfSeq

-----------------------------------------------------------------------------
(* Coherence of the messages under way.                                     *)

\* A message is received.
LEMMA ReceivedCoherent ==
    ASSUME NEW q \in Seq(Message), NEW cs \in Seq(Call), NEW r, NEW f,
           Coherent(q, cs, r, f), q # <<>>
    PROVE  Coherent(Tail(q), cs, r, f)
<1>1. /\ Len(q) \in Nat \ {0} /\ Len(Tail(q)) = Len(q) - 1
      /\ \A i \in 1 .. Len(Tail(q)) : i + 1 \in 1 .. Len(q) /\ Tail(q)[i] = q[i + 1]
  BY TailOf
<1>2. Distinct(Tail(q)) BY <1>1 DEF Coherent, Distinct
<1>3. Apart(Tail(q), cs) BY <1>1 DEF Coherent, Apart
<1>4. Answered(Tail(q), r, f) BY <1>1 DEF Coherent, Answered
<1> QED BY <1>2, <1>3, <1>4 DEF Coherent

\* A message that carries no token is posted.
LEMMA PostedCoherent ==
    ASSUME NEW q \in Seq(Message), NEW cs \in Seq(Call), NEW r, NEW f,
           Coherent(q, cs, r, f), NEW m \in Message, ~Carrier(m)
    PROVE  Coherent(Append(q, m), cs, r, f)
<1>1. /\ Len(q) \in Nat /\ Len(Append(q, m)) = Len(q) + 1
      /\ Append(q, m)[Len(q) + 1] = m
      /\ \A i \in 1 .. Len(q) : Append(q, m)[i] = q[i]
  BY AppendOf
<1>2. \A i \in 1 .. Len(Append(q, m)) :
          Carrier(Append(q, m)[i]) => i \in 1 .. Len(q) /\ Append(q, m)[i] = q[i]
  BY <1>1
<1>3. Distinct(Append(q, m)) BY <1>2 DEF Coherent, Distinct
<1>4. Apart(Append(q, m), cs) BY <1>2 DEF Coherent, Apart
<1>5. Answered(Append(q, m), r, f) BY <1>2 DEF Coherent, Answered
<1> QED BY <1>3, <1>4, <1>5 DEF Coherent

\* Every message to the client is lost.
LEMMA LostCoherent ==
    ASSUME NEW q, NEW cs, NEW r, NEW f, Coherent(q, cs, r, f)
    PROVE  Coherent(<<>>, cs, r, f)
BY DEF Coherent, Distinct, Apart, Answered

\* The request is answered or given up.
LEMMA ForgottenCoherent ==
    ASSUME NEW q, NEW cs, NEW r, NEW f, Coherent(q, cs, r, f), NEW g
    PROVE  Coherent(q, cs, None, g)
BY DEF Coherent, Answered, Called

\* A token that nothing carries.
Fresh(q, cs, t) ==
    /\ \A i \in 1 .. Len(q) : Carrier(q[i]) => q[i].token # t
    /\ \A j \in 1 .. Len(cs) : cs[j].token # t

\* A request goes out.
LEMMA CalledCoherent ==
    ASSUME NEW q \in Seq(Message), NEW cs \in Seq(Call), NEW f, NEW r \in Request, NEW g,
           Coherent(q, cs, None, f), Fresh(q, cs, r.token),
           NEW c \in Call, c.token = r.token, c.kind = r.kind, r.kind = "commit" => g = "asked"
    PROVE  Coherent(q, Append(cs, c), r, g)
<1>1. /\ Len(cs) \in Nat /\ Len(Append(cs, c)) = Len(cs) + 1
      /\ Append(cs, c)[Len(cs) + 1] = c
      /\ \A i \in 1 .. Len(cs) : Append(cs, c)[i] = cs[i] /\ cs[i].token # r.token
      /\ \A i \in 1 .. Len(Append(cs, c)) : i \in 1 .. Len(cs) \/ i = Len(cs) + 1
  BY AppendOf DEF Fresh
<1>2. Distinct(Append(cs, c)) BY <1>1 DEF Coherent, Distinct
<1>3. Apart(q, Append(cs, c)) BY <1>1 DEF Coherent, Apart, Fresh
<1>4. Answered(q, r, g) BY DEF Fresh, Answered
<1>5. Called(Append(cs, c), r, g) BY <1>1 DEF Called
<1> QED BY <1>2, <1>3, <1>4, <1>5 DEF Coherent

\* A request goes to a name that is gone.
LEMMA BouncedCoherent ==
    ASSUME NEW q \in Seq(Message), NEW cs \in Seq(Call), NEW f, NEW r \in Request, NEW g,
           Coherent(q, cs, None, f), Fresh(q, cs, r.token),
           NEW m \in Message, m.kind = "error", m.token = r.token
    PROVE  Coherent(Append(q, m), cs, r, g)
<1>1. /\ Len(q) \in Nat /\ Len(Append(q, m)) = Len(q) + 1
      /\ Append(q, m)[Len(q) + 1] = m
      /\ \A i \in 1 .. Len(q) : Append(q, m)[i] = q[i] /\ (Carrier(q[i]) => q[i].token # r.token)
      /\ \A i \in 1 .. Len(Append(q, m)) : i \in 1 .. Len(q) \/ i = Len(q) + 1
  BY AppendOf DEF Fresh
<1>2. Distinct(Append(q, m)) BY <1>1 DEF Coherent, Distinct
<1>3. Apart(Append(q, m), cs) BY <1>1 DEF Coherent, Apart, Fresh
<1>4. Answered(Append(q, m), r, g) BY <1>1 DEF Answered
<1>5. Called(cs, r, g) BY DEF Called, Fresh
<1> QED BY <1>2, <1>3, <1>4, <1>5 DEF Coherent

\* The service takes a call: whatever it decides, the answer may be lost.
LEMMA TakenCoherent ==
    ASSUME NEW q \in Seq(Message), NEW cs \in Seq(Call), NEW r \in Request \cup {None}, NEW f, NEW g,
           Coherent(q, cs, r, f), cs # <<>>,
           f # g => r # None /\ r.token = Head(cs).token
    PROVE  /\ Coherent(q, Tail(cs), r, g)
           /\ Fresh(q, Tail(cs), Head(cs).token)
<1>1. /\ Len(cs) \in Nat \ {0} /\ Len(Tail(cs)) = Len(cs) - 1 /\ Head(cs) = cs[1]
      /\ 1 \in 1 .. Len(cs)
      /\ \A i \in 1 .. Len(Tail(cs)) :
            i + 1 \in 1 .. Len(cs) /\ i + 1 # 1 /\ Tail(cs)[i] = cs[i + 1]
  BY TailOf
<1>2. \A i \in 1 .. Len(cs) : Carrier(cs[i]) BY ElementOf, CallFields
<1>3. Distinct(Tail(cs)) BY <1>1 DEF Coherent, Distinct
<1>4. Apart(q, Tail(cs)) BY <1>1 DEF Coherent, Apart
<1>5. Fresh(q, Tail(cs), Head(cs).token)
  BY <1>1, <1>2 DEF Coherent, Fresh, Apart, Distinct
<1>6. Answered(q, r, g)
  <2>1. CASE f = g BY <2>1 DEF Coherent
  <2>2. CASE f # g BY <2>2, <1>5 DEF Fresh, Answered
  <2> QED BY <2>1, <2>2
<1>7. Called(Tail(cs), r, g)
  <2>1. CASE f = g
    <3> SUFFICES ASSUME NEW j \in 1 .. Len(Tail(cs)), r # None, Tail(cs)[j].token = r.token
                 PROVE  /\ Tail(cs)[j].kind = r.kind /\ j = Len(Tail(cs))
                        /\ r.kind = "commit" => g = "asked"
      BY DEF Called
    <3>1. cs[j + 1].token = r.token /\ j + 1 \in 1 .. Len(cs) /\ Tail(cs)[j] = cs[j + 1] BY <1>1
    <3>2. /\ cs[j + 1].kind = r.kind /\ j + 1 = Len(cs)
          /\ r.kind = "commit" => f = "asked"
      BY <3>1 DEF Coherent, Called
    <3>3. j = Len(Tail(cs))
      <4> DEFINE n == Len(cs)  l == Len(Tail(cs))
      <4>1. n \in Nat \ {0} /\ l = n - 1 /\ j + 1 = n /\ j \in 1 .. l BY <1>1, <3>2
      <4> HIDE DEF n, l
      <4>2. j \in Nat /\ j = l BY <4>1
      <4> QED BY <4>2 DEF l
    <3> QED BY <2>1, <3>1, <3>2, <3>3
  <2>2. CASE f # g BY <2>2, <1>5 DEF Fresh, Called
  <2> QED BY <2>1, <2>2
<1> QED BY <1>3, <1>4, <1>5, <1>6, <1>7 DEF Coherent

\* An answer is posted.
LEMMA AnsweredCoherent ==
    ASSUME NEW q \in Seq(Message), NEW cs \in Seq(Call), NEW r, NEW f, Coherent(q, cs, r, f),
           NEW m \in Message, Fresh(q, cs, m.token),
           r # None /\ m.token = r.token =>
               m.kind \in {r.kind, "error"} /\ (m.kind = "commit" => f = Verdict(m.status))
    PROVE  Coherent(Append(q, m), cs, r, f)
<1>1. /\ Len(q) \in Nat /\ Len(Append(q, m)) = Len(q) + 1
      /\ Append(q, m)[Len(q) + 1] = m
      /\ \A i \in 1 .. Len(q) : Append(q, m)[i] = q[i] /\ (Carrier(q[i]) => q[i].token # m.token)
      /\ \A i \in 1 .. Len(Append(q, m)) : i \in 1 .. Len(q) \/ i = Len(q) + 1
  BY AppendOf DEF Fresh
<1>2. Distinct(Append(q, m)) BY <1>1 DEF Coherent, Distinct
<1>3. Apart(Append(q, m), cs) BY <1>1 DEF Coherent, Apart, Fresh
<1>4. Answered(Append(q, m), r, f) BY <1>1 DEF Answered, Coherent
<1> QED BY <1>2, <1>3, <1>4 DEF Coherent

-----------------------------------------------------------------------------
(* Type correctness.                                                        *)

ClientTyped ==
    /\ started \in BOOLEAN /\ transportStarted \in BOOLEAN /\ owner \in Owner \cup {NoOwner}
    /\ request \in Request \cup {None} /\ write \in Write \cup {None}
    /\ snapshot \in Snapshot \cup {None}
    /\ dirty \in BOOLEAN /\ timer \in BOOLEAN /\ activating \in BOOLEAN
    /\ clientState \in {"Unavailable", "Authenticating", "Ready", "Degraded"}
BusTyped ==
    /\ starting \in BOOLEAN /\ connected \in BOOLEAN
    /\ resolving \in BOOLEAN /\ launching \in BOOLEAN
    /\ inbox \in Seq(Message) /\ calls \in Seq(Call)
ServiceTyped ==
    /\ serving \in Owner \cup {NoOwner} /\ births \in 0 .. MaxOwner
    /\ rev \in 0 .. MaxRevision /\ value \in BOOLEAN /\ effects \in Nat
    /\ fate \in {"none", "asked", "applied", "refused"}
    /\ told \in {"nothing", "applied", "refused", "uncertain"}

LEMMA ReceivedTyped ==
    ASSUME TypeOK, NEW kind, receive(kind)
    PROVE  /\ inbox # <<>> /\ inbox' = Tail(inbox) /\ inbox' \in Seq(Message)
           /\ Head(inbox) \in Message /\ Head(inbox).kind = kind
BY TailOf DEF TypeOK, receive

LEMMA PostTyped ==
    ASSUME NEW q \in Seq(Message), NEW m \in Message
    PROVE  post(q, m) \in Seq(Message)
BY AppendOf DEF post

LEMMA NextTokenFresh ==
    ASSUME TypeOK, Free # {}
    PROVE  /\ nextToken \in Token /\ Fresh(inbox, calls, nextToken)
<1>1. nextToken \in Free BY DEF nextToken
<1>2. /\ \A i \in 1 .. Len(inbox) : ~carries(inbox[i], nextToken)
      /\ \A j \in 1 .. Len(calls) : ~carries(calls[j], nextToken) /\ Carrier(calls[j])
      /\ nextToken \in Token
  BY <1>1, ElementOf, CallFields DEF Free, InUse, TypeOK
<1> QED BY <1>2 DEF carries, Carrier, Fresh

LEMMA SendTyped ==
    ASSUME TypeOK, NEW c \in Call, owner # NoOwner, send(c)
    PROVE  inbox' \in Seq(Message) /\ calls' \in Seq(Call)
<1>1. c.token \in Token BY CallFields
<1>2. Failure(c.token, owner) \in Message BY <1>1, MessagesTyped DEF TypeOK
<1>3. CASE serving = owner
  <2>1. calls' = Append(calls, c) /\ inbox' = inbox BY <1>3 DEF send
  <2> QED BY <2>1, AppendOf DEF TypeOK
<1>4. CASE serving # owner
  <2>1. calls' = calls /\ inbox' = Append(inbox, Failure(c.token, owner)) BY <1>4 DEF send
  <2> QED BY <2>1, <1>2, AppendOf DEF TypeOK
<1> QED BY <1>3, <1>4

LEMMA GivenUpTyped ==
    ASSUME TypeOK, giveUpWrite
    PROVE  /\ write' \in Write \cup {None}
           /\ fate' \in {"none", "asked", "applied", "refused"}
           /\ told' \in {"nothing", "applied", "refused", "uncertain"}
BY DEF TypeOK, giveUpWrite, history

\* Every call of the client's interface keeps the types.
LEMMA InterfaceTyped ==
    ASSUME TypeOK, Linked, start \/ refresh \/ stop \/ \E w \in Write : setUserValue(w)
    PROVE  TypeOK'
<1>1. CASE start
  <2>P1. ClientTyped'
    BY <1>1
    DEF start, startTransport, requestActivation, service, history, TypeOK, ClientTyped
  <2>P2. BusTyped'
    BY <1>1
    DEF start, startTransport, requestActivation, service, history, TypeOK, BusTyped
  <2>P3. ServiceTyped'
    BY <1>1
    DEF start, startTransport, requestActivation, service, history, TypeOK, ServiceTyped
  <2> QED BY <2>P1, <2>P2, <2>P3 DEF TypeOK, ClientTyped, BusTyped, ServiceTyped
<1>2. CASE refresh
  <2>P1. ClientTyped'
    BY <1>2
    DEF refresh, requestActivationIfReady, requestActivation, service, history, TypeOK, ClientTyped
  <2>P2. BusTyped'
    BY <1>2
    DEF refresh, requestActivationIfReady, requestActivation, service, history, TypeOK, BusTyped
  <2>P3. ServiceTyped'
    BY <1>2
    DEF refresh, requestActivationIfReady, requestActivation, service, history, TypeOK, ServiceTyped
  <2> QED BY <2>P1, <2>P2, <2>P3 DEF TypeOK, ClientTyped, BusTyped, ServiceTyped
<1>3. CASE stop
  <2>1. inbox' \in Seq(Message) BY <1>3, EmptySeq DEF stop
  <2>P1. ClientTyped'
    BY <1>3, <2>1
    DEF stop, service, TypeOK, ClientTyped
  <2>P2. BusTyped'
    BY <1>3, <2>1
    DEF stop, service, TypeOK, BusTyped
  <2>P3. ServiceTyped'
    BY <1>3, <2>1
    DEF stop, service, TypeOK, ServiceTyped
  <2> QED BY <2>P1, <2>P2, <2>P3 DEF TypeOK, ClientTyped, BusTyped, ServiceTyped
<1>4. ASSUME NEW w \in Write, setUserValue(w) PROVE TypeOK'
  <2>1. nextToken \in Token BY <1>4, NextTokenFresh DEF setUserValue
  <2>2. owner \in Owner /\ snapshot.rev \in 0 .. MaxRevision
    BY <1>4 DEF setUserValue, canSetUserValue, Linked, TypeOK, Snapshot
  <2>3. CommitUserTransaction(nextToken, snapshot.rev, w) \in Call BY <2>1, <2>2, CallsTyped
  <2>4. inbox' \in Seq(Message) /\ calls' \in Seq(Call)
    BY <1>4, <2>2, <2>3, SendTyped DEF setUserValue, NoOwner, Owner
  <2>5. request' \in Request BY <1>4, <2>1, <2>2 DEF setUserValue, Request
  <2>P1. ClientTyped'
    BY <1>4, <2>4, <2>5
    DEF setUserValue, busState, TypeOK, ClientTyped
  <2>P2. BusTyped'
    BY <1>4, <2>4, <2>5
    DEF setUserValue, busState, TypeOK, BusTyped
  <2>P3. ServiceTyped'
    BY <1>4, <2>4, <2>5
    DEF setUserValue, busState, TypeOK, ServiceTyped
  <2> QED BY <2>P1, <2>P2, <2>P3 DEF TypeOK, ClientTyped, BusTyped, ServiceTyped
<1> QED BY <1>1, <1>2, <1>3, <1>4

\* So does every handler.
LEMMA HandlersTyped ==
    ASSUME TypeOK, Linked, deliveries \/ timeout \/ handleRefreshTimer \/ handleBusDisconnected
    PROVE  TypeOK'
<1>1. CASE handleOwnerChanged
  <2>1. inbox' \in Seq(Message) /\ Head(inbox).owner \in Owner \cup {NoOwner}
    BY <1>1, ReceivedTyped, MessageFields DEF handleOwnerChanged
  <2>2. CASE Head(inbox).owner = owner
    <3>P1. ClientTyped'
      BY <1>1, <2>1, <2>2
      DEF handleOwnerChanged, client, busState, service, history, TypeOK, ClientTyped
    <3>P2. BusTyped'
      BY <1>1, <2>1, <2>2
      DEF handleOwnerChanged, client, busState, service, history, TypeOK, BusTyped
    <3>P3. ServiceTyped'
      BY <1>1, <2>1, <2>2
      DEF handleOwnerChanged, client, busState, service, history, TypeOK, ServiceTyped
    <3> QED BY <3>P1, <3>P2, <3>P3 DEF TypeOK, ClientTyped, BusTyped, ServiceTyped
  <2>3. CASE Head(inbox).owner # owner
    <3>P1. ClientTyped'
      BY <1>1, <2>1, <2>3, GivenUpTyped
      DEF handleOwnerChanged, busState, service, TypeOK, ClientTyped
    <3>P2. BusTyped'
      BY <1>1, <2>1, <2>3, GivenUpTyped
      DEF handleOwnerChanged, busState, service, TypeOK, BusTyped
    <3>P3. ServiceTyped'
      BY <1>1, <2>1, <2>3, GivenUpTyped
      DEF handleOwnerChanged, busState, service, TypeOK, ServiceTyped
    <3> QED BY <3>P1, <3>P2, <3>P3 DEF TypeOK, ClientTyped, BusTyped, ServiceTyped
  <2> QED BY <2>2, <2>3
<1>2. CASE handleInvalidation
  <2>1. inbox' \in Seq(Message) BY <1>2, ReceivedTyped DEF handleInvalidation
  <2>P1. ClientTyped'
    BY <1>2, <2>1
    DEF handleInvalidation, busState, service, history, TypeOK, ClientTyped
  <2>P2. BusTyped'
    BY <1>2, <2>1
    DEF handleInvalidation, busState, service, history, TypeOK, BusTyped
  <2>P3. ServiceTyped'
    BY <1>2, <2>1
    DEF handleInvalidation, busState, service, history, TypeOK, ServiceTyped
  <2> QED BY <2>P1, <2>P2, <2>P3 DEF TypeOK, ClientTyped, BusTyped, ServiceTyped
<1>3. CASE handleSnapshot
  <2>1. inbox' \in Seq(Message) /\ Head(inbox).snapshot \in Snapshot
    BY <1>3, ReceivedTyped, MessageFields DEF handleSnapshot
  <2>P1. ClientTyped'
    BY <1>3, <2>1
    DEF handleSnapshot, busState, service, history, TypeOK, ClientTyped
  <2>P2. BusTyped'
    BY <1>3, <2>1
    DEF handleSnapshot, busState, service, history, TypeOK, BusTyped
  <2>P3. ServiceTyped'
    BY <1>3, <2>1
    DEF handleSnapshot, busState, service, history, TypeOK, ServiceTyped
  <2> QED BY <2>P1, <2>P2, <2>P3 DEF TypeOK, ClientTyped, BusTyped, ServiceTyped
<1>4. CASE handleCommit
  <2>1. inbox' \in Seq(Message) BY <1>4, ReceivedTyped DEF handleCommit
  <2>P1. ClientTyped'
    BY <1>4, <2>1
    DEF handleCommit, busState, service, history, TypeOK, ClientTyped
  <2>P2. BusTyped'
    BY <1>4, <2>1
    DEF handleCommit, busState, service, history, TypeOK, BusTyped
  <2>P3. ServiceTyped'
    BY <1>4, <2>1
    DEF handleCommit, busState, service, history, TypeOK, ServiceTyped
  <2> QED BY <2>P1, <2>P2, <2>P3 DEF TypeOK, ClientTyped, BusTyped, ServiceTyped
<1>5. CASE handleFailure
  <2>1. inbox' \in Seq(Message) BY <1>5, ReceivedTyped DEF handleFailure
  <2>P1. ClientTyped'
    BY <1>5, <2>1, GivenUpTyped
    DEF handleFailure, fail, client, busState, service, history, TypeOK, ClientTyped
  <2>P2. BusTyped'
    BY <1>5, <2>1, GivenUpTyped
    DEF handleFailure, fail, client, busState, service, history, TypeOK, BusTyped
  <2>P3. ServiceTyped'
    BY <1>5, <2>1, GivenUpTyped
    DEF handleFailure, fail, client, busState, service, history, TypeOK, ServiceTyped
  <2> QED BY <2>P1, <2>P2, <2>P3 DEF TypeOK, ClientTyped, BusTyped, ServiceTyped
<1>6. CASE handleActivation
  <2>1. inbox' \in Seq(Message) /\ Head(inbox).ok \in BOOLEAN
    BY <1>6, ReceivedTyped, MessageFields DEF handleActivation
  <2>P1. ClientTyped'
    BY <1>6, <2>1
    DEF handleActivation, service, history, TypeOK, ClientTyped
  <2>P2. BusTyped'
    BY <1>6, <2>1
    DEF handleActivation, service, history, TypeOK, BusTyped
  <2>P3. ServiceTyped'
    BY <1>6, <2>1
    DEF handleActivation, service, history, TypeOK, ServiceTyped
  <2> QED BY <2>P1, <2>P2, <2>P3 DEF TypeOK, ClientTyped, BusTyped, ServiceTyped
<1>7. CASE timeout
  <2>P1. ClientTyped'
    BY <1>7, GivenUpTyped
    DEF timeout, fail, busState, service, TypeOK, ClientTyped
  <2>P2. BusTyped'
    BY <1>7, GivenUpTyped
    DEF timeout, fail, busState, service, TypeOK, BusTyped
  <2>P3. ServiceTyped'
    BY <1>7, GivenUpTyped
    DEF timeout, fail, busState, service, TypeOK, ServiceTyped
  <2> QED BY <2>P1, <2>P2, <2>P3 DEF TypeOK, ClientTyped, BusTyped, ServiceTyped
<1>8. CASE handleRefreshTimer
  <2>1. CASE requestSnapshotNow /\ request = None
    <3>1. nextToken \in Token /\ owner \in Owner
      BY <2>1, NextTokenFresh DEF requestSnapshotNow, TypeOK
    <3>2. inbox' \in Seq(Message) /\ calls' \in Seq(Call)
      BY <2>1, <3>1, CallsTyped, SendTyped DEF requestSnapshotNow
    <3>3. request' \in Request BY <2>1, <3>1 DEF requestSnapshotNow, Request
    <3>P1. ClientTyped'
      BY <1>8, <2>1, <3>2, <3>3
      DEF handleRefreshTimer, requestSnapshotNow, TypeOK, ClientTyped
    <3>P2. BusTyped'
      BY <1>8, <2>1, <3>2, <3>3
      DEF handleRefreshTimer, requestSnapshotNow, TypeOK, BusTyped
    <3>P3. ServiceTyped'
      BY <1>8, <2>1, <3>2, <3>3
      DEF handleRefreshTimer, requestSnapshotNow, history, TypeOK, ServiceTyped
    <3> QED BY <3>P1, <3>P2, <3>P3 DEF TypeOK, ClientTyped, BusTyped, ServiceTyped
  <2>2. CASE requestSnapshotNow /\ request # None
    <3>P1. ClientTyped'
      BY <1>8, <2>2
      DEF handleRefreshTimer, requestSnapshotNow, TypeOK, ClientTyped
    <3>P2. BusTyped'
      BY <1>8, <2>2
      DEF handleRefreshTimer, requestSnapshotNow, TypeOK, BusTyped
    <3>P3. ServiceTyped'
      BY <1>8, <2>2
      DEF handleRefreshTimer, requestSnapshotNow, history, TypeOK, ServiceTyped
    <3> QED BY <3>P1, <3>P2, <3>P3 DEF TypeOK, ClientTyped, BusTyped, ServiceTyped
  <2>3. CASE ~requestSnapshotNow
    <3>P1. ClientTyped'
      BY <1>8, <2>3
      DEF handleRefreshTimer, requestActivation, TypeOK, ClientTyped
    <3>P2. BusTyped'
      BY <1>8, <2>3
      DEF handleRefreshTimer, requestActivation, TypeOK, BusTyped
    <3>P3. ServiceTyped'
      BY <1>8, <2>3
      DEF handleRefreshTimer, requestActivation, history, TypeOK, ServiceTyped
    <3> QED BY <3>P1, <3>P2, <3>P3 DEF TypeOK, ClientTyped, BusTyped, ServiceTyped
  <2> QED BY <2>1, <2>2, <2>3
<1>9. CASE handleBusDisconnected
  <2>1. inbox' \in Seq(Message) BY <1>9, EmptySeq DEF handleBusDisconnected
  <2>P1. ClientTyped'
    BY <1>9, <2>1, GivenUpTyped
    DEF handleBusDisconnected, service, history, TypeOK, ClientTyped
  <2>P2. BusTyped'
    BY <1>9, <2>1, GivenUpTyped
    DEF handleBusDisconnected, service, history, TypeOK, BusTyped
  <2>P3. ServiceTyped'
    BY <1>9, <2>1, GivenUpTyped
    DEF handleBusDisconnected, service, history, TypeOK, ServiceTyped
  <2> QED BY <2>P1, <2>P2, <2>P3 DEF TypeOK, ClientTyped, BusTyped, ServiceTyped
<1> QED BY <1>1, <1>2, <1>3, <1>4, <1>5, <1>6, <1>7, <1>8, <1>9 DEF deliveries

\* What the service and the bus send is well typed.
LEMMA ServiceRepliesTyped ==
    ASSUME TypeOK, Linked, calls # <<>>
    PROVE  /\ Head(calls) \in Call /\ Tail(calls) \in Seq(Call)
           /\ serving \in Owner /\ SettingsNow \in Snapshot
BY TailOf DEF TypeOK, Linked, NoOwner, Owner, SettingsNow, Snapshot

LEMMA CommitTyped ==
    ASSUME TypeOK, Linked, serveCommit
    PROVE  TypeOK'
<1> DEFINE c == Head(calls)
<1>1. /\ c \in Call /\ calls' = Tail(calls) /\ calls' \in Seq(Call) /\ serving \in Owner
      /\ c.token \in Token /\ c.kind = "commit" /\ c.write \in Write
  BY ServiceRepliesTyped, CallFields DEF serveCommit, served
<1>2. c.write.value \in BOOLEAN BY <1>1, BoundsAssumption DEF UserWrite
<1>3. rev' \in 0 .. MaxRevision /\ value' \in BOOLEAN /\ effects' \in Nat
  BY <1>2, BoundsAssumption DEF serveCommit, saved, TypeOK
<1>4. SettingsNow' \in Snapshot BY <1>1, <1>3 DEF serveCommit, SettingsNow, Snapshot
<1>5. \A a \in {"applied", "conflict", "refused"} : CommitReply(c.token, a, SettingsNow') \in Message
  BY <1>1, <1>4, MessagesTyped
<1>6. rev < MaxRevision => Changed(serving, rev + 1) \in Message
  BY <1>1, MessagesTyped, BoundsAssumption DEF TypeOK
<1>7. inbox' \in Seq(Message)
  <2>1. inbox \in Seq(Message) BY DEF TypeOK
  <2>2. \A q \in Seq(Message), a \in {"applied", "conflict", "refused"} :
            post(q, CommitReply(c.token, a, SettingsNow')) \in Seq(Message)
    BY <1>5, PostTyped
  <2>3. rev < MaxRevision => post(inbox, Changed(serving, rev + 1)) \in Seq(Message)
    BY <1>6, <2>1, PostTyped
  <2> QED BY <2>1, <2>2, <2>3 DEF serveCommit
<1>8. fate' \in {"none", "asked", "applied", "refused"} BY DEF serveCommit, decide, TypeOK
<1>9. ClientTyped' BY DEF serveCommit, client, TypeOK, ClientTyped
<1>10. BusTyped' BY <1>1, <1>7 DEF serveCommit, busState, TypeOK, BusTyped
<1>11. ServiceTyped' BY <1>3, <1>8 DEF serveCommit, TypeOK, ServiceTyped
<1> QED BY <1>9, <1>10, <1>11 DEF TypeOK, ClientTyped, BusTyped, ServiceTyped

\* The errors the bus answers the calls of a dead process with.
Errors(cs, o) == [i \in DOMAIN cs |-> Failure(cs[i].token, o)]

LEMMA ErrorsOf ==
    ASSUME NEW cs \in Seq(Call), NEW o \in Owner
    PROVE  /\ Errors(cs, o) \in Seq(Message) /\ Len(Errors(cs, o)) = Len(cs)
           /\ \A i \in 1 .. Len(cs) : Errors(cs, o)[i] = Failure(cs[i].token, o)
<1>1. Len(cs) \in Nat /\ DOMAIN cs = 1 .. Len(cs) /\ \A i \in 1 .. Len(cs) : cs[i] \in Call
  BY ElementOf
<1>2. \A i \in 1 .. Len(cs) : Failure(cs[i].token, o) \in Message
  BY <1>1, CallFields, MessagesTyped
<1> QED BY <1>1, <1>2 DEF Errors

LEMMA DeathTyped ==
    ASSUME TypeOK, Linked, die
    PROVE  TypeOK'
<1>1. serving \in Owner /\ Errors(calls, serving) \in Seq(Message)
  <2>1. serving \in Owner BY DEF die, TypeOK, NoOwner, Owner
  <2> QED BY <2>1, ErrorsOf DEF TypeOK
<1>2. <<OwnerIs(NoOwner)>> \in Seq(Message) BY MessagesTyped
<1>3. (inbox \o Errors(calls, serving)) \o <<OwnerIs(NoOwner)>> \in Seq(Message)
  BY <1>1, <1>2, ConcatProperties DEF TypeOK
<1>4. inbox' \in Seq(Message) BY <1>3 DEF die, Errors, TypeOK
<1>5. calls' \in Seq(Call) BY EmptySeq DEF die
<1>6. /\ value' \in BOOLEAN /\ effects' \in Nat
      /\ fate' \in {"none", "asked", "applied", "refused"}
  <2>1. CASE UNCHANGED <<value, effects, fate>> BY <2>1 DEF TypeOK
  <2>2. CASE ~UNCHANGED <<value, effects, fate>>
    <3>1. /\ calls # <<>> /\ Head(calls).kind = "commit" /\ effects' = effects + 1
          /\ saved(Head(calls).write) /\ decide(Head(calls), "applied")
      BY <2>2 DEF die
    <3>2. Head(calls).write \in UserWrite
      BY <3>1, ServiceRepliesTyped, CallFields, BoundsAssumption
    <3>3. Head(calls).write.value \in BOOLEAN BY <3>2 DEF UserWrite
    <3> QED BY <3>1, <3>3 DEF saved, decide, TypeOK
  <2> QED BY <2>1, <2>2
<1>7. ClientTyped' BY DEF die, client, TypeOK, ClientTyped
<1>8. BusTyped' BY <1>4, <1>5 DEF die, busState, TypeOK, BusTyped
<1>9. ServiceTyped' BY <1>6, BoundsAssumption DEF die, NoOwner, TypeOK, ServiceTyped
<1> QED BY <1>7, <1>8, <1>9 DEF TypeOK, ClientTyped, BusTyped, ServiceTyped

LEMMA BusTypedSteps ==
    ASSUME TypeOK, Linked,
           serveSnapshot \/ resolveOwner \/ activate \/ otherCommit \/ otherActivation \/ reconnect
    PROVE  TypeOK'
<1>1. CASE serveSnapshot
  <2>1. calls # <<>> /\ calls' = Tail(calls) BY <1>1 DEF serveSnapshot, served
  <2>2. Head(calls).token \in Token BY <2>1, ServiceRepliesTyped, CallFields
  <2>3. SnapshotReply(Head(calls).token, SettingsNow) \in Message
    BY <2>1, <2>2, ServiceRepliesTyped, MessagesTyped
  <2>4. inbox' \in Seq(Message) /\ calls' \in Seq(Call)
    BY <1>1, <2>1, <2>3, ServiceRepliesTyped, PostTyped DEF serveSnapshot, TypeOK
  <2>P1. ClientTyped' BY <1>1, <2>4 DEF serveSnapshot, client, busState, history, TypeOK, ClientTyped
  <2>P2. BusTyped' BY <1>1, <2>4 DEF serveSnapshot, client, busState, history, TypeOK, BusTyped
  <2>P3. ServiceTyped' BY <1>1, <2>4 DEF serveSnapshot, client, busState, history, TypeOK, ServiceTyped
  <2> QED BY <2>P1, <2>P2, <2>P3 DEF TypeOK, ClientTyped, BusTyped, ServiceTyped
<1>2. CASE resolveOwner
  <2>1. OwnerIs(serving) \in Message BY MessagesTyped DEF TypeOK
  <2>2. inbox' \in Seq(Message) BY <1>2, <2>1, AppendOf DEF resolveOwner, TypeOK
  <2>P1. ClientTyped' BY <1>2, <2>2 DEF resolveOwner, client, service, history, TypeOK, ClientTyped
  <2>P2. BusTyped' BY <1>2, <2>2 DEF resolveOwner, client, service, history, TypeOK, BusTyped
  <2>P3. ServiceTyped' BY <1>2, <2>2 DEF resolveOwner, client, service, history, TypeOK, ServiceTyped
  <2> QED BY <2>P1, <2>P2, <2>P3 DEF TypeOK, ClientTyped, BusTyped, ServiceTyped
<1>3. CASE activate
  <2>1. births < MaxOwner => births + 1 \in Owner /\ births + 1 \in 0 .. MaxOwner
    BY BoundsAssumption DEF TypeOK, Owner
  <2>2. births < MaxOwner => <<OwnerIs(births + 1), Activation(TRUE)>> \in Seq(Message)
    <3> SUFFICES ASSUME births < MaxOwner
                 PROVE  <<OwnerIs(births + 1), Activation(TRUE)>> \in Seq(Message)
      OBVIOUS
    <3>1. OwnerIs(births + 1) \in Message /\ Activation(TRUE) \in Message BY <2>1, MessagesTyped
    <3> QED BY <3>1, PairOf
  <2>3. Activation(TRUE) \in Message /\ Activation(FALSE) \in Message BY MessagesTyped
  <2>4. inbox \in Seq(Message) BY DEF TypeOK
  <2>5. /\ births < MaxOwner => inbox \o <<OwnerIs(births + 1), Activation(TRUE)>> \in Seq(Message)
        /\ Append(inbox, Activation(TRUE)) \in Seq(Message)
        /\ Append(inbox, Activation(FALSE)) \in Seq(Message)
    BY <2>2, <2>3, <2>4, ConcatProperties, AppendOf
  <2>6. inbox' \in Seq(Message) BY <1>3, <2>5 DEF activate
  <2>P1. ClientTyped' BY <1>3, <2>1, <2>6 DEF activate, client, history, TypeOK, ClientTyped
  <2>P2. BusTyped' BY <1>3, <2>1, <2>6 DEF activate, client, history, TypeOK, BusTyped
  <2>P3. ServiceTyped' BY <1>3, <2>1, <2>6 DEF activate, client, history, TypeOK, ServiceTyped
  <2> QED BY <2>P1, <2>P2, <2>P3 DEF TypeOK, ClientTyped, BusTyped, ServiceTyped
<1>4. CASE otherCommit
  <2>1. rev + 1 \in 0 .. MaxRevision /\ serving \in Owner
    BY <1>4, BoundsAssumption DEF otherCommit, TypeOK, NoOwner, Owner
  <2>2. inbox' \in Seq(Message) BY <1>4, <2>1, MessagesTyped, PostTyped DEF otherCommit, TypeOK
  <2>P1. ClientTyped' BY <1>4, <2>1, <2>2 DEF otherCommit, client, busState, history, TypeOK, ClientTyped
  <2>P2. BusTyped' BY <1>4, <2>1, <2>2 DEF otherCommit, client, busState, history, TypeOK, BusTyped
  <2>P3. ServiceTyped' BY <1>4, <2>1, <2>2 DEF otherCommit, client, busState, history, TypeOK, ServiceTyped
  <2> QED BY <2>P1, <2>P2, <2>P3 DEF TypeOK, ClientTyped, BusTyped, ServiceTyped
<1>5. CASE otherActivation
  <2>1. births + 1 \in Owner /\ births + 1 \in 0 .. MaxOwner
    BY <1>5, BoundsAssumption DEF otherActivation, TypeOK, Owner
  <2>2. inbox' \in Seq(Message)
    BY <1>5, <2>1, MessagesTyped, PostTyped DEF otherActivation, TypeOK
  <2>P1. ClientTyped' BY <1>5, <2>1, <2>2 DEF otherActivation, client, busState, history, TypeOK, ClientTyped
  <2>P2. BusTyped' BY <1>5, <2>1, <2>2 DEF otherActivation, client, busState, history, TypeOK, BusTyped
  <2>P3. ServiceTyped' BY <1>5, <2>1, <2>2 DEF otherActivation, client, busState, history, TypeOK, ServiceTyped
  <2> QED BY <2>P1, <2>P2, <2>P3 DEF TypeOK, ClientTyped, BusTyped, ServiceTyped
<1>6. CASE reconnect
  <2>P1. ClientTyped' BY <1>6 DEF reconnect, client, service, history, TypeOK, ClientTyped
  <2>P2. BusTyped' BY <1>6 DEF reconnect, client, service, history, TypeOK, BusTyped
  <2>P3. ServiceTyped' BY <1>6 DEF reconnect, client, service, history, TypeOK, ServiceTyped
  <2> QED BY <2>P1, <2>P2, <2>P3 DEF TypeOK, ClientTyped, BusTyped, ServiceTyped
<1> QED BY <1>1, <1>2, <1>3, <1>4, <1>5, <1>6

LEMMA TypeStep ==
    ASSUME TypeOK, Linked, Next
    PROVE  TypeOK'
BY InterfaceTyped, HandlersTyped, BusTypedSteps, CommitTyped, DeathTyped DEF Next, answersOfTheBus

-----------------------------------------------------------------------------
(* A write is in flight as long as its request is.                          *)

LEMMA LinkedStep ==
    ASSUME ClientInv, Next
    PROVE  Linked'
<1>1. TypeOK /\ Linked BY DEF ClientInv
<1>2. CASE start \/ refresh \/ reconnect \/ handleInvalidation \/ handleActivation \/ resolveOwner
  BY <1>1, <1>2 DEF start, startTransport, refresh, reconnect, handleInvalidation, client,
     handleActivation, resolveOwner, Linked, service, history
<1>3. CASE stop \/ handleBusDisconnected
  BY <1>1, <1>3 DEF stop, handleBusDisconnected, giveUpWrite, Linked, service, history
<1>4. ASSUME NEW w \in Write, setUserValue(w) PROVE Linked'
  <2>1. owner # NoOwner /\ write' # None /\ request' # None /\ request'.kind = "commit"
    BY <1>1, <1>4, NoneAssumption, NextTokenFresh
       DEF setUserValue, canSetUserValue, Linked, TypeOK, Request, NoOwner, Owner
  <2>2. calls' # <<>> => serving' # NoOwner BY <1>1, <1>4, <2>1 DEF setUserValue, send, Linked
  <2> QED BY <1>1, <1>4, <2>1, <2>2 DEF setUserValue, Linked
<1>5. CASE handleOwnerChanged
  BY <1>1, <1>5 DEF handleOwnerChanged, giveUpWrite, client, Linked, service, history
<1>6. CASE handleSnapshot
  BY <1>1, <1>6 DEF handleSnapshot, receive, answers, Linked, TypeOK, Request, Owner, NoOwner,
     service, history
<1>7. CASE handleCommit
  BY <1>1, <1>7 DEF handleCommit, finishes, answers, Linked, TypeOK, service, history
<1>8. CASE handleFailure \/ timeout
  BY <1>1, <1>8 DEF handleFailure, timeout, fail, giveUpWrite, client, Linked, service, history
<1>9. CASE handleRefreshTimer
  <2>1. CASE requestSnapshotNow /\ request = None
    <3>1. request' # None /\ request'.kind = "snapshot" /\ owner # NoOwner
      BY <1>1, <2>1, NoneAssumption, NextTokenFresh
         DEF requestSnapshotNow, TypeOK, Request, NoOwner, Owner
    <3>2. calls' # <<>> => serving' # NoOwner
      BY <1>1, <1>9, <2>1, <3>1 DEF handleRefreshTimer, requestSnapshotNow, send, Linked
    <3> QED BY <1>1, <1>9, <2>1, <3>1, <3>2 DEF handleRefreshTimer, Linked, history
  <2>2. CASE ~(requestSnapshotNow /\ request = None)
    BY <1>1, <1>9, <2>2 DEF handleRefreshTimer, requestSnapshotNow, Linked, history
  <2> QED BY <2>1, <2>2
<1>10. CASE serveSnapshot
  BY <1>1, <1>10 DEF serveSnapshot, served, client, Linked, history
<1>11. ASSUME NEW c, calls # <<>>, c = Head(calls), c.kind = "commit", mine(c)
       PROVE  fate = "asked" /\ fate # "none" /\ write # None /\ Len(calls) = 1
  <2>1. Len(calls) \in Nat \ {0} /\ c = calls[1] BY <1>1, <1>11, TailOf DEF TypeOK
  <2>2. 1 \in 1 .. Len(calls) /\ request # None /\ calls[1].token = request.token
    BY <1>11, <2>1 DEF mine
  <2>3. calls[1].kind = request.kind /\ 1 = Len(calls) /\ (request.kind = "commit" => fate = "asked")
    BY <2>2 DEF ClientInv, Coherent, Called
  <2>4. request.kind = "commit" BY <1>11, <2>1, <2>3
  <2> QED BY <1>1, <2>2, <2>3, <2>4 DEF Linked
<1>12. CASE serveCommit
  <2>1. fate' # "none" <=> fate # "none"
    BY <1>11, <1>12 DEF serveCommit, served, decide
  <2> QED BY <1>1, <1>12, <2>1 DEF serveCommit, served, client, Linked
<1>13. CASE die
  <2>1. fate' # "none" <=> fate # "none" BY <1>11, <1>13 DEF die, decide
  <2> QED BY <1>1, <1>13, <2>1 DEF die, client, Linked
<1>14. CASE activate \/ otherCommit \/ otherActivation
  <2>1. serving # NoOwner => serving' # NoOwner
    BY <1>1, <1>14 DEF activate, otherCommit, otherActivation, TypeOK, NoOwner
  <2> QED BY <1>1, <1>14, <2>1
          DEF activate, otherCommit, otherActivation, client, Linked, history
<1> QED BY <1>2, <1>3, <1>4, <1>5, <1>6, <1>7, <1>8, <1>9, <1>10, <1>12, <1>13, <1>14
        DEF Next, deliveries, answersOfTheBus

-----------------------------------------------------------------------------
(* The steps keep the messages coherent.                                    *)

LEMMA PostCoherent ==
    ASSUME NEW q \in Seq(Message), NEW cs \in Seq(Call), NEW r, NEW f, NEW t,
           NEW m \in Message, ~Carrier(m)
    PROVE  /\ post(q, m) \in Seq(Message)
           /\ Coherent(q, cs, r, f) => Coherent(post(q, m), cs, r, f)
           /\ Fresh(q, cs, t) => Fresh(post(q, m), cs, t)
<1>1. CASE transportStarted
  <2>1. post(q, m) = Append(q, m) BY <1>1 DEF post
  <2>2. /\ Append(q, m) \in Seq(Message)
        /\ \A i \in 1 .. Len(Append(q, m)) :
              Carrier(Append(q, m)[i]) => i \in 1 .. Len(q) /\ Append(q, m)[i] = q[i]
    BY AppendOf
  <2> QED BY <2>1, <2>2, PostedCoherent DEF Fresh
<1>2. CASE ~transportStarted BY <1>2 DEF post
<1> QED BY <1>1, <1>2

LEMMA NoTokens ==
    /\ \A o : ~Carrier(OwnerIs(o))
    /\ \A o, r : ~Carrier(Changed(o, r))
    /\ \A ok : ~Carrier(Activation(ok))
BY DEF Carrier, OwnerIs, Changed, Activation

LEMMA InterfaceCoherent ==
    ASSUME ClientInv, start \/ refresh \/ stop \/ \E w \in Write : setUserValue(w)
    PROVE  Coherent(inbox', calls', request', fate')
<1>1. TypeOK /\ Linked /\ Coherent(inbox, calls, request, fate) BY DEF ClientInv
<1>2. CASE start \/ refresh BY <1>1, <1>2 DEF start, refresh, service, history
<1>3. CASE stop
  <2>1. inbox' = <<>> /\ calls' = calls /\ request' = None BY <1>3 DEF stop, service
  <2>2. Coherent(<<>>, calls, request, fate) BY <1>1, LostCoherent
  <2>3. Coherent(<<>>, calls, None, fate') BY <2>2, ForgottenCoherent
  <2> QED BY <2>1, <2>3
<1>4. ASSUME NEW w \in Write, setUserValue(w) PROVE Coherent(inbox', calls', request', fate')
  <2>1. nextToken \in Token /\ Fresh(inbox, calls, nextToken) BY <1>1, <1>4, NextTokenFresh DEF setUserValue
  <2>2. /\ owner \in Owner /\ snapshot.rev \in 0 .. MaxRevision /\ request = None
        /\ inbox \in Seq(Message) /\ calls \in Seq(Call)
    BY <1>1, <1>4 DEF setUserValue, canSetUserValue, Linked, TypeOK, Snapshot
  <2> DEFINE c == CommitUserTransaction(nextToken, snapshot.rev, w)
             r == [token |-> nextToken, owner |-> owner, kind |-> "commit"]
             m == Failure(nextToken, owner)
  <2>3. /\ c \in Call /\ c.token = nextToken /\ c.kind = "commit"
        /\ m \in Message /\ m.token = nextToken /\ m.kind = "error"
        /\ r \in Request /\ r.token = nextToken /\ r.kind = "commit"
    BY <2>1, <2>2, CallsTyped, MessagesTyped DEF CommitUserTransaction, Failure, Request
  <2>4. /\ request' = r /\ fate' = "asked"
        /\ \/ calls' = Append(calls, c) /\ inbox' = inbox
           \/ calls' = calls /\ inbox' = Append(inbox, m)
    BY <1>4, <2>3 DEF setUserValue, send
  <2>5. Coherent(inbox, calls, None, fate) BY <1>1, <2>2
  <2> HIDE DEF c, r, m
  <2>6. Coherent(inbox, Append(calls, c), r, "asked") BY <2>1, <2>2, <2>3, <2>5, CalledCoherent
  <2>7. Coherent(Append(inbox, m), calls, r, "asked") BY <2>1, <2>2, <2>3, <2>5, BouncedCoherent
  <2> QED BY <2>4, <2>6, <2>7
<1> QED BY <1>2, <1>3, <1>4

LEMMA HandlersCoherent ==
    ASSUME ClientInv, deliveries \/ timeout \/ handleRefreshTimer \/ handleBusDisconnected
    PROVE  Coherent(inbox', calls', request', fate')
<1>1. /\ TypeOK /\ Linked /\ Coherent(inbox, calls, request, fate)
      /\ inbox \in Seq(Message) /\ calls \in Seq(Call)
  BY DEF ClientInv, TypeOK
<1>2. CASE deliveries
  <2>1. /\ inbox # <<>> /\ inbox' = Tail(inbox) /\ calls' = calls
        /\ request' = None \/ UNCHANGED <<request, fate>>
    BY <1>2 DEF deliveries, handleOwnerChanged, handleInvalidation, handleSnapshot, handleCommit,
       handleFailure, handleActivation, receive, fail, client, service, history
  <2>2. Coherent(Tail(inbox), calls, request, fate) BY <1>1, <2>1, ReceivedCoherent
  <2>3. Coherent(Tail(inbox), calls, None, fate') BY <2>2, ForgottenCoherent
  <2> QED BY <2>1, <2>2, <2>3
<1>3. CASE timeout
  <2>1. inbox' = inbox /\ calls' = calls /\ request' = None BY <1>3 DEF timeout, fail, service
  <2> QED BY <1>1, <2>1, ForgottenCoherent
<1>4. CASE handleBusDisconnected
  <2>1. /\ inbox' = <<>> /\ calls' = calls
        /\ request' = None \/ UNCHANGED <<request, fate>>
    BY <1>4 DEF handleBusDisconnected, service, history
  <2>2. Coherent(<<>>, calls, request, fate) BY <1>1, LostCoherent
  <2>3. Coherent(<<>>, calls, None, fate') BY <2>2, ForgottenCoherent
  <2> QED BY <2>1, <2>2, <2>3
<1>5. CASE handleRefreshTimer
  <2>1. fate' = fate BY <1>5 DEF handleRefreshTimer, history
  <2>2. CASE requestSnapshotNow /\ request = None
    <3>1. nextToken \in Token /\ Fresh(inbox, calls, nextToken)
      BY <1>1, <2>2, NextTokenFresh DEF requestSnapshotNow
    <3>2. owner \in Owner BY <1>1, <2>2 DEF requestSnapshotNow, TypeOK
    <3> DEFINE c == GetSnapshot(nextToken)
               r == [token |-> nextToken, owner |-> owner, kind |-> "snapshot"]
               m == Failure(nextToken, owner)
    <3>3. /\ c \in Call /\ c.token = nextToken /\ c.kind = "snapshot"
          /\ m \in Message /\ m.token = nextToken /\ m.kind = "error"
          /\ r \in Request /\ r.token = nextToken /\ r.kind = "snapshot"
      BY <3>1, <3>2, CallsTyped, MessagesTyped DEF GetSnapshot, Failure, Request
    <3>4. /\ request' = r
          /\ \/ calls' = Append(calls, c) /\ inbox' = inbox
             \/ calls' = calls /\ inbox' = Append(inbox, m)
      BY <2>2, <3>3 DEF requestSnapshotNow, send
    <3>5. Coherent(inbox, calls, None, fate) BY <1>1, <2>2
    <3> HIDE DEF c, r, m
    <3>6. Coherent(inbox, Append(calls, c), r, fate) BY <1>1, <3>1, <3>3, <3>5, CalledCoherent
    <3>7. Coherent(Append(inbox, m), calls, r, fate) BY <1>1, <3>1, <3>3, <3>5, BouncedCoherent
    <3> QED BY <2>1, <3>4, <3>6, <3>7
  <2>3. CASE ~(requestSnapshotNow /\ request = None)
    BY <1>1, <1>5, <2>1, <2>3 DEF handleRefreshTimer, requestSnapshotNow
  <2> QED BY <2>2, <2>3
<1> QED BY <1>2, <1>3, <1>4, <1>5

LEMMA BusCoherent ==
    ASSUME ClientInv, resolveOwner \/ activate \/ otherCommit \/ otherActivation \/ reconnect
    PROVE  Coherent(inbox', calls', request', fate')
<1>1. /\ TypeOK /\ Linked /\ Coherent(inbox, calls, request, fate)
      /\ inbox \in Seq(Message) /\ calls \in Seq(Call)
  BY DEF ClientInv, TypeOK
<1>2. UNCHANGED <<calls, request, fate>>
  BY DEF resolveOwner, activate, otherCommit, otherActivation, reconnect, client, service, history
<1>3. ASSUME NEW m \in Message, ~Carrier(m), inbox' = Append(inbox, m)
      PROVE  Coherent(inbox', calls', request', fate')
  BY <1>1, <1>2, <1>3, PostedCoherent
<1>4. ASSUME NEW m \in Message, ~Carrier(m), inbox' = post(inbox, m)
      PROVE  Coherent(inbox', calls', request', fate')
  BY <1>1, <1>2, <1>4, PostCoherent
<1>5. CASE resolveOwner
  <2>1. OwnerIs(serving) \in Message BY <1>1, MessagesTyped DEF TypeOK
  <2> QED BY <1>3, <1>5, <2>1, NoTokens DEF resolveOwner
<1>6. CASE activate
  <2>1. CASE inbox' = inbox \o <<OwnerIs(births + 1), Activation(TRUE)>> /\ births < MaxOwner
    <3>1. OwnerIs(births + 1) \in Message /\ Activation(TRUE) \in Message
      <4>1. births + 1 \in Owner BY <1>1, <2>1, BoundsAssumption DEF TypeOK, Owner
      <4> QED BY <4>1, MessagesTyped
    <3>2. inbox' = Append(Append(inbox, OwnerIs(births + 1)), Activation(TRUE))
      BY <1>1, <2>1, <3>1, PairOf
    <3>3. /\ Append(inbox, OwnerIs(births + 1)) \in Seq(Message)
          /\ Coherent(Append(inbox, OwnerIs(births + 1)), calls, request, fate)
      BY <1>1, <3>1, PostedCoherent, NoTokens, AppendOf
    <3>4. Coherent(Append(Append(inbox, OwnerIs(births + 1)), Activation(TRUE)), calls, request, fate)
      BY <1>1, <3>1, <3>3, PostedCoherent, NoTokens
    <3> QED BY <1>2, <3>2, <3>4
  <2>2. CASE \E ok \in BOOLEAN : inbox' = Append(inbox, Activation(ok))
    BY <1>3, <2>2, MessagesTyped, NoTokens
  <2> QED BY <1>6, <2>1, <2>2 DEF activate
<1>7. CASE otherCommit
  <2>1. Changed(serving, rev + 1) \in Message
    BY <1>1, <1>7, MessagesTyped, BoundsAssumption DEF otherCommit, TypeOK
  <2> QED BY <1>4, <1>7, <2>1, NoTokens DEF otherCommit
<1>8. CASE otherActivation
  <2>1. OwnerIs(births + 1) \in Message
    BY <1>1, <1>8, MessagesTyped, BoundsAssumption DEF otherActivation, TypeOK, Owner
  <2> QED BY <1>4, <1>8, <2>1, NoTokens DEF otherActivation
<1>9. CASE reconnect BY <1>1, <1>2, <1>9 DEF reconnect
<1> QED BY <1>5, <1>6, <1>7, <1>8, <1>9

\* The service serves a snapshot.
LEMMA SnapshotCoherent ==
    ASSUME ClientInv, serveSnapshot
    PROVE  Coherent(inbox', calls', request', fate')
<1>1. /\ TypeOK /\ Linked /\ Coherent(inbox, calls, request, fate)
      /\ inbox \in Seq(Message) /\ calls \in Seq(Call) /\ request \in Request \cup {None}
      /\ calls # <<>> /\ calls' = Tail(calls) /\ UNCHANGED <<request, fate>>
  BY DEF ClientInv, TypeOK, serveSnapshot, served, client, history
<1> DEFINE t == Head(calls).token  m == SnapshotReply(t, SettingsNow)
<1>2. /\ Tail(calls) \in Seq(Call) /\ m \in Message /\ m.token = t /\ m.kind = "snapshot"
      /\ inbox' = post(inbox, m)
  BY <1>1, ServiceRepliesTyped, CallFields, MessagesTyped DEF SnapshotReply, serveSnapshot
<1>3. Coherent(inbox, Tail(calls), request, fate) /\ Fresh(inbox, Tail(calls), t)
  BY <1>1, TakenCoherent
<1>4. request # None /\ t = request.token => request.kind = "snapshot"
  <2>1. 1 \in 1 .. Len(calls) /\ Head(calls) = calls[1] BY <1>1, TailOf
  <2>2. request # None /\ calls[1].token = request.token => calls[1].kind = request.kind
    BY <1>1, <2>1 DEF Coherent, Called
  <2> QED BY <2>1, <2>2 DEF serveSnapshot
<1> HIDE DEF t, m
<1>5. Coherent(Append(inbox, m), Tail(calls), request, fate)
  BY <1>1, <1>2, <1>3, <1>4, AnsweredCoherent
<1> QED BY <1>1, <1>2, <1>3, <1>5 DEF post

\* The service decides on a commit, and tells.
LEMMA CommitCoherent ==
    ASSUME ClientInv, serveCommit
    PROVE  Coherent(inbox', calls', request', fate')
<1>1. /\ TypeOK /\ Linked /\ TypeOK' /\ Coherent(inbox, calls, request, fate)
      /\ inbox \in Seq(Message) /\ calls \in Seq(Call) /\ request \in Request \cup {None}
      /\ calls # <<>> /\ calls' = Tail(calls) /\ request' = request
  BY CommitTyped DEF ClientInv, TypeOK, serveCommit, served, client
<1> DEFINE c == Head(calls)  reply(a) == CommitReply(c.token, a, SettingsNow')
<1>2. /\ Tail(calls) \in Seq(Call) /\ c.token \in Token /\ serving \in Owner /\ c.kind = "commit"
      /\ SettingsNow' \in Snapshot
  <2>1. serving' = serving BY DEF serveCommit
  <2> QED BY <1>1, <2>1, ServiceRepliesTyped, CallFields DEF serveCommit, SettingsNow, Snapshot, TypeOK
<1>3. PICK a \in {"applied", "conflict", "refused"}, q \in {inbox, post(inbox, Changed(serving, rev + 1))} :
         /\ inbox' = post(q, reply(a))
         /\ decide(c, Verdict(a))
         /\ q # inbox => rev < MaxRevision
  BY DEF serveCommit, Verdict, post
<1>4. /\ fate' # fate => request # None /\ request.token = c.token
      /\ request # None /\ request.token = c.token => fate' = Verdict(a)
  BY <1>3 DEF decide, mine
<1>5. Coherent(inbox, Tail(calls), request, fate') /\ Fresh(inbox, Tail(calls), c.token)
  BY <1>1, <1>4, TakenCoherent
<1>6. /\ q \in Seq(Message) /\ Coherent(q, Tail(calls), request, fate')
      /\ Fresh(q, Tail(calls), c.token)
  <2>1. CASE q = inbox BY <1>1, <1>5, <2>1
  <2>2. CASE q # inbox
    <3>1. rev + 1 \in 0 .. MaxRevision BY <1>1, <1>3, <2>2, BoundsAssumption DEF TypeOK
    <3>2. Changed(serving, rev + 1) \in Message /\ ~Carrier(Changed(serving, rev + 1))
      BY <1>2, <3>1, MessagesTyped, NoTokens
    <3>3. q = post(inbox, Changed(serving, rev + 1)) BY <1>3, <2>2
    <3> QED BY <1>1, <1>2, <1>5, <3>2, <3>3, PostCoherent
  <2> QED BY <2>1, <2>2
<1>7. /\ reply(a) \in Message /\ reply(a).token = c.token /\ reply(a).kind = "commit"
      /\ reply(a).status = a
  BY <1>2, MessagesTyped DEF CommitReply
<1>8. request # None /\ c.token = request.token => request.kind = "commit"
  <2>1. 1 \in 1 .. Len(calls) /\ c = calls[1] BY <1>1, TailOf
  <2>2. request # None /\ calls[1].token = request.token => calls[1].kind = request.kind
    BY <1>1, <2>1 DEF Coherent, Called
  <2> QED BY <1>2, <2>1, <2>2
<1> HIDE DEF c, reply
<1>9. Coherent(Append(q, reply(a)), Tail(calls), request, fate')
  BY <1>2, <1>4, <1>6, <1>7, <1>8, AnsweredCoherent
<1> QED BY <1>1, <1>3, <1>6, <1>9 DEF post

\* The process dies, and the bus answers its calls.
LEMMA DeathCoherent ==
    ASSUME ClientInv, die
    PROVE  Coherent(inbox', calls', request', fate')
<1>1. /\ TypeOK /\ Linked /\ Coherent(inbox, calls, request, fate)
      /\ inbox \in Seq(Message) /\ calls \in Seq(Call) /\ request \in Request \cup {None}
      /\ calls' = <<>> /\ request' = request /\ serving \in Owner
  BY DEF ClientInv, TypeOK, die, client, NoOwner, Owner
<1> DEFINE e == Errors(calls, serving)  q == inbox \o e
<1>2. /\ e \in Seq(Message) /\ Len(e) = Len(calls) /\ Len(calls) \in Nat /\ Len(inbox) \in Nat
      /\ \A i \in 1 .. Len(calls) : e[i].kind = "error" /\ e[i].token = calls[i].token
      /\ \A i \in 1 .. Len(calls) : Carrier(calls[i])
  <2>1. /\ e \in Seq(Message) /\ Len(e) = Len(calls) /\ Len(calls) \in Nat /\ Len(inbox) \in Nat
        /\ \A i \in 1 .. Len(calls) : e[i] = Failure(calls[i].token, serving) /\ calls[i] \in Call
    BY <1>1, ErrorsOf, ElementOf
  <2> HIDE DEF e
  <2>2. \A i \in 1 .. Len(calls) : e[i].kind = "error" /\ e[i].token = calls[i].token
    <3> TAKE i \in 1 .. Len(calls)
    <3>1. e[i] = [kind |-> "error", token |-> calls[i].token, owner |-> serving] BY <2>1 DEF Failure
    <3> QED BY <3>1
  <2>3. \A i \in 1 .. Len(calls) : Carrier(calls[i]) BY <2>1, CallFields
  <2> QED BY <2>1, <2>2, <2>3
<1>3. /\ q \in Seq(Message) /\ Len(q) = Len(inbox) + Len(calls)
      /\ \A i \in 1 .. Len(q) :
            /\ i <= Len(inbox) => i \in 1 .. Len(inbox) /\ q[i] = inbox[i]
            /\ ~(i <= Len(inbox)) =>
                  /\ i - Len(inbox) \in 1 .. Len(calls)
                  /\ q[i].kind = "error" /\ q[i].token = calls[i - Len(inbox)].token
  <2> HIDE DEF e
  <2>1. /\ q \in Seq(Message) /\ Len(q) = Len(inbox) + Len(e)
        /\ \A i \in 1 .. Len(inbox) + Len(e) :
              q[i] = IF i <= Len(inbox) THEN inbox[i] ELSE e[i - Len(inbox)]
    BY <1>1, <1>2, ConcatProperties
  <2> DEFINE n == Len(inbox)  k == Len(calls)
  <2>2. n \in Nat /\ k \in Nat /\ Len(e) = k BY <1>2
  <2> HIDE DEF q
  <2>3. \A i \in 1 .. n + k : (i <= n => i \in 1 .. n) /\ (~(i <= n) => i - n \in 1 .. k)
    <3> HIDE DEF n, k
    <3> QED BY <2>2
  <2> QED BY <1>2, <2>1, <2>2, <2>3
<1>4. fate' # fate => request # None /\ request.token = Head(calls).token /\ calls # <<>>
  BY DEF die, decide, mine
<1> HIDE DEF e, q
<1>5. Distinct(q)
  <2> SUFFICES ASSUME NEW i \in 1 .. Len(q), NEW j \in 1 .. Len(q),
                      Carrier(q[i]), Carrier(q[j]), q[i].token = q[j].token
               PROVE  i = j
    BY DEF Distinct
  <2> DEFINE n == Len(inbox)
  <2>1. CASE i <= n /\ j <= n
    <3>1. /\ i \in 1 .. n /\ j \in 1 .. n /\ Carrier(inbox[i]) /\ Carrier(inbox[j])
          /\ inbox[i].token = inbox[j].token
      BY <1>3, <2>1
    <3> QED BY <1>1, <3>1 DEF Coherent, Distinct
  <2>2. CASE i <= n /\ ~(j <= n)
    <3>1. /\ i \in 1 .. n /\ Carrier(inbox[i]) /\ j - n \in 1 .. Len(calls)
          /\ inbox[i].token = calls[j - n].token
      BY <1>3, <2>2
    <3> QED BY <1>1, <3>1 DEF Coherent, Apart
  <2>3. CASE ~(i <= n) /\ j <= n
    <3>1. /\ j \in 1 .. n /\ Carrier(inbox[j]) /\ i - n \in 1 .. Len(calls)
          /\ inbox[j].token = calls[i - n].token
      BY <1>3, <2>3
    <3> QED BY <1>1, <3>1 DEF Coherent, Apart
  <2>4. CASE ~(i <= n) /\ ~(j <= n)
    <3>1. /\ i - n \in 1 .. Len(calls) /\ j - n \in 1 .. Len(calls)
          /\ calls[i - n].token = calls[j - n].token
      BY <1>3, <2>4
    <3>2. i - n = j - n BY <1>1, <1>2, <3>1 DEF Coherent, Distinct
    <3>3. n \in Nat /\ i \in Int /\ j \in Int
      <4> DEFINE l == Len(q)
      <4>1. l \in Nat /\ i \in 1 .. l /\ j \in 1 .. l /\ n \in Nat BY <1>2, <1>3
      <4> HIDE DEF l, n
      <4> QED BY <4>1
    <3> HIDE DEF n
    <3> QED BY <3>2, <3>3
  <2> QED BY <2>1, <2>2, <2>3, <2>4
<1>6. Apart(q, <<>>) /\ Called(<<>>, request, fate') /\ Distinct(<<>>) BY DEF Apart, Called, Distinct
<1>7. Answered(inbox, request, fate')
  <2>1. CASE fate' = fate BY <1>1, <2>1 DEF Coherent
  <2>2. CASE fate' # fate
    <3>1. 1 \in 1 .. Len(calls) /\ calls[1].token = request.token BY <1>1, <1>4, <2>2, TailOf
    <3> QED BY <1>1, <3>1 DEF Coherent, Apart, Answered
  <2> QED BY <2>1, <2>2
<1>8. Answered(q, request, fate')
  BY <1>2, <1>3, <1>7 DEF Answered
<1>9. Coherent(q, <<>>, request, fate') BY <1>5, <1>6, <1>8 DEF Coherent
<1>10. /\ OwnerIs(NoOwner) \in Message /\ ~Carrier(OwnerIs(NoOwner))
       /\ <<>> \in Seq(Call)
  BY MessagesTyped, NoTokens, EmptySeq
<1>11. Coherent(Append(q, OwnerIs(NoOwner)), <<>>, request, fate')
  BY <1>3, <1>9, <1>10, PostedCoherent
<1>12. Append(q, OwnerIs(NoOwner)) = q \o <<OwnerIs(NoOwner)>>
  BY <1>3, <1>10, AppendIsConcat
<1>13. inbox' = IF transportStarted THEN q \o <<OwnerIs(NoOwner)>> ELSE inbox
  BY DEF die, q, e, Errors
<1>14. Coherent(inbox, <<>>, request, fate')
  BY <1>1, <1>6, <1>7 DEF Coherent, Apart
<1> QED BY <1>1, <1>11, <1>12, <1>13, <1>14

LEMMA CoherentStep ==
    ASSUME ClientInv, Next
    PROVE  Coherent(inbox', calls', request', fate')
BY InterfaceCoherent, HandlersCoherent, BusCoherent, SnapshotCoherent, CommitCoherent, DeathCoherent
   DEF Next, answersOfTheBus

\* Type correctness and coherence, for every bound.
THEOREM ClientInvariant == Spec => []ClientInv
<1>1. Init => ClientInv
  <2> SUFFICES ASSUME Init PROVE ClientInv OBVIOUS
  <2>1. ClientTyped BY NoneAssumption DEF Init, ClientTyped, NoOwner
  <2>2. BusTyped
    <3>1. <<>> \in Seq(Message) /\ <<>> \in Seq(Call) BY EmptySeq
    <3> QED BY <3>1 DEF Init, BusTyped
  <2>3. births \in 0 .. MaxOwner /\ serving \in Owner \cup {NoOwner}
    <3>1. (births = 0 \/ births = 1) /\ serving = births BY DEF Init
    <3>2. 0 \in 0 .. MaxOwner /\ 1 \in 0 .. MaxOwner /\ 1 \in 1 .. MaxOwner BY BoundsAssumption
    <3>3. CASE births = 0 BY <3>1, <3>2, <3>3 DEF NoOwner
    <3>4. CASE births = 1 BY <3>1, <3>2, <3>4 DEF Owner
    <3> QED BY <3>1, <3>3, <3>4
  <2>4. ServiceTyped
    <3>1. 0 \in 0 .. MaxRevision BY BoundsAssumption
    <3>2. rev = 0 /\ value = FALSE /\ effects = 0 /\ fate = "none" /\ told = "nothing" BY DEF Init
    <3> QED BY <2>3, <3>1, <3>2 DEF ServiceTyped
  <2>5. Linked BY DEF Init, Linked
  <2>6. Coherent(inbox, calls, request, fate)
    BY DEF Init, Coherent, Distinct, Apart, Answered, Called
  <2> QED BY <2>1, <2>2, <2>4, <2>5, <2>6
          DEF ClientInv, TypeOK, ClientTyped, BusTyped, ServiceTyped
<1>2. ClientInv /\ [Next]_settingsVars => ClientInv'
  <2> SUFFICES ASSUME ClientInv, [Next]_settingsVars PROVE ClientInv' OBVIOUS
  <2>1. CASE Next BY <2>1, TypeStep, LinkedStep, CoherentStep DEF ClientInv
  <2>2. CASE UNCHANGED settingsVars
    BY <2>2 DEF ClientInv, TypeOK, Linked, settingsVars, client, bus, busState, service, history
  <2> QED BY <2>1, <2>2
<1> QED BY <1>1, <1>2, PTL DEF Spec

-----------------------------------------------------------------------------
(* What the client is told.  The bus delivers in order, so that a snapshot   *)
(* under way is of now or is followed by the change it misses, and between   *)
(* two owners the client hears that the name is free.                        *)

\* A snapshot is of some process, and no newer than its settings.
Known(s) ==
    /\ s.owner <= births
    /\ s.owner = serving => s.rev <= rev /\ (s.rev = rev => s.value = value)
Shows(m) == m.kind \in {"snapshot", "commit"}

\* A snapshot under way is of now, or the change it misses is told after it.
RepliesTrue ==
    \A i \in 1 .. Len(inbox) : Shows(inbox[i]) =>
        /\ Known(inbox[i].snapshot)
        /\ inbox[i].snapshot.owner = serving =>
              \/ inbox[i].snapshot.rev = rev
              \/ \E j \in 1 .. Len(inbox) : i < j /\ inbox[j] = Changed(serving, rev)

\* Between two processes the name is free, and the client is told.
Freed == OwnerIs(NoOwner)
Named(m) == m.kind = "owner" /\ m.owner # NoOwner
OwnersTrue ==
    /\ \A i \in 1 .. Len(inbox) : Named(inbox[i]) /\ inbox[i].owner # serving =>
          \E j \in 1 .. Len(inbox) : i < j /\ inbox[j] = Freed
    /\ \A i, j \in 1 .. Len(inbox) :
          i < j /\ Named(inbox[i]) /\ Named(inbox[j]) /\ inbox[i].owner # inbox[j].owner =>
              \E k \in 1 .. Len(inbox) : i < k /\ k < j /\ inbox[k] = Freed
OwnerTrue ==
    owner # NoOwner =>
        /\ owner # serving => \E j \in 1 .. Len(inbox) : inbox[j] = Freed
        /\ \A j \in 1 .. Len(inbox) : Named(inbox[j]) /\ inbox[j].owner # owner =>
              \E k \in 1 .. Len(inbox) : k < j /\ inbox[k] = Freed

\* What is asked of a process is answered by it.
RequestTrue ==
    request # None =>
        /\ request.owner = owner
        /\ \A j \in 1 .. Len(calls) : calls[j].token = request.token => serving = owner
        /\ \A i \in 1 .. Len(inbox) : Shows(inbox[i]) /\ inbox[i].token = request.token =>
              inbox[i].snapshot.owner = owner

\* A transport that is not started hears nothing.
Deaf ==
    ~transportStarted =>
        inbox = <<>> /\ owner = NoOwner /\ ~resolving /\ ~launching /\ clientState # "Ready"

SnapshotTrue ==
    /\ snapshot # None => Known(snapshot)
    /\ clientState = "Ready" => snapshot # None /\ snapshot.owner = owner
    /\ clientState = "Ready" /\ request = None /\ ~timer /\ owner = serving =>
          \/ snapshot.rev = rev
          \/ \E j \in 1 .. Len(inbox) : inbox[j] = Changed(serving, rev)

Newborn == serving <= births
NewsInv == Newborn /\ RepliesTrue /\ OwnersTrue /\ OwnerTrue /\ RequestTrue /\ Deaf /\ SnapshotTrue

\* What may befall the settings and the name they are served under.
Commits == serving # NoOwner /\ serving' = serving /\ births' = births /\ rev' = rev + 1
Dies == serving # NoOwner /\ serving' = NoOwner /\ births' = births
IsBorn ==
    serving = NoOwner /\ serving' = births + 1 /\ births' = births + 1 /\ UNCHANGED <<rev, value>>
Stays == UNCHANGED <<serving, births, rev, value>>
Moves == Stays \/ Commits \/ Dies \/ IsBorn

\* The messages a step adds tell it, and tell nothing else.
Later(i) == i \in 1 .. Len(inbox') /\ Len(inbox) < i
Grown ==
    /\ Len(inbox) <= Len(inbox')
    /\ \A i \in 1 .. Len(inbox) : i \in 1 .. Len(inbox') /\ inbox'[i] = inbox[i]
Tells ==
    /\ Grown
    /\ \A i : Later(i) => /\ Shows(inbox'[i]) => inbox'[i].snapshot = SettingsNow'
                          /\ Named(inbox'[i]) => inbox'[i].owner = serving'
    /\ Commits => \E i : Later(i) /\ inbox'[i] = Changed(serving', rev')
    /\ Dies => \E i : Later(i) /\ inbox'[i] = Freed

LEMMA NewsTyped ==
    ASSUME TypeOK
    PROVE  /\ serving \in Nat /\ births \in Nat /\ rev \in Nat /\ owner \in Nat
           /\ Len(inbox) \in Nat
           /\ \A i \in 1 .. Len(inbox) : inbox[i] \in Message /\ i \in Nat
           /\ \A i \in 1 .. Len(inbox) : Shows(inbox[i]) =>
                 /\ inbox[i].snapshot \in Snapshot
                 /\ inbox[i].snapshot.owner \in Nat /\ inbox[i].snapshot.owner # NoOwner
                 /\ inbox[i].snapshot.rev \in Nat
<1>1. /\ Len(inbox) \in Nat
      /\ \A i \in 1 .. Len(inbox) : inbox[i] \in Message /\ i \in Nat
  BY ElementOf DEF TypeOK
<1>2. \A s \in Snapshot : s.owner \in Nat /\ s.owner # NoOwner /\ s.rev \in Nat
  BY BoundsAssumption DEF Snapshot, Owner, NoOwner
<1>3. \A i \in 1 .. Len(inbox) : Shows(inbox[i]) => inbox[i].snapshot \in Snapshot
  BY <1>1, MessageFields DEF Shows
<1> QED BY <1>1, <1>2, <1>3, BoundsAssumption DEF TypeOK, Owner, NoOwner

LEMMA KnownStays ==
    ASSUME TypeOK, Newborn, Moves, NEW s \in Snapshot, Known(s)
    PROVE  /\ s.owner <= births'
           /\ s.owner = serving' => s.rev <= rev' /\ (s.rev = rev' => s.value = value')
           /\ s.owner = serving' => s.owner = serving /\ (Stays \/ Commits)
<1>1. s.owner \in Nat /\ s.owner # NoOwner /\ s.rev \in Nat
  BY BoundsAssumption DEF Snapshot, Owner, NoOwner
<1>2. serving \in Nat /\ births \in Nat /\ rev \in Nat BY NewsTyped
<1>3. CASE Stays BY <1>3 DEF Stays, Known
<1>4. CASE Commits BY <1>1, <1>2, <1>4 DEF Commits, Known
<1>5. CASE Dies BY <1>1, <1>2, <1>5 DEF Dies, Known
<1>6. CASE IsBorn BY <1>1, <1>2, <1>6 DEF IsBorn, Known
<1> QED BY <1>3, <1>4, <1>5, <1>6 DEF Moves

\* A step that tells what it does keeps the messages true.
LEMMA ToldNews ==
    ASSUME TypeOK, TypeOK', Newborn, RepliesTrue, OwnersTrue, Moves, Tells
    PROVE  Newborn' /\ RepliesTrue' /\ OwnersTrue'
<1>1. Newborn' BY NewsTyped DEF Newborn, Moves, Stays, Commits, Dies, IsBorn, NoOwner
<1>2. /\ serving \in Nat /\ births \in Nat /\ Len(inbox) \in Nat /\ Len(inbox') \in Nat
      /\ \A i \in 1 .. Len(inbox) : i \in Nat /\ i <= Len(inbox)
      /\ \A i \in 1 .. Len(inbox') : i \in Nat /\ (i \in 1 .. Len(inbox) \/ Later(i))
  BY NewsTyped DEF Later, TypeOK
<1>3. \A i, j : i \in 1 .. Len(inbox) /\ Later(j) => i < j BY <1>2 DEF Later
<1>4. RepliesTrue'
  <2> SUFFICES ASSUME NEW i \in 1 .. Len(inbox'), Shows(inbox'[i])
               PROVE  /\ inbox'[i].snapshot.owner <= births'
                      /\ inbox'[i].snapshot.owner = serving' =>
                            /\ inbox'[i].snapshot.rev <= rev'
                            /\ inbox'[i].snapshot.rev = rev' => inbox'[i].snapshot.value = value'
                            /\ \/ inbox'[i].snapshot.rev = rev'
                               \/ \E j \in 1 .. Len(inbox') :
                                     i < j /\ inbox'[j] = Changed(serving', rev')
    BY DEF RepliesTrue, Known, Shows, Changed
  <2>1. CASE Later(i)
    <3>1. inbox'[i].snapshot = SettingsNow' BY <2>1 DEF Tells
    <3>2. rev' \in Nat BY BoundsAssumption DEF TypeOK
    <3> QED BY <1>1, <3>1, <3>2 DEF SettingsNow, Newborn
  <2>2. CASE i \in 1 .. Len(inbox)
    <3>1. inbox'[i] = inbox[i] BY <2>2 DEF Tells, Grown
    <3> DEFINE s == inbox[i].snapshot
    <3>2. s \in Snapshot /\ Known(s) BY <2>2, <3>1, NewsTyped DEF RepliesTrue
    <3>3. /\ s.owner <= births'
          /\ s.owner = serving' => s.rev <= rev' /\ (s.rev = rev' => s.value = value')
          /\ s.owner = serving' => s.owner = serving /\ (Stays \/ Commits)
      BY <3>2, KnownStays
    <3>4. ASSUME s.owner = serving'
          PROVE  \/ s.rev = rev'
                 \/ \E j \in 1 .. Len(inbox') : i < j /\ inbox'[j] = Changed(serving', rev')
      <4>1. CASE Stays
        BY <2>2, <3>1, <3>4, <4>1 DEF RepliesTrue, Stays, Tells, Grown
      <4>2. CASE Commits BY <1>3, <2>2, <4>2 DEF Tells, Later
      <4> QED BY <3>3, <3>4, <4>1, <4>2
    <3> QED BY <3>1, <3>3, <3>4
  <2> QED BY <1>2, <2>1, <2>2
<1>5. ASSUME NEW i \in 1 .. Len(inbox), Named(inbox[i]), inbox[i].owner # serving
      PROVE  \E j \in 1 .. Len(inbox) : i < j /\ inbox'[j] = Freed
  BY <1>5 DEF OwnersTrue, Tells, Grown
<1>6. ASSUME NEW i \in 1 .. Len(inbox'), Named(inbox'[i]), inbox'[i].owner # serving'
      PROVE  \E j \in 1 .. Len(inbox') : i < j /\ inbox'[j] = Freed
  <2>1. i \in 1 .. Len(inbox) /\ inbox'[i] = inbox[i] BY <1>2, <1>6 DEF Tells, Grown
  <2>2. CASE Dies BY <1>3, <2>1, <2>2 DEF Tells, Later
  <2>3. CASE ~Dies
    <3>1. inbox[i].owner # serving
      BY <1>6, <2>1, <2>3 DEF Moves, Stays, Commits, IsBorn, Named
    <3> QED BY <1>5, <1>6, <2>1, <3>1 DEF Tells, Grown
  <2> QED BY <2>2, <2>3
<1>7. ASSUME NEW i \in 1 .. Len(inbox'), NEW j \in 1 .. Len(inbox'), i < j,
             Named(inbox'[i]), Named(inbox'[j]), inbox'[i].owner # inbox'[j].owner
      PROVE  \E k \in 1 .. Len(inbox') : i < k /\ k < j /\ inbox'[k] = Freed
  <2>1. CASE j \in 1 .. Len(inbox)
    <3>1. i \in 1 .. Len(inbox) BY <1>2, <1>7, <2>1
    <3>2. inbox'[i] = inbox[i] /\ inbox'[j] = inbox[j] BY <2>1, <3>1 DEF Tells, Grown
    <3>3. PICK k \in 1 .. Len(inbox) : i < k /\ k < j /\ inbox[k] = Freed
      BY <1>7, <2>1, <3>1, <3>2 DEF OwnersTrue
    <3> QED BY <3>3 DEF Tells, Grown
  <2>2. CASE Later(j)
    <3>1. inbox'[j].owner = serving' /\ serving' # NoOwner BY <1>7, <2>2 DEF Tells, Named
    <3>2. i \in 1 .. Len(inbox) BY <1>2, <1>7, <3>1 DEF Tells
    <3>3. inbox'[i] = inbox[i] BY <3>2 DEF Tells, Grown
    <3>4. inbox[i].owner # serving
      BY <1>7, <3>1, <3>3 DEF Moves, Stays, Commits, Dies, IsBorn, Named
    <3>5. PICK k \in 1 .. Len(inbox) : i < k /\ inbox'[k] = Freed BY <1>5, <1>7, <3>2, <3>3, <3>4
    <3>6. k < j /\ k \in 1 .. Len(inbox') BY <1>3, <2>2, <3>5 DEF Tells, Grown
    <3> QED BY <3>5, <3>6
  <2> QED BY <1>2, <2>1, <2>2
<1>8. OwnersTrue'
  BY <1>6, <1>7 DEF OwnersTrue, Named, Freed, OwnerIs
<1> QED BY <1>1, <1>4, <1>8

\* What the client knows stays true of what it is told.
LEMMA ToldClient ==
    ASSUME TypeOK, TypeOK', Newborn, OwnerTrue, SnapshotTrue, Moves, Tells,
           UNCHANGED <<owner, snapshot, clientState>>,
           request' = None /\ ~timer' => request = None /\ ~timer
    PROVE  OwnerTrue' /\ SnapshotTrue'
<1>0. /\ serving \in Nat /\ births \in Nat /\ Len(inbox) \in Nat /\ Len(inbox') \in Nat
      /\ \A i \in 1 .. Len(inbox) : i \in Nat /\ i <= Len(inbox)
      /\ \A i \in 1 .. Len(inbox') : i \in Nat /\ (i \in 1 .. Len(inbox) \/ Later(i))
  BY NewsTyped DEF Later, TypeOK
<1>1. \A i, j : i \in 1 .. Len(inbox) /\ Later(j) => i < j BY <1>0 DEF Later
<1>2. UNCHANGED <<owner, snapshot, clientState>> OBVIOUS
<1>3. OwnerTrue'
  <2> SUFFICES ASSUME owner # NoOwner
               PROVE  /\ owner # serving' => \E j \in 1 .. Len(inbox') : inbox'[j] = Freed
                      /\ \A j \in 1 .. Len(inbox') :
                            Named(inbox'[j]) /\ inbox'[j].owner # owner =>
                               \E k \in 1 .. Len(inbox') : k < j /\ inbox'[k] = Freed
    BY <1>2 DEF OwnerTrue, Named, Freed, OwnerIs
  <2>1. ASSUME owner # serving
        PROVE  \E j \in 1 .. Len(inbox) : inbox'[j] = Freed /\ j \in 1 .. Len(inbox')
    BY <2>1 DEF OwnerTrue, Tells, Grown
  <2>2. CASE Dies
    BY <1>0, <1>1, <2>2 DEF OwnerTrue, Tells, Grown, Later, Dies, Named
  <2>3. CASE ~Dies
    <3>1. owner # serving' => owner # serving BY <2>3 DEF Moves, Stays, Commits, IsBorn
    <3>2. ASSUME NEW j \in 1 .. Len(inbox'), Named(inbox'[j]), inbox'[j].owner # owner
          PROVE  \E k \in 1 .. Len(inbox') : k < j /\ inbox'[k] = Freed
      <4>1. CASE j \in 1 .. Len(inbox) BY <3>2, <4>1 DEF OwnerTrue, Tells, Grown
      <4>2. CASE Later(j) BY <1>1, <2>1, <3>1, <3>2, <4>2 DEF Tells
      <4> QED BY <1>0, <4>1, <4>2
    <3> QED BY <2>1, <3>1, <3>2
  <2> QED BY <2>2, <2>3
<1>4. snapshot # None => snapshot \in Snapshot BY DEF TypeOK
<1>5. snapshot # None =>
        /\ snapshot.owner <= births'
        /\ snapshot.owner = serving' => snapshot.rev <= rev' /\ (snapshot.rev = rev' => snapshot.value = value')
        /\ snapshot.owner = serving' => snapshot.owner = serving /\ (Stays \/ Commits)
  BY <1>4, KnownStays DEF SnapshotTrue
<1>6. ASSUME clientState = "Ready", request = None, ~timer, owner = serving'
      PROVE  \/ snapshot.rev = rev'
             \/ \E j \in 1 .. Len(inbox') : inbox'[j] = Changed(serving', rev')
  <2>1. snapshot # None /\ snapshot.owner = owner BY <1>6 DEF SnapshotTrue
  <2>2. CASE Stays BY <1>6, <2>2 DEF SnapshotTrue, Stays, Tells, Grown
  <2>3. CASE Commits BY <2>3 DEF Tells, Later
  <2> QED BY <1>5, <1>6, <2>1, <2>2, <2>3
<1>7. SnapshotTrue' BY <1>2, <1>5, <1>6 DEF SnapshotTrue, Known, Changed
<1> QED BY <1>3, <1>7

\* A reply added is the answer to the first call, by the process called.
LEMMA ToldRequest ==
    ASSUME TypeOK, TypeOK', Linked, RequestTrue, Moves, Tells, UNCHANGED <<request, owner>>,
           \/ calls' = calls
           \/ calls # <<>> /\ calls' = Tail(calls)
           \/ calls' = <<>>,
           calls' # <<>> => serving' = serving,
           \A i : Later(i) /\ Shows(inbox'[i]) =>
               calls # <<>> /\ inbox'[i].token = Head(calls).token /\ serving' = serving
    PROVE  RequestTrue'
<1> SUFFICES ASSUME request # None
             PROVE  /\ request.owner = owner
                    /\ \A j \in 1 .. Len(calls') :
                          calls'[j].token = request.token => serving' = owner
                    /\ \A i \in 1 .. Len(inbox') :
                          Shows(inbox'[i]) /\ inbox'[i].token = request.token =>
                             inbox'[i].snapshot.owner = owner
  BY DEF RequestTrue, Shows
<1>1. /\ \A i \in 1 .. Len(inbox') : i \in 1 .. Len(inbox) \/ Later(i)
      /\ calls \in Seq(Call) /\ calls' \in Seq(Call)
  BY NewsTyped DEF Later, TypeOK
<1>2. ASSUME NEW j \in 1 .. Len(calls'), calls'[j].token = request.token
      PROVE  serving' = owner
  <2>1. calls' # <<>> BY <1>2
  <2>2. CASE calls' = calls BY <1>2, <2>1, <2>2 DEF RequestTrue
  <2>3. CASE calls # <<>> /\ calls' = Tail(calls)
    <3>1. j + 1 \in 1 .. Len(calls) /\ calls'[j] = calls[j + 1] BY <1>1, <1>2, <2>3, TailOf
    <3> QED BY <1>2, <2>1, <3>1 DEF RequestTrue
  <2> QED BY <2>1, <2>2, <2>3
<1>3. ASSUME NEW i \in 1 .. Len(inbox'), Shows(inbox'[i]), inbox'[i].token = request.token
      PROVE  inbox'[i].snapshot.owner = owner
  <2>1. CASE i \in 1 .. Len(inbox) BY <1>3, <2>1 DEF RequestTrue, Tells, Grown
  <2>2. CASE Later(i)
    <3>1. /\ inbox'[i].snapshot.owner = serving' /\ serving' = serving
          /\ calls # <<>> /\ inbox'[i].token = Head(calls).token
      BY <1>3, <2>2 DEF Tells, SettingsNow
    <3>2. 1 \in 1 .. Len(calls) /\ Head(calls) = calls[1] BY <1>1, <3>1, TailOf
    <3> QED BY <1>3, <3>1, <3>2 DEF RequestTrue
  <2> QED BY <1>1, <2>1, <2>2
<1> QED BY <1>2, <1>3 DEF RequestTrue

-----------------------------------------------------------------------------
(* Each step tells what it does.                                            *)

LEMMA AddsOne ==
    ASSUME TypeOK, NEW m \in Message, inbox' = Append(inbox, m)
    PROVE  /\ Grown /\ \A i : Later(i) => inbox'[i] = m
           /\ Later(Len(inbox) + 1) /\ inbox'[Len(inbox) + 1] = m
<1>1. inbox \in Seq(Message) BY DEF TypeOK
<1>2. /\ Len(inbox) \in Nat /\ Len(inbox') = Len(inbox) + 1 /\ inbox'[Len(inbox) + 1] = m
      /\ \A i \in 1 .. Len(inbox) : inbox'[i] = inbox[i]
  BY <1>1, AppendOf
<1> QED BY <1>2 DEF Grown, Later

LEMMA AddsTwo ==
    ASSUME TypeOK, NEW m \in Message, NEW n \in Message, inbox' = Append(Append(inbox, m), n)
    PROVE  /\ Grown /\ \A i : Later(i) => inbox'[i] \in {m, n}
           /\ Later(Len(inbox) + 1) /\ inbox'[Len(inbox) + 1] = m
<1>1. inbox \in Seq(Message) BY DEF TypeOK
<1> DEFINE q == Append(inbox, m)
<1>2. /\ q \in Seq(Message) /\ Len(inbox) \in Nat /\ Len(q) = Len(inbox) + 1
      /\ q[Len(inbox) + 1] = m /\ \A i \in 1 .. Len(inbox) : q[i] = inbox[i]
  BY <1>1, AppendOf
<1> HIDE DEF q
<1>3. /\ Len(Append(q, n)) = Len(q) + 1 /\ Append(q, n)[Len(q) + 1] = n
      /\ \A i \in 1 .. Len(q) : Append(q, n)[i] = q[i]
  BY <1>2, AppendOf
<1>4. inbox' = Append(q, n) BY DEF q
<1>5. Len(inbox') = Len(inbox) + 2 /\ Len(q) + 1 = Len(inbox) + 2 BY <1>2, <1>3, <1>4
<1>6. /\ inbox'[Len(inbox) + 1] = m /\ inbox'[Len(inbox) + 2] = n
      /\ \A i \in 1 .. Len(inbox) : inbox'[i] = inbox[i]
  BY <1>2, <1>3, <1>4, <1>5
<1> QED BY <1>2, <1>5, <1>6 DEF Grown, Later

LEMMA AddsNone ==
    ASSUME TypeOK, inbox' = inbox
    PROVE  Grown /\ \A i : ~Later(i)
BY NewsTyped DEF Grown, Later

LEMMA MessageKinds ==
    /\ \A o : ~Shows(OwnerIs(o)) /\ OwnerIs(o).owner = o /\ (Named(OwnerIs(o)) <=> o # NoOwner)
    /\ \A o, r : ~Shows(Changed(o, r)) /\ ~Named(Changed(o, r))
    /\ \A t, s : /\ SnapshotReply(t, s).snapshot = s /\ SnapshotReply(t, s).token = t
                 /\ ~Named(SnapshotReply(t, s))
    /\ \A t, a, s : /\ CommitReply(t, a, s).snapshot = s /\ CommitReply(t, a, s).token = t
                    /\ ~Named(CommitReply(t, a, s))
    /\ \A t, o : ~Shows(Failure(t, o)) /\ ~Named(Failure(t, o))
    /\ \A ok : ~Shows(Activation(ok)) /\ ~Named(Activation(ok))
BY DEF Shows, Named, OwnerIs, Changed, SnapshotReply, CommitReply, Failure, Activation

\* The calls a step leaves are of the process that is there, and a reply is to
\* the first of them.
CallsTold ==
    /\ calls' = calls \/ (calls # <<>> /\ calls' = Tail(calls)) \/ calls' = <<>>
    /\ calls' # <<>> => serving' = serving
    /\ \A i : Later(i) /\ Shows(inbox'[i]) =>
          calls # <<>> /\ inbox'[i].token = Head(calls).token /\ serving' = serving

LEMMA SnapshotTells ==
    ASSUME ClientInv, transportStarted, serveSnapshot
    PROVE  Moves /\ Tells /\ CallsTold
<1>1. /\ TypeOK /\ Linked /\ calls # <<>> /\ calls' = Tail(calls) /\ Stays
  BY DEF ClientInv, serveSnapshot, served, Stays
<1> DEFINE m == SnapshotReply(Head(calls).token, SettingsNow)
<1>2. m \in Message BY <1>1, ServiceRepliesTyped, CallFields, MessagesTyped
<1>3. inbox' = Append(inbox, m) BY DEF serveSnapshot, post
<1>4. /\ m.snapshot = SettingsNow' /\ m.token = Head(calls).token /\ ~Named(m)
  BY <1>1, MessageKinds DEF SettingsNow, Stays
<1> HIDE DEF m
<1>5. Grown /\ \A i : Later(i) => inbox'[i] = m BY <1>1, <1>2, <1>3, AddsOne
<1>6. ~Commits /\ ~Dies BY <1>1, NewsTyped DEF Stays, Commits, Dies
<1> QED BY <1>1, <1>4, <1>5, <1>6 DEF Moves, Tells, CallsTold, Stays

LEMMA CommitTells ==
    ASSUME ClientInv, transportStarted, serveCommit
    PROVE  Moves /\ Tells /\ CallsTold
<1>1. /\ TypeOK /\ TypeOK' /\ Linked /\ calls # <<>> /\ calls' = Tail(calls)
      /\ serving' = serving /\ births' = births /\ serving # NoOwner /\ rev \in Nat
  BY CommitTyped, NewsTyped DEF ClientInv, serveCommit, served, Linked
<1> DEFINE c == Head(calls)  reply(a) == CommitReply(c.token, a, SettingsNow')
<1>2. c.token \in Token /\ serving \in Owner /\ SettingsNow' \in Snapshot
  BY <1>1, ServiceRepliesTyped, CallFields DEF SettingsNow, Snapshot, TypeOK
<1>3. \A a \in {"applied", "conflict", "refused"} :
         /\ reply(a) \in Message /\ reply(a).snapshot = SettingsNow'
         /\ reply(a).token = Head(calls).token /\ ~Named(reply(a))
  BY <1>2, MessagesTyped, MessageKinds
<1>4. PICK a \in {"applied", "conflict", "refused"} :
         \/ UNCHANGED <<rev, value>> /\ inbox' = Append(inbox, reply(a))
         \/ /\ rev < MaxRevision /\ rev' = rev + 1
            /\ inbox' = Append(Append(inbox, Changed(serving, rev + 1)), reply(a))
  BY DEF serveCommit, post
<1> HIDE DEF reply, c
<1>5. CASE UNCHANGED <<rev, value>> /\ inbox' = Append(inbox, reply(a))
  <2>1. Stays /\ ~Commits /\ ~Dies BY <1>1, <1>5 DEF Stays, Commits, Dies
  <2>2. Grown /\ \A i : Later(i) => inbox'[i] = reply(a) BY <1>1, <1>3, <1>5, AddsOne
  <2> QED BY <1>1, <1>3, <2>1, <2>2 DEF Moves, Tells, CallsTold
<1>6. CASE /\ rev < MaxRevision /\ rev' = rev + 1
           /\ inbox' = Append(Append(inbox, Changed(serving, rev + 1)), reply(a))
  <2>1. Commits /\ ~Dies BY <1>1, <1>6 DEF Commits, Dies
  <2> DEFINE m == Changed(serving, rev + 1)
  <2>2. m \in Message /\ ~Shows(m) /\ ~Named(m)
    BY <1>1, <1>2, <1>6, MessagesTyped, MessageKinds, BoundsAssumption DEF TypeOK
  <2>3. m = Changed(serving', rev') BY <1>1, <1>6
  <2> HIDE DEF m
  <2>4. /\ Grown /\ \A i : Later(i) => inbox'[i] \in {m, reply(a)}
        /\ Later(Len(inbox) + 1) /\ inbox'[Len(inbox) + 1] = m
    BY <1>1, <1>3, <1>6, <2>2, AddsTwo DEF m
  <2> QED BY <1>1, <1>3, <2>1, <2>2, <2>3, <2>4 DEF Moves, Tells, CallsTold
<1> QED BY <1>4, <1>5, <1>6

LEMMA BusTells ==
    ASSUME ClientInv, transportStarted, resolveOwner \/ activate \/ otherCommit \/ otherActivation
    PROVE  Moves /\ Tells /\ CallsTold
<1>1. /\ TypeOK /\ Linked /\ calls' = calls /\ inbox \in Seq(Message)
      /\ serving \in Nat /\ births \in Nat /\ rev \in Nat
  BY NewsTyped
  DEF ClientInv, TypeOK, resolveOwner, activate, otherCommit, otherActivation, service
<1>2. ASSUME Stays, NEW m \in Message, inbox' = Append(inbox, m), ~Shows(m),
             Named(m) => m.owner = serving
      PROVE  Moves /\ Tells /\ CallsTold
  <2>1. ~Commits /\ ~Dies /\ serving' = serving BY <1>1, <1>2 DEF Stays, Commits, Dies
  <2>2. Grown /\ \A i : Later(i) => inbox'[i] = m BY <1>1, <1>2, AddsOne
  <2> QED BY <1>1, <1>2, <2>1, <2>2 DEF Moves, Tells, CallsTold
<1>3. ASSUME IsBorn, NEW m \in Message, ~Shows(m), Named(m) => m.owner = serving',
             NEW n \in Message, ~Shows(n), ~Named(n),
             inbox' = Append(inbox, m) \/ inbox' = Append(Append(inbox, m), n)
      PROVE  Moves /\ Tells /\ CallsTold
  <2>1. ~Commits /\ ~Dies BY <1>1, <1>3 DEF IsBorn, Commits, Dies
  <2>2. Grown /\ \A i : Later(i) => inbox'[i] \in {m, n} BY <1>1, <1>3, AddsOne, AddsTwo
  <2>3. calls = <<>> BY <1>1, <1>3 DEF IsBorn, Linked
  <2> QED BY <1>1, <1>3, <2>1, <2>2, <2>3 DEF Moves, Tells, CallsTold
<1>4. CASE resolveOwner
  <2>1. Stays /\ inbox' = Append(inbox, OwnerIs(serving)) BY <1>4 DEF resolveOwner, service, Stays
  <2>2. OwnerIs(serving) \in Message BY <1>1, MessagesTyped DEF TypeOK
  <2> QED BY <1>2, <2>1, <2>2, MessageKinds
<1>b. births < MaxOwner => births + 1 \in Owner BY <1>1, BoundsAssumption DEF Owner
<1>5. CASE activate
  <2>1. Activation(TRUE) \in Message /\ Activation(FALSE) \in Message BY MessagesTyped
  <2>2. CASE Stays
    <3>0. births' # births + 1 BY <1>1, <2>2 DEF Stays
    <3>1. inbox' = Append(inbox, Activation(TRUE)) \/ inbox' = Append(inbox, Activation(FALSE))
      BY <1>5, <3>0, Zenon DEF activate
    <3> QED BY <1>2, <2>1, <2>2, <3>1, MessageKinds
  <2>3. CASE ~Stays
    <3>1. /\ IsBorn /\ births < MaxOwner
          /\ inbox' = inbox \o <<OwnerIs(births + 1), Activation(TRUE)>>
      BY <1>5, <2>3 DEF activate, Stays, IsBorn
    <3>2. OwnerIs(births + 1) \in Message BY <1>b, <3>1, MessagesTyped
    <3>p. \A q \in Seq(Message) : q \o <<OwnerIs(births + 1), Activation(TRUE)>>
                                    = Append(Append(q, OwnerIs(births + 1)), Activation(TRUE))
      BY <2>1, <3>2, PairOf
    <3>3. inbox' = Append(Append(inbox, OwnerIs(births + 1)), Activation(TRUE))
      BY <1>1, <3>1, <3>p
    <3> QED BY <1>3, <2>1, <3>1, <3>2, <3>3, MessageKinds DEF IsBorn
  <2> QED BY <2>2, <2>3
<1>6. CASE otherCommit
  <2>1. Commits /\ ~Dies /\ rev < MaxRevision BY <1>1, <1>6 DEF otherCommit, Commits, Dies
  <2> DEFINE m == Changed(serving, rev + 1)
  <2>2. m \in Message /\ ~Shows(m) /\ ~Named(m)
    BY <1>1, <2>1, MessagesTyped, MessageKinds, BoundsAssumption DEF TypeOK, Commits
  <2>3. inbox' = Append(inbox, m) /\ m = Changed(serving', rev')
    BY <1>6, <2>1 DEF otherCommit, post, Commits
  <2> HIDE DEF m
  <2>4. /\ Grown /\ \A i : Later(i) => inbox'[i] = m
        /\ Later(Len(inbox) + 1) /\ inbox'[Len(inbox) + 1] = m
    BY <1>1, <2>2, <2>3, AddsOne
  <2> QED BY <1>1, <2>1, <2>2, <2>3, <2>4 DEF Moves, Tells, CallsTold, Commits
<1>7. CASE otherActivation
  <2>1. IsBorn /\ births < MaxOwner /\ inbox' = Append(inbox, OwnerIs(births + 1))
    BY <1>7 DEF otherActivation, IsBorn, post
  <2>2. OwnerIs(births + 1) \in Message /\ Activation(TRUE) \in Message
    BY <1>b, <2>1, MessagesTyped
  <2> QED BY <1>3, <2>1, <2>2, MessageKinds DEF IsBorn
<1> QED BY <1>4, <1>5, <1>6, <1>7

\* A death is told last, after the errors that answer the calls.
LEMMA DeathTells ==
    ASSUME ClientInv, transportStarted, die
    PROVE  Moves /\ Tells /\ CallsTold
<1>1. /\ TypeOK /\ inbox \in Seq(Message) /\ calls \in Seq(Call) /\ calls' = <<>>
      /\ serving \in Owner /\ Dies
  BY DEF ClientInv, TypeOK, die, NoOwner, Owner, Dies
<1> DEFINE e == Errors(calls, serving)  q == inbox \o e
<1>2. /\ e \in Seq(Message) /\ \A i \in 1 .. Len(e) : ~Shows(e[i]) /\ ~Named(e[i])
  BY <1>1, ErrorsOf, MessageKinds
<1>3. inbox' = q \o <<Freed>> BY <1>1 DEF die, Errors, Freed
<1>4. Freed \in Message BY MessagesTyped DEF Freed
<1> HIDE DEF e
<1>5. /\ q \in Seq(Message) /\ Len(q) = Len(inbox) + Len(e)
      /\ \A i \in 1 .. Len(inbox) + Len(e) :
            q[i] = IF i <= Len(inbox) THEN inbox[i] ELSE e[i - Len(inbox)]
  BY <1>1, <1>2, ConcatProperties
<1>6. inbox' = Append(q, Freed) BY <1>3, <1>4, <1>5, AppendIsConcat
<1> HIDE DEF q
<1>7. /\ Len(q) \in Nat /\ Len(inbox') = Len(q) + 1 /\ inbox'[Len(q) + 1] = Freed
      /\ \A i \in 1 .. Len(q) : inbox'[i] = q[i]
  BY <1>4, <1>5, <1>6, AppendOf
<1>8. Len(inbox) \in Nat /\ Len(e) \in Nat BY <1>1, <1>2, ElementOf
<1>9. Grown /\ Later(Len(q) + 1)
  <2> DEFINE n == Len(inbox)  k == Len(q)
  <2>1. n \in Nat /\ k \in Nat /\ n <= k /\ Len(inbox') = k + 1 BY <1>5, <1>7, <1>8
  <2>2. \A i \in 1 .. n : i \in 1 .. k /\ q[i] = inbox[i] BY <1>5, <1>8, <2>1
  <2>3. \A i \in 1 .. n : i \in 1 .. Len(inbox') /\ inbox'[i] = inbox[i]
    BY <1>7, <2>1, <2>2
  <2>4. n <= Len(inbox') /\ Later(k + 1) BY <2>1 DEF Later
  <2> QED BY <2>3, <2>4 DEF Grown
<1>10. ASSUME NEW i, Later(i), i # Len(q) + 1 PROVE ~Shows(inbox'[i]) /\ ~Named(inbox'[i])
  <2>1. i \in 1 .. Len(q) /\ Len(inbox) < i BY <1>7, <1>10 DEF Later
  <2>2. i - Len(inbox) \in 1 .. Len(e) BY <1>5, <1>8, <2>1
  <2>3. inbox'[i] = e[i - Len(inbox)] BY <1>5, <1>7, <1>8, <2>1
  <2> QED BY <1>2, <2>2, <2>3
<1>11. ~Shows(Freed) /\ ~Named(Freed) BY MessageKinds DEF Freed
<1>12. ~Commits BY <1>1 DEF Dies, Commits, NoOwner, Owner
<1> QED BY <1>1, <1>7, <1>9, <1>10, <1>11, <1>12 DEF Moves, Tells, CallsTold

\* What befalls the settings does not depend on who listens.
LEMMA MovesStep ==
    ASSUME ClientInv,
           serveSnapshot \/ serveCommit \/ otherCommit \/ otherActivation \/ die \/ reconnect
    PROVE  Moves
BY DEF ClientInv, Linked, serveSnapshot, serveCommit, served, otherCommit, otherActivation, die,
       reconnect, service, Moves, Stays, Commits, Dies, IsBorn

LEMMA ServiceNews ==
    ASSUME ClientInv, TypeOK', NewsInv, transportStarted, answersOfTheBus \/ otherCommit
              \/ otherActivation \/ die
    PROVE  NewsInv'
<1>1. Moves /\ Tells /\ CallsTold
  BY SnapshotTells, CommitTells, BusTells, DeathTells DEF answersOfTheBus
<1>2. UNCHANGED client
  BY DEF answersOfTheBus, serveSnapshot, serveCommit, resolveOwner, activate, otherCommit,
         otherActivation, die
<1>3. TypeOK /\ Linked BY DEF ClientInv
<1>4. Newborn /\ RepliesTrue /\ OwnersTrue /\ OwnerTrue /\ RequestTrue /\ SnapshotTrue
  BY DEF NewsInv
<1>5. Newborn' /\ RepliesTrue' /\ OwnersTrue' BY <1>1, <1>3, <1>4, ToldNews
<1>6. OwnerTrue' /\ SnapshotTrue' BY <1>1, <1>2, <1>3, <1>4, ToldClient DEF client
<1>7. RequestTrue' BY <1>1, <1>2, <1>3, <1>4, ToldRequest DEF client, CallsTold
<1>8. Deaf' BY <1>2 DEF Deaf, client
<1> QED BY <1>5, <1>6, <1>7, <1>8 DEF NewsInv

-----------------------------------------------------------------------------
(* The client's own steps.                                                  *)

\* A client that has no owner and nothing to hear.
LEMMA DeafNews ==
    ASSUME ClientInv, TypeOK', NewsInv, Moves, inbox' = <<>>, owner' = NoOwner,
           clientState' # "Ready", transportStarted' \/ (~resolving' /\ ~launching'),
           request' = None \/ (request' = request /\ owner' = owner),
           snapshot' = None \/ snapshot' = snapshot
    PROVE  NewsInv'
<1>1. TypeOK BY DEF ClientInv
<1>2. Newborn' BY <1>1, NewsTyped DEF NewsInv, Newborn, Moves, Stays, Commits, Dies, IsBorn, NoOwner
<1>3. RepliesTrue' /\ OwnersTrue' /\ OwnerTrue' /\ Deaf'
  BY DEF RepliesTrue, OwnersTrue, OwnerTrue, Deaf
<1>4. request' = None
  <2>1. request # None => request.owner = owner /\ request \in Request
    BY <1>1 DEF NewsInv, RequestTrue, TypeOK
  <2> QED BY <2>1 DEF Request, Owner, NoOwner
<1>5. RequestTrue' BY <1>4 DEF RequestTrue
<1>6. snapshot' # None => snapshot' = snapshot /\ snapshot \in Snapshot /\ Known(snapshot)
  BY <1>1 DEF NewsInv, SnapshotTrue, TypeOK
<1>7. snapshot' # None => Known(snapshot)' BY <1>1, <1>6, KnownStays DEF NewsInv, Known
<1>8. SnapshotTrue' BY <1>7 DEF SnapshotTrue
<1> QED BY <1>2, <1>3, <1>5, <1>8 DEF NewsInv

\* A step that hears and says nothing.
LEMMA QuietNews ==
    ASSUME NewsInv, UNCHANGED <<inbox, calls, owner, snapshot, serving, births, rev, value>>, Deaf',
           request' \in {request, None},
           clientState' = "Ready" =>
               /\ clientState = "Ready" /\ request' = request
               /\ request' = None /\ timer => timer'
    PROVE  NewsInv'
<1>1. Newborn' /\ OwnersTrue' /\ OwnerTrue'
  BY DEF NewsInv, Newborn, OwnersTrue, OwnerTrue, Named, Freed, OwnerIs
<1>2. RepliesTrue' BY DEF NewsInv, RepliesTrue, Shows, Known, Changed
<1>3. RequestTrue' BY DEF NewsInv, RequestTrue, Shows
<1>4. SnapshotTrue' BY DEF NewsInv, SnapshotTrue, Known, Changed
<1> QED BY <1>1, <1>2, <1>3, <1>4 DEF NewsInv

\* A request goes out: it is this owner's, or comes back as an error.
LEMMA AskedNews ==
    ASSUME ClientInv, TypeOK', NewsInv, owner # NoOwner, Free # {},
           NEW c \in Call, c.token = nextToken, send(c),
           request' # None, request'.token = nextToken, request'.owner = owner,
           UNCHANGED <<owner, snapshot, clientState, transportStarted,
                       serving, births, rev, value>>
    PROVE  NewsInv'
<1>1. /\ TypeOK /\ Fresh(inbox, calls, nextToken) /\ nextToken \in Token
      /\ calls \in Seq(Call)
  BY NextTokenFresh DEF ClientInv, TypeOK
<1>2. Stays /\ ~Commits /\ ~Dies BY <1>1, NewsTyped DEF Stays, Commits, Dies
<1>3. Failure(nextToken, owner) \in Message BY <1>1, MessagesTyped DEF TypeOK
<1>4. \/ inbox' = inbox /\ calls' = Append(calls, c) /\ serving = owner
      \/ inbox' = Append(inbox, Failure(nextToken, owner)) /\ calls' = calls
  BY DEF send
<1>5. Grown /\ \A i : Later(i) => inbox'[i] = Failure(nextToken, owner)
  BY <1>1, <1>3, <1>4, AddsOne, AddsNone
<1>6. ~Shows(Failure(nextToken, owner)) /\ ~Named(Failure(nextToken, owner)) BY MessageKinds
<1>7. Moves /\ Tells BY <1>2, <1>5, <1>6 DEF Moves, Tells
<1>8. Newborn' /\ RepliesTrue' /\ OwnersTrue' BY <1>1, <1>7, ToldNews DEF NewsInv
<1>9. OwnerTrue' /\ SnapshotTrue' BY <1>1, <1>7, ToldClient DEF NewsInv
<1>10. \A j \in 1 .. Len(calls') : calls'[j].token = nextToken => serving' = owner
  <2>1. CASE calls' = calls BY <1>1, <2>1 DEF Fresh
  <2>2. CASE serving = owner BY <2>2
  <2> QED BY <1>4, <2>1, <2>2
<1>11. \A i \in 1 .. Len(inbox') : Shows(inbox'[i]) => inbox'[i].token # nextToken
  <2> SUFFICES ASSUME NEW i \in 1 .. Len(inbox'), Shows(inbox'[i])
               PROVE  inbox'[i].token # nextToken
    OBVIOUS
  <2>1. i \in 1 .. Len(inbox) \/ Later(i) BY <1>1, NewsTyped DEF Later, TypeOK
  <2>2. i \in 1 .. Len(inbox) /\ inbox'[i] = inbox[i] BY <1>5, <1>6, <2>1 DEF Grown
  <2> QED BY <1>1, <2>2 DEF Fresh, Carrier, Shows
<1>12. RequestTrue' BY <1>10, <1>11 DEF RequestTrue, Shows
<1>13. Deaf' BY DEF NewsInv, Deaf
<1> QED BY <1>8, <1>9, <1>12, <1>13 DEF NewsInv

-----------------------------------------------------------------------------
(* A message is received.                                                   *)

LEMMA ShiftOf ==
    ASSUME NEW q \in Seq(Message), q # <<>>
    PROVE  /\ Head(q) = q[1] /\ 1 \in 1 .. Len(q)
           /\ \A i \in 1 .. Len(Tail(q)) : i + 1 \in 1 .. Len(q) /\ Tail(q)[i] = q[i + 1] /\ 1 < i + 1
           /\ \A j \in 1 .. Len(q) : 1 < j => j - 1 \in 1 .. Len(Tail(q)) /\ Tail(q)[j - 1] = q[j]
           /\ \A j \in 1 .. Len(q) : j # 1 => 1 < j
           /\ \A i \in 1 .. Len(Tail(q)), j \in 1 .. Len(q) :
                 (i + 1 < j <=> i < j - 1) /\ (j < i + 1 <=> j - 1 < i)
<1>1. /\ Len(q) \in Nat \ {0} /\ Head(q) = q[1] /\ Len(Tail(q)) = Len(q) - 1
      /\ \A i \in 1 .. Len(Tail(q)) : Tail(q)[i] = q[i + 1]
  BY TailOf
<1>2. \A j \in 1 .. Len(q) : 1 < j => j - 1 \in 1 .. Len(Tail(q)) BY <1>1
<1>3. \A j \in 1 .. Len(q) : 1 < j => Tail(q)[j - 1] = q[j] BY <1>1, <1>2
<1> QED BY <1>1, <1>2, <1>3

LEMMA ReceivedNews ==
    ASSUME TypeOK, Newborn, RepliesTrue, OwnersTrue, inbox # <<>>, inbox' = Tail(inbox), Stays
    PROVE  Newborn' /\ RepliesTrue' /\ OwnersTrue'
<1>1. inbox \in Seq(Message) BY DEF TypeOK
<1> DEFINE p == Tail(inbox)
<1>2. /\ \A i \in 1 .. Len(p) : i + 1 \in 1 .. Len(inbox) /\ p[i] = inbox[i + 1] /\ 1 < i + 1
      /\ \A j \in 1 .. Len(inbox) : 1 < j => j - 1 \in 1 .. Len(p) /\ p[j - 1] = inbox[j]
      /\ \A i \in 1 .. Len(p), j \in 1 .. Len(inbox) :
            (i + 1 < j <=> i < j - 1) /\ (j < i + 1 <=> j - 1 < i)
      /\ \A i \in 1 .. Len(p), j \in 1 .. Len(inbox) : i + 1 < j => 1 < j
  <2>1. /\ \A i \in 1 .. Len(p) : i + 1 \in 1 .. Len(inbox) /\ p[i] = inbox[i + 1] /\ 1 < i + 1
        /\ \A j \in 1 .. Len(inbox) : 1 < j => j - 1 \in 1 .. Len(p) /\ p[j - 1] = inbox[j]
        /\ \A i \in 1 .. Len(p), j \in 1 .. Len(inbox) :
              (i + 1 < j <=> i < j - 1) /\ (j < i + 1 <=> j - 1 < i)
    BY <1>1, ShiftOf
  <2>2. Len(inbox) \in Nat BY <1>1, ElementOf
  <2> HIDE DEF p
  <2>3. \A i \in 1 .. Len(p), j \in 1 .. Len(inbox) : i + 1 < j => 1 < j BY <2>1, <2>2
  <2> QED BY <2>1, <2>3
<1>3. inbox' = p OBVIOUS
<1> HIDE DEF p
<1>4. Newborn' BY DEF Newborn, Stays
<1>5. RepliesTrue'
  <2> SUFFICES ASSUME NEW i \in 1 .. Len(p), Shows(p[i])
               PROVE  /\ Known(p[i].snapshot)
                      /\ p[i].snapshot.owner = serving =>
                            \/ p[i].snapshot.rev = rev
                            \/ \E j \in 1 .. Len(p) : i < j /\ p[j] = Changed(serving, rev)
    BY <1>3 DEF RepliesTrue, Known, Shows, Changed, Stays
  <2>1. i + 1 \in 1 .. Len(inbox) /\ p[i] = inbox[i + 1] BY <1>2
  <2>2. ASSUME NEW j \in 1 .. Len(inbox), i + 1 < j, inbox[j] = Changed(serving, rev)
        PROVE  \E k \in 1 .. Len(p) : i < k /\ p[k] = Changed(serving, rev)
    <3>1. j - 1 \in 1 .. Len(p) /\ p[j - 1] = inbox[j] /\ i < j - 1 BY <1>2, <2>2
    <3> QED BY <2>2, <3>1
  <2> QED BY <2>1, <2>2 DEF RepliesTrue
<1>6. ASSUME NEW i \in 1 .. Len(p), Named(p[i]), p[i].owner # serving
      PROVE  \E k \in 1 .. Len(p) : i < k /\ p[k] = Freed
  <2>1. i + 1 \in 1 .. Len(inbox) /\ p[i] = inbox[i + 1] BY <1>2
  <2>2. PICK j \in 1 .. Len(inbox) : i + 1 < j /\ inbox[j] = Freed
    BY <1>6, <2>1 DEF OwnersTrue
  <2>3. j - 1 \in 1 .. Len(p) /\ p[j - 1] = inbox[j] /\ i < j - 1 BY <1>2, <2>2
  <2> QED BY <2>2, <2>3
<1>7. ASSUME NEW i \in 1 .. Len(p), NEW j \in 1 .. Len(p), i < j,
             Named(p[i]), Named(p[j]), p[i].owner # p[j].owner
      PROVE  \E k \in 1 .. Len(p) : i < k /\ k < j /\ p[k] = Freed
  <2>1. /\ i + 1 \in 1 .. Len(inbox) /\ p[i] = inbox[i + 1]
        /\ j + 1 \in 1 .. Len(inbox) /\ p[j] = inbox[j + 1]
    BY <1>2
  <2>2. i + 1 < j + 1 BY <1>7
  <2>3. PICK k \in 1 .. Len(inbox) : i + 1 < k /\ k < j + 1 /\ inbox[k] = Freed
    BY <1>7, <2>1, <2>2 DEF OwnersTrue
  <2>4. k - 1 \in 1 .. Len(p) /\ p[k - 1] = inbox[k] /\ i < k - 1 /\ k - 1 < j BY <1>2, <2>3
  <2> QED BY <2>3, <2>4
<1>8. OwnersTrue'
  <2>1. \A i \in 1 .. Len(inbox') : Named(inbox'[i]) /\ inbox'[i].owner # serving' =>
           \E j \in 1 .. Len(inbox') : i < j /\ inbox'[j] = Freed
    BY <1>3, <1>6 DEF Stays
  <2>2. \A i, j \in 1 .. Len(inbox') :
           i < j /\ Named(inbox'[i]) /\ Named(inbox'[j]) /\ inbox'[i].owner # inbox'[j].owner =>
               \E k \in 1 .. Len(inbox') : i < k /\ k < j /\ inbox'[k] = Freed
    BY <1>3, <1>7
  <2> QED BY <2>1, <2>2 DEF OwnersTrue, Named, Freed, OwnerIs
<1> QED BY <1>4, <1>5, <1>8

\* The owner a client has or is told.
LEMMA ReceivedOwner ==
    ASSUME TypeOK, OwnersTrue, OwnerTrue, inbox # <<>>, inbox' = Tail(inbox), serving' = serving,
           \/ owner' = owner /\ Head(inbox) # Freed
           \/ Head(inbox) = OwnerIs(owner') /\ owner' # owner
           \/ owner' = NoOwner
    PROVE  /\ OwnerTrue'
           /\ owner' # owner /\ owner # NoOwner => owner' = NoOwner
<1>1. inbox \in Seq(Message) BY DEF TypeOK
<1> DEFINE p == Tail(inbox)
<1>2. /\ Head(inbox) = inbox[1] /\ 1 \in 1 .. Len(inbox)
      /\ \A i \in 1 .. Len(p) : i + 1 \in 1 .. Len(inbox) /\ p[i] = inbox[i + 1] /\ 1 < i + 1
      /\ \A j \in 1 .. Len(inbox) : 1 < j => j - 1 \in 1 .. Len(p) /\ p[j - 1] = inbox[j]
      /\ \A j \in 1 .. Len(inbox) : j # 1 => 1 < j
      /\ \A i \in 1 .. Len(p), j \in 1 .. Len(inbox) : (j < i + 1 <=> j - 1 < i)
  BY <1>1, ShiftOf
<1>3. inbox' = p OBVIOUS
<1> HIDE DEF p
<1>4. ASSUME owner' # owner, owner # NoOwner, owner' # NoOwner PROVE FALSE
  <2>1. inbox[1] = OwnerIs(owner') BY <1>2, <1>4
  <2>2. Named(inbox[1]) /\ inbox[1].owner # owner BY <1>4, <2>1, MessageKinds
  <2>3. PICK k \in 1 .. Len(inbox) : k < 1 BY <1>2, <1>4, <2>2 DEF OwnerTrue
  <2>4. Len(inbox) \in Nat BY <1>1, ElementOf
  <2> QED BY <2>3, <2>4
<1>5. CASE owner' = NoOwner BY <1>5 DEF OwnerTrue
<1>6. CASE owner' # NoOwner
  <2>1. (owner' = owner /\ inbox[1] # Freed) \/ (owner = NoOwner /\ inbox[1] = OwnerIs(owner'))
    BY <1>2, <1>4, <1>6
  <2>2. owner' # serving => \E j \in 1 .. Len(inbox) : 1 < j /\ inbox[j] = Freed
    <3>1. CASE owner' = owner /\ inbox[1] # Freed BY <1>2, <1>6, <3>1 DEF OwnerTrue
    <3>2. CASE inbox[1] = OwnerIs(owner')
      BY <1>2, <1>6, <3>2, MessageKinds DEF OwnersTrue
    <3> QED BY <2>1, <3>1, <3>2
  <2>3. ASSUME NEW i \in 1 .. Len(p), Named(p[i]), p[i].owner # owner'
        PROVE  \E k \in 1 .. Len(inbox) : 1 < k /\ k < i + 1 /\ inbox[k] = Freed
    <3>1. i + 1 \in 1 .. Len(inbox) /\ p[i] = inbox[i + 1] /\ 1 < i + 1 BY <1>2
    <3>2. CASE owner' = owner /\ inbox[1] # Freed BY <1>2, <1>6, <2>3, <3>1, <3>2 DEF OwnerTrue
    <3>3. CASE inbox[1] = OwnerIs(owner')
      BY <1>2, <1>6, <2>3, <3>1, <3>3, MessageKinds DEF OwnersTrue
    <3> QED BY <2>1, <3>2, <3>3
  <2>4. owner' # serving => \E k \in 1 .. Len(p) : p[k] = Freed BY <1>2, <2>2
  <2>5. ASSUME NEW i \in 1 .. Len(p), Named(p[i]), p[i].owner # owner'
        PROVE  \E k \in 1 .. Len(p) : k < i /\ p[k] = Freed
    <3>1. PICK k \in 1 .. Len(inbox) : 1 < k /\ k < i + 1 /\ inbox[k] = Freed BY <2>3, <2>5
    <3>2. k - 1 \in 1 .. Len(p) /\ p[k - 1] = inbox[k] /\ k - 1 < i BY <1>2, <3>1
    <3> QED BY <3>1, <3>2
  <2> QED BY <1>3, <1>4, <2>4, <2>5 DEF OwnerTrue, Named, Freed, OwnerIs
<1> QED BY <1>4, <1>5, <1>6

LEMMA ReceivedRequest ==
    ASSUME TypeOK, RequestTrue, inbox # <<>>, inbox' = Tail(inbox),
           UNCHANGED <<calls, serving>>,
           request' = None \/ (request' = request /\ owner' = owner)
    PROVE  RequestTrue'
<1> SUFFICES ASSUME request' = request, owner' = owner, request # None PROVE RequestTrue'
  BY DEF RequestTrue
<1>1. inbox \in Seq(Message) BY DEF TypeOK
<1>2. \A i \in 1 .. Len(inbox') : i + 1 \in 1 .. Len(inbox) /\ inbox'[i] = inbox[i + 1]
  BY <1>1, ShiftOf
<1> QED BY <1>2 DEF RequestTrue, Shows

LEMMA ReceivedSnapshot ==
    ASSUME TypeOK, SnapshotTrue, inbox # <<>>, inbox' = Tail(inbox), Stays,
           snapshot' = snapshot, owner' = owner \/ clientState' # "Ready",
           clientState' = "Ready" =>
               /\ clientState = "Ready"
               /\ request' = None /\ ~timer' /\ owner = serving =>
                     request = None /\ ~timer /\ (snapshot.rev = rev \/ Head(inbox) # Changed(owner, rev))
    PROVE  SnapshotTrue'
<1>1. inbox \in Seq(Message) BY DEF TypeOK
<1>2. /\ Head(inbox) = inbox[1]
      /\ \A j \in 1 .. Len(inbox) :
            j # 1 => j - 1 \in 1 .. Len(inbox') /\ inbox'[j - 1] = inbox[j]
  BY <1>1, ShiftOf
<1>3. ASSUME clientState' = "Ready", request' = None, ~timer', owner = serving
      PROVE  \/ snapshot.rev = rev
             \/ \E j \in 1 .. Len(inbox') : inbox'[j] = Changed(serving, rev)
  <2>1. \/ snapshot.rev = rev
        \/ \E j \in 1 .. Len(inbox) : inbox[j] = Changed(serving, rev)
    BY <1>3 DEF SnapshotTrue
  <2>2. snapshot.rev = rev \/ inbox[1] # Changed(serving, rev) BY <1>2, <1>3
  <2> QED BY <1>2, <2>1, <2>2
<1> QED BY <1>3 DEF SnapshotTrue, Known, Changed, Stays

\* A delivery that keeps the client's own snapshot true keeps it all true.
LEMMA ReceivedAll ==
    ASSUME TypeOK, NewsInv, inbox # <<>>, inbox' = Tail(inbox), Stays,
           UNCHANGED <<calls, transportStarted>>,
           \/ owner' = owner /\ Head(inbox) # Freed
           \/ Head(inbox) = OwnerIs(owner') /\ owner' # owner
           \/ owner' = NoOwner,
           request' = None \/ (request' = request /\ owner' = owner),
           SnapshotTrue'
    PROVE  NewsInv' /\ (owner' # owner /\ owner # NoOwner => owner' = NoOwner)
<1>1. Newborn' /\ RepliesTrue' /\ OwnersTrue' BY ReceivedNews DEF NewsInv
<1>2. OwnerTrue' /\ (owner' # owner /\ owner # NoOwner => owner' = NoOwner)
  BY ReceivedOwner DEF NewsInv, Stays
<1>3. RequestTrue' BY ReceivedRequest DEF NewsInv, Stays
<1>4. Deaf' BY DEF NewsInv, Deaf
<1> QED BY <1>1, <1>2, <1>3, <1>4 DEF NewsInv

\* A delivery after which the client is not Ready, or no more sure than it was.
LEMMA ReceivedPlainly ==
    ASSUME TypeOK, NewsInv, inbox # <<>>, inbox' = Tail(inbox), Stays,
           UNCHANGED <<calls, transportStarted, snapshot, owner>>, Head(inbox) # Freed,
           \/ Head(inbox).kind # "changed" /\ UNCHANGED <<clientState, request, timer>>
           \/ clientState' # "Ready" /\ request' \in {request, None}
    PROVE  NewsInv'
<1>1. Head(inbox).kind # "changed" => Head(inbox) # Changed(owner, rev) BY DEF Changed
<1>2. SnapshotTrue' BY <1>1, ReceivedSnapshot DEF NewsInv
<1> QED BY <1>2, ReceivedAll

LEMMA DeliveriesNews ==
    ASSUME TypeOK, TypeOK', NewsInv, deliveries
    PROVE  NewsInv' /\ (owner' # owner /\ owner # NoOwner => owner' = NoOwner)
<1> DEFINE m == Head(inbox)
<1>1. /\ inbox # <<>> /\ inbox' = Tail(inbox) /\ Stays /\ UNCHANGED <<calls, transportStarted>>
      /\ m = inbox[1] /\ 1 \in 1 .. Len(inbox) /\ m \in Message
  <2>1. /\ inbox # <<>> /\ inbox' = Tail(inbox) /\ UNCHANGED <<service, transportStarted>>
    BY DEF deliveries, handleOwnerChanged, handleInvalidation, handleSnapshot, handleCommit,
           handleFailure, handleActivation, receive, fail, client
  <2>2. m = inbox[1] /\ 1 \in 1 .. Len(inbox) BY <2>1, ShiftOf DEF TypeOK
  <2>3. m \in Message BY <2>2, NewsTyped
  <2> QED BY <2>1, <2>2, <2>3 DEF service, Stays
<1>f. Freed.kind = "owner" BY DEF Freed, OwnerIs
<1>2. CASE handleOwnerChanged
  <2>1. m.kind = "owner" /\ m = OwnerIs(m.owner)
    <3>1. m.kind = "owner" BY <1>2 DEF handleOwnerChanged, receive
    <3> QED BY <1>1, <3>1 DEF Message, OwnerIs
  <2>2. CASE m.owner = owner
    <3>1. UNCHANGED <<owner, snapshot, clientState, request, timer>>
      BY <1>2, <2>2 DEF handleOwnerChanged, client
    <3>2. m # Changed(owner, rev) BY <2>1 DEF Changed
    <3>3. SnapshotTrue' BY <1>1, <3>1, <3>2, ReceivedSnapshot DEF NewsInv
    <3>4. m # Freed \/ owner' = NoOwner BY <2>1, <2>2, <3>1, MessageKinds DEF Freed
    <3> QED BY <1>1, <3>1, <3>3, <3>4, ReceivedAll
  <2>3. CASE m.owner # owner
    <3>1. /\ owner' = m.owner /\ request' = None /\ snapshot' = snapshot
          /\ clientState' \in {"Unavailable", "Authenticating"}
      BY <1>2, <2>3 DEF handleOwnerChanged
    <3>2. SnapshotTrue' BY <1>1, <3>1, ReceivedSnapshot DEF NewsInv
    <3>3. m = OwnerIs(owner') /\ owner' # owner BY <2>1, <2>3, <3>1
    <3> QED BY <1>1, <3>1, <3>2, <3>3, ReceivedAll
  <2> QED BY <2>2, <2>3
<1>3. CASE handleInvalidation
  <2>1. /\ m.kind = "changed" /\ UNCHANGED <<owner, snapshot, clientState, request>>
        /\ IF invalidates(m) THEN timer' = (timer \/ request = None) ELSE timer' = timer
    BY <1>3 DEF handleInvalidation, receive
  <2>2. ASSUME clientState = "Ready", request = None, ~timer', owner = serving
        PROVE  ~timer /\ (snapshot.rev = rev \/ m # Changed(owner, rev))
    <3>1. ~timer /\ ~invalidates(m) BY <2>1, <2>2 DEF TypeOK
    <3>2. snapshot # None /\ snapshot.owner = owner /\ snapshot.rev <= rev
      BY <2>2 DEF NewsInv, SnapshotTrue, Known
    <3>3. snapshot.rev \in Nat /\ rev \in Nat
      BY <3>2, BoundsAssumption DEF TypeOK, Snapshot
    <3>4. ASSUME m = Changed(owner, rev) PROVE snapshot.rev = rev
      <4>1. m.owner = owner /\ m.rev = rev BY <3>4 DEF Changed
      <4> QED BY <3>1, <3>2, <3>3, <4>1 DEF invalidates
    <3> QED BY <3>1, <3>4
  <2>3. SnapshotTrue' BY <1>1, <2>1, <2>2, ReceivedSnapshot DEF NewsInv
  <2> QED BY <1>1, <1>f, <2>1, <2>3, ReceivedAll
<1>4. CASE handleSnapshot
  <2>1. m.kind = "snapshot" /\ owner' = owner BY <1>4 DEF handleSnapshot, receive
  <2>2. CASE ~answers(m)
    <3>1. UNCHANGED <<snapshot, clientState, request, timer>> BY <1>4, <2>2 DEF handleSnapshot
    <3> QED BY <1>1, <1>f, <2>1, <3>1, ReceivedPlainly
  <2>3. CASE answers(m) /\ regressed(m.snapshot)
    <3>1. snapshot' = snapshot /\ clientState' = "Degraded" /\ request' = None
      BY <1>4, <2>3 DEF handleSnapshot
    <3> QED BY <1>1, <1>f, <2>1, <3>1, ReceivedPlainly
  <2>4. CASE answers(m) /\ ~regressed(m.snapshot)
    <3>1. snapshot' = m.snapshot /\ clientState' = "Ready" /\ request' = None
      BY <1>4, <2>4 DEF handleSnapshot
    <3>2. /\ Known(m.snapshot) /\ m.snapshot.owner = owner
          /\ m.snapshot.owner = serving =>
                \/ m.snapshot.rev = rev
                \/ \E j \in 1 .. Len(inbox) : 1 < j /\ inbox[j] = Changed(serving, rev)
      BY <1>1, <2>1, <2>4 DEF NewsInv, RepliesTrue, RequestTrue, answers, Shows
    <3>3. \A j \in 1 .. Len(inbox) : 1 < j => j - 1 \in 1 .. Len(inbox') /\ inbox'[j - 1] = inbox[j]
      BY <1>1, ShiftOf DEF TypeOK
    <3>4. m.snapshot.owner = serving =>
              \/ m.snapshot.rev = rev
              \/ \E j \in 1 .. Len(inbox') : inbox'[j] = Changed(serving, rev)
      BY <3>2, <3>3
    <3>5. m.snapshot \in Snapshot /\ None \notin Snapshot
      BY <1>1, <2>1, NewsTyped, NoneAssumption DEF Shows
    <3> HIDE DEF m
    <3>6. SnapshotTrue'
      BY <1>1, <2>1, <3>1, <3>2, <3>4, <3>5 DEF SnapshotTrue, Known, Stays, Changed
    <3> QED BY <1>1, <1>f, <2>1, <3>1, <3>6, ReceivedAll DEF m
  <2> QED BY <2>2, <2>3, <2>4
<1>5. CASE handleCommit
  <2>1. /\ m.kind = "commit" /\ UNCHANGED <<owner, snapshot>>
        /\ \/ clientState' = "Authenticating" /\ request' = None
           \/ UNCHANGED <<clientState, request, timer>>
    BY <1>5 DEF handleCommit, receive
  <2> QED BY <1>1, <1>f, <2>1, ReceivedPlainly
<1>6. CASE handleFailure
  <2>1. /\ m.kind = "error" /\ UNCHANGED <<owner, snapshot>>
        /\ \/ clientState' = "Degraded" /\ request' = None
           \/ UNCHANGED <<clientState, request, timer>>
    BY <1>6 DEF handleFailure, receive, fail, client
  <2> QED BY <1>1, <1>f, <2>1, ReceivedPlainly
<1>7. CASE handleActivation
  <2>1. /\ m.kind = "activation" /\ UNCHANGED <<owner, snapshot, request>>
        /\ clientState' = "Unavailable" \/ UNCHANGED <<clientState, timer>>
    BY <1>7 DEF handleActivation, receive
  <2> QED BY <1>1, <1>f, <2>1, ReceivedPlainly
<1> QED BY <1>2, <1>3, <1>4, <1>5, <1>6, <1>7 DEF deliveries

\* What the client is asked to do, and what it does by itself.
LEMMA InterfaceNews ==
    ASSUME ClientInv, TypeOK', NewsInv,
           start \/ refresh \/ stop \/ (\E w \in Write : setUserValue(w)) \/ timeout
              \/ handleRefreshTimer \/ handleBusDisconnected \/ reconnect
    PROVE  NewsInv'
<1>1. TypeOK BY DEF ClientInv
<1>2. clientState = "Ready" => owner # NoOwner /\ transportStarted
  BY <1>1, BoundsAssumption
  DEF NewsInv, SnapshotTrue, Deaf, TypeOK, Snapshot, Owner, NoOwner
<1>3. CASE start
  <2>1. /\ Stays /\ UNCHANGED <<inbox, owner, request, snapshot>> /\ clientState' # "Ready"
        /\ transportStarted' \/ UNCHANGED <<resolving, launching>>
    BY <1>3 DEF start, startTransport, service, Stays
  <2>2. ~transportStarted BY <1>3 DEF start
  <2> QED BY <2>1, <2>2, DeafNews DEF NewsInv, Deaf, Moves
<1>4. CASE refresh
  <2>1. /\ UNCHANGED <<inbox, calls, owner, snapshot, serving, births, rev, value, request,
                       clientState>>
        /\ transportStarted' /\ (timer => timer')
    BY <1>4 DEF refresh, requestActivationIfReady, service
  <2>2. Deaf' BY <2>1 DEF Deaf
  <2> QED BY <2>1, <2>2, QuietNews
<1>5. CASE stop
  <2>1. Stays BY <1>5 DEF stop, service, Stays
  <2> QED BY <1>5, <2>1, DeafNews DEF stop, Moves
<1>6. CASE \E w \in Write : setUserValue(w)
  <2>1. PICK w \in Write : setUserValue(w) BY <1>6
  <2> DEFINE c == CommitUserTransaction(nextToken, snapshot.rev, w)
  <2>2. owner # NoOwner /\ Free # {} /\ snapshot \in Snapshot
    BY <1>1, <1>2, <2>1 DEF setUserValue, canSetUserValue, TypeOK
  <2>3. nextToken \in Token BY <1>1, <2>2, NextTokenFresh
  <2>4. c \in Call /\ c.token = nextToken
    BY <2>2, <2>3, CallsTyped DEF CommitUserTransaction, Snapshot
  <2>5. /\ send(c) /\ request'.token = nextToken /\ request'.owner = owner
        /\ request' = [token |-> nextToken, owner |-> owner, kind |-> "commit"]
        /\ UNCHANGED <<owner, snapshot, clientState, transportStarted, serving, births, rev, value>>
    BY <2>1 DEF setUserValue
  <2>6. request' # None
    <3>1. request' \in Request BY <1>1, <2>2, <2>3, <2>5 DEF Request, TypeOK, NoOwner
    <3> QED BY <3>1, NoneAssumption
  <2> QED BY <2>2, <2>4, <2>5, <2>6, AskedNews
<1>7. CASE timeout
  <2>1. Deaf' BY <1>7 DEF timeout, fail, NewsInv, Deaf, busState
  <2> QED BY <1>7, <2>1, QuietNews DEF timeout, fail, service
<1>8. CASE handleRefreshTimer
  <2>1. /\ timer /\ ~timer'
        /\ UNCHANGED <<transportStarted, owner, snapshot, clientState, serving, births, rev, value>>
    BY <1>8 DEF handleRefreshTimer
  <2>2. CASE requestSnapshotNow /\ request = None
    <3> DEFINE c == GetSnapshot(nextToken)
    <3>1. /\ owner # NoOwner /\ Free # {} /\ send(c)
          /\ request' = [token |-> nextToken, owner |-> owner, kind |-> "snapshot"]
          /\ request'.token = nextToken /\ request'.owner = owner
      BY <2>2 DEF requestSnapshotNow
    <3>2. nextToken \in Token BY <1>1, <3>1, NextTokenFresh
    <3>3. c \in Call /\ c.token = nextToken BY <3>2, CallsTyped DEF GetSnapshot
    <3>4. request' # None
      <4>1. request' \in Request BY <1>1, <3>1, <3>2 DEF Request, TypeOK, NoOwner
      <4> QED BY <4>1, NoneAssumption
    <3> QED BY <2>1, <3>1, <3>3, <3>4, AskedNews
  <2>3. CASE /\ UNCHANGED <<request, inbox, calls>>
             /\ (owner # NoOwner /\ request # None) \/ clientState # "Ready"
    <3>1. Deaf'
      <4>1. ~transportStarted => launching' = launching /\ resolving' = resolving
        BY <1>8 DEF handleRefreshTimer, requestSnapshotNow
      <4> QED BY <2>1, <2>3, <4>1 DEF NewsInv, Deaf
    <3> QED BY <2>1, <2>3, <3>1, QuietNews
  <2> QED BY <1>2, <1>8, <2>2, <2>3 DEF handleRefreshTimer, requestSnapshotNow
<1>9. CASE handleBusDisconnected
  <2>1. /\ Stays /\ inbox' = <<>> /\ ~resolving' /\ ~launching' /\ snapshot' = snapshot
        /\ IF transportStarted
           THEN owner' = NoOwner /\ request' = None /\ clientState' = "Unavailable"
           ELSE UNCHANGED <<owner, request, clientState>>
    BY <1>9 DEF handleBusDisconnected, service, Stays
  <2>2. owner' = NoOwner /\ clientState' # "Ready" BY <2>1 DEF NewsInv, Deaf
  <2> QED BY <2>1, <2>2, DeafNews DEF Moves
<1>10. CASE reconnect
  <2>1. Deaf' BY <1>10 DEF reconnect, client, NewsInv, Deaf
  <2> QED BY <1>10, <2>1, QuietNews DEF reconnect, client, service
<1> QED BY <1>3, <1>4, <1>5, <1>6, <1>7, <1>8, <1>9, <1>10

\* The service goes on when nobody listens.
LEMMA UnheardNews ==
    ASSUME ClientInv, TypeOK', NewsInv, ~transportStarted,
           answersOfTheBus \/ otherCommit \/ otherActivation \/ die
    PROVE  NewsInv'
<1>1. serveSnapshot \/ serveCommit \/ otherCommit \/ otherActivation \/ die
  BY DEF answersOfTheBus, resolveOwner, activate, NewsInv, Deaf
<1>2. Moves BY <1>1, MovesStep
<1>3. UNCHANGED <<client, busState>>
  BY <1>1 DEF serveSnapshot, serveCommit, otherCommit, otherActivation, die
<1>4. inbox' = inbox
  BY <1>1 DEF serveSnapshot, serveCommit, otherCommit, otherActivation, die, post
<1> QED BY <1>2, <1>3, <1>4, DeafNews DEF NewsInv, Deaf, client, busState

\* What the client is told is true, whatever happens.
LEMMA NewsStep ==
    ASSUME ClientInv, NewsInv, [Next]_settingsVars
    PROVE  NewsInv' /\ (owner' # owner /\ owner # NoOwner => owner' = NoOwner)
<1>1. TypeOK BY DEF ClientInv
<1>2. CASE Next
  <2>1. TypeOK' BY <1>2, TypeStep DEF ClientInv
  <2>2. CASE deliveries BY <1>1, <2>1, <2>2, DeliveriesNews
  <2>3. CASE start \/ refresh \/ stop \/ (\E w \in Write : setUserValue(w)) \/ timeout
                \/ handleRefreshTimer \/ handleBusDisconnected \/ reconnect
    <3>1. NewsInv' BY <2>1, <2>3, InterfaceNews
    <3>2. owner' = owner \/ owner' = NoOwner
      BY <2>3 DEF start, refresh, stop, setUserValue, timeout, fail, handleRefreshTimer,
                  handleBusDisconnected, reconnect, client
    <3> QED BY <3>1, <3>2
  <2>4. CASE answersOfTheBus \/ otherCommit \/ otherActivation \/ die
    <3>1. NewsInv' BY <2>1, <2>4, ServiceNews, UnheardNews
    <3>2. owner' = owner
      BY <2>4 DEF answersOfTheBus, serveSnapshot, serveCommit, resolveOwner, activate, otherCommit,
                  otherActivation, die, client
    <3> QED BY <3>1, <3>2
  <2> QED BY <1>2, <2>2, <2>3, <2>4 DEF Next
<1>3. CASE UNCHANGED settingsVars
  <2>1. UNCHANGED <<inbox, calls, owner, snapshot, serving, births, rev, value, request,
                    clientState, timer, transportStarted, resolving, launching>>
    BY <1>3 DEF settingsVars, client, bus, busState, service
  <2>2. Deaf' BY <2>1 DEF NewsInv, Deaf
  <2> QED BY <2>1, <2>2, QuietNews
<1> QED BY <1>2, <1>3

LEMMA NewsInit ==
    ASSUME Init
    PROVE  NewsInv
BY DEF Init, NewsInv, Newborn, RepliesTrue, OwnersTrue, OwnerTrue, RequestTrue, Deaf, SnapshotTrue,
       NoOwner

LEMMA NewsTold ==
    ASSUME ClientInv, NewsInv
    PROVE  NoLostInvalidation
<1> SUFFICES ASSUME clientState = "Ready", request = None, ~timer
             PROVE  \/ snapshot = SettingsNow
                    \/ \E i \in DOMAIN inbox :
                          \/ /\ inbox[i].kind = "changed" /\ inbox[i].owner = owner
                             /\ inbox[i].rev = rev
                          \/ inbox[i].kind = "owner" /\ inbox[i].owner # owner
  BY DEF NoLostInvalidation
<1>1. /\ snapshot # None /\ snapshot.owner = owner /\ Known(snapshot) /\ snapshot \in Snapshot
      /\ owner # NoOwner
  BY BoundsAssumption
  DEF NewsInv, SnapshotTrue, ClientInv, TypeOK, Snapshot, Owner, NoOwner
<1>2. DOMAIN inbox = 1 .. Len(inbox)
  BY DEF ClientInv, TypeOK
<1>3. CASE owner # serving
  <2>1. PICK j \in 1 .. Len(inbox) : inbox[j] = Freed BY <1>1, <1>3 DEF NewsInv, OwnerTrue
  <2>2. Freed.kind = "owner" /\ Freed.owner = NoOwner BY DEF Freed, OwnerIs
  <2> QED BY <1>1, <1>2, <2>1, <2>2
<1>4. CASE owner = serving
  <2>1. CASE snapshot.rev = rev
    <3>1. snapshot.value = value BY <1>1, <1>4, <2>1 DEF Known
    <3>2. snapshot = SettingsNow BY <1>1, <1>4, <2>1, <3>1 DEF Snapshot, SettingsNow
    <3> QED BY <3>2
  <2>2. CASE snapshot.rev # rev
    <3>1. PICK j \in 1 .. Len(inbox) : inbox[j] = Changed(serving, rev)
      BY <1>4, <2>2 DEF NewsInv, SnapshotTrue
    <3>2. inbox[j].kind = "changed" /\ inbox[j].owner = owner /\ inbox[j].rev = rev
      BY <1>4, <3>1 DEF Changed
    <3> QED BY <1>2, <3>2
  <2> QED BY <2>1, <2>2
<1> QED BY <1>3, <1>4

\* A client that is Ready and idle shows the settings as they are, or a hint or
\* a change of owner is under way to it: no drop of a hint in handleInvalidation
\* or in handleRefreshTimer loses a change.
THEOREM InvalidationsKept == Spec => []NoLostInvalidation
<1>1. Init => NewsInv BY NewsInit
<1>2. ClientInv /\ NewsInv /\ [Next]_settingsVars => NewsInv' BY NewsStep
<1>3. ClientInv /\ NewsInv => NoLostInvalidation BY NewsTold
<1> QED BY <1>1, <1>2, <1>3, ClientInvariant, PTL DEF Spec

=============================================================================
