----------------------------- MODULE GatewayProofs -----------------------------
(* Proofs about Gateway for any number of senders, attempts, evaluations,      *)
(* reports, failures and restarts.                                             *)
EXTENDS Gateway, TLAPS

Requesting == {"Send", "Reopen"}
Invoking == {"Request", "Send", "Reopen", "Await"}

Inbound == Senders \union {Report}

SenderType == sender \in [Senders -> [at : SenderLabels, count : Nat]]
FlightType ==
    /\ requests \in Seq(Senders) /\ inbound \in Seq(Inbound)
    /\ listener \in [at : ListenerLabels, got : Inbound \union {Nothing}]
    /\ listener.at = "Store" => listener.got \in Senders
    /\ response \in Senders \union {Nothing}
OwnerType == invokeOwner \in Senders \union {NoThread} /\ requestOwner \in Senders \union {NoThread}

\* The two mutexes are held by the sender that is in the section they guard.
Exclusive ==
    \A s \in Senders : /\ sender[s].at \in Requesting <=> requestOwner = s
                       /\ sender[s].at \in Invoking <=> invokeOwner = s

\* Who gave up does not call again.
GaveUp == \A s \in Senders : s \in givenUp => sender[s].at = "Done"

\* Before a request is sent the last answer has been cleared.
Cleared == \A s \in Senders : sender[s].at \in Requesting => response = Nothing

\* What is on its way is waited for, or was.
In(s, q) == \E i \in DOMAIN q : q[i] = s
OnItsWay(s) == In(s, requests) \/ In(s, inbound) \/ listener.got = s
Expected(s) == s \in givenUp \/ sender[s].at = "Await"
Awaited == \A s \in Senders : OnItsWay(s) => Expected(s)

\* No request is answered twice: its sender's name is in one place only.
OnceIn(q) == \A i, j \in DOMAIN q : q[i] \in Senders /\ q[i] = q[j] => i = j
Once ==
    /\ OnceIn(requests) /\ OnceIn(inbound)
    /\ \A s \in Senders :
          /\ In(s, requests) => ~In(s, inbound)
          /\ listener.got = s => ~In(s, requests) /\ ~In(s, inbound)
          /\ response = s => ~OnItsWay(s)

Types == SenderType /\ FlightType /\ OwnerType
Claims == Exclusive /\ GaveUp /\ Cleared /\ Awaited /\ Once /\ OwnAnswer
IInv == Types /\ Claims

-----------------------------------------------------------------------------
(* Type correctness                                                          *)

\* One lemma per group of variables.
LEMMA NextSenderType ==
  ASSUME SenderType, [Next]_vars
  PROVE  SenderType'
<1> USE GatewayAssumption DEF SenderType, Go, SenderLabels
<1>1. ASSUME NEW s \in Senders, SendPacket(s) \/ Invoke(s) \/ Request(s) \/ Check(s) \/ Recheck(s)
      PROVE  SenderType'
  BY <1>1 DEF SendPacket, Invoke, Request, RequestKeeping, Check, Recheck
<1>2. ASSUME NEW s \in Senders, Send(s) PROVE SenderType'
  BY <1>2 DEF Send, Sent, SendThrows, Awaits
<1>3. ASSUME NEW s \in Senders, Reopen(s) PROVE SenderType'
  BY <1>3 DEF Reopen, Leave, Awaits
<1>4. ASSUME NEW s \in Senders, Evaluate(s) PROVE SenderType'
  BY <1>4 DEF Evaluate, EvaluateUntil
<1>5. CASE Listener
  BY <1>5 DEF Listener, ListenerOpens, Loop, Read, Reply, Store
<1>6. CASE Control \/ \E b \in BOOLEAN : StopListening(b)
  BY <1>6 DEF Control, StopListening, Shutdown, Join, Reset, Start, ControlStep
<1>7. CASE Answer \/ ReportPacket \/ Break \/ UNCHANGED vars
  BY <1>7 DEF Answer, ReportPacket, Break, Outside, vars
<1> QED
  BY <1>1, <1>2, <1>3, <1>4, <1>5, <1>6, <1>7 DEF Next, Sender

LEMMA NextOwnerType ==
  ASSUME OwnerType, [Next]_vars
  PROVE  OwnerType'
<1> USE DEF OwnerType, mutexes
<1>1. ASSUME NEW s \in Senders, SendPacket(s) \/ Invoke(s) \/ Request(s) \/ Check(s) \/ Recheck(s)
      PROVE  OwnerType'
  BY <1>1 DEF SendPacket, Invoke, Request, RequestKeeping, Check, Recheck
<1>2. ASSUME NEW s \in Senders, Send(s) \/ Reopen(s) \/ Evaluate(s) PROVE OwnerType'
  BY <1>2 DEF Send, Sent, SendThrows, Awaits, Reopen, Leave, Evaluate, EvaluateUntil
<1>3. CASE Listener
  BY <1>3 DEF Listener, ListenerOpens, Loop, Read, Reply, Store
<1>4. CASE Control \/ \E b \in BOOLEAN : StopListening(b)
  BY <1>4 DEF Control, StopListening, Shutdown, Join, Reset, Start, ControlStep
<1>5. CASE Answer \/ ReportPacket \/ Break \/ UNCHANGED vars
  BY <1>5 DEF Answer, ReportPacket, Break, Outside, vars
<1> QED
  BY <1>1, <1>2, <1>3, <1>4, <1>5 DEF Next, Sender

LEMMA SeqFacts ==
  ASSUME NEW S
  PROVE  /\ <<>> \in Seq(S)
         /\ \A q \in Seq(S), e \in S : Append(q, e) \in Seq(S)
         /\ \A q \in Seq(S) : q # <<>> => Head(q) \in S /\ Tail(q) \in Seq(S)
  OBVIOUS

LEMMA ConnectionType ==
  ASSUME requests \in Seq(Senders), inbound \in Seq(Inbound), [Next]_vars
  PROVE  requests' \in Seq(Senders) /\ inbound' \in Seq(Inbound)
<1> USE DEF connection, Becomes
<1>1. Senders \subseteq Inbound /\ Report \in Inbound
  BY DEF Inbound
<1>2. ASSUME NEW s \in Senders, SendPacket(s) \/ Invoke(s) \/ Request(s) \/ Check(s) \/ Recheck(s)
      PROVE  UNCHANGED <<requests, inbound>>
  BY <1>2 DEF SendPacket, Invoke, Request, RequestKeeping, Check, Recheck
<1>3. ASSUME NEW s \in Senders, Send(s)
      PROVE  requests' \in Seq(Senders) /\ inbound' \in Seq(Inbound)
  BY <1>1, <1>3, SeqFacts DEF Send, Sent, SendThrows
<1>4. ASSUME NEW s \in Senders, Reopen(s) \/ Evaluate(s)
      PROVE  requests' \in Seq(Senders) /\ inbound' \in Seq(Inbound)
  BY <1>4, SeqFacts DEF Reopen, Opened, OpenFailed, Evaluate, EvaluateUntil
<1>5. CASE ListenerOpens \/ Loop \/ Reply \/ Store
  BY <1>5, SeqFacts DEF ListenerOpens, Opened, OpenFailed, Loop, Reply, Store
<1>9. CASE Read
  <2>1. CASE ReadOne  BY <2>1, SeqFacts DEF ReadOne
  <2>2. CASE ReadNothing \/ ReadThrows  BY <2>2, SeqFacts DEF ReadNothing, ReadThrows
  <2> QED  BY <1>9, <2>1, <2>2 DEF Read
<1>6. CASE Control \/ \E b \in BOOLEAN : StopListening(b)
  BY <1>6, SeqFacts DEF Control, StopListening, Shutdown, Join, Reset, Start
<1>7. CASE Answer
  BY <1>1, <1>7, SeqFacts DEF Answer
<1>8. CASE ReportPacket \/ Break \/ UNCHANGED vars
  BY <1>1, <1>8, SeqFacts DEF ReportPacket, Break, vars
<1> QED
  BY <1>2, <1>3, <1>4, <1>5, <1>6, <1>7, <1>8, <1>9 DEF Next, Sender, Listener

LEMMA NextFlightType ==
  ASSUME FlightType, [Next]_vars
  PROVE  FlightType'
<1>1. requests' \in Seq(Senders) /\ inbound' \in Seq(Inbound)
  BY ConnectionType DEF FlightType
<1>2. inbound # <<>> => Head(inbound) \in Inbound
  BY DEF FlightType
<1>3. /\ listener' \in [at : ListenerLabels, got : Inbound \union {Nothing}]
      /\ listener'.at = "Store" => listener'.got \in Senders
  <2> USE DEF FlightType
  <2>1. ASSUME NEW s \in Senders, Sender(s) \/ SendPacket(s) PROVE UNCHANGED listener
    BY <2>1 DEF Sender, SendPacket, Invoke, Request, RequestKeeping, Check, Recheck, UsesIf, Uses,
                Send, Reopen, Evaluate, EvaluateUntil
  <2>2. CASE Listener
    BY <1>2, <2>2 DEF Listener, ListenerOpens, Loop, Read, ReadOne, ReadNothing, ReadThrows, Reply, Store,
                ListenerGoes, ListenerLabels, Inbound
  <2>3. CASE Control \/ \E b \in BOOLEAN : StopListening(b)
    BY <2>3 DEF Control, StopListening, Shutdown, Join, Reset, Start, ListenerGoes, ListenerLabels
  <2>4. CASE Answer \/ ReportPacket \/ Break \/ UNCHANGED vars
    BY <2>4 DEF Answer, ReportPacket, Break, Outside, vars
  <2> QED  BY <2>1, <2>2, <2>3, <2>4 DEF Next
<1>4. response' \in Senders \union {Nothing}
  <2> USE DEF FlightType
  <2>1. ASSUME NEW s \in Senders, Sender(s) \/ SendPacket(s) PROVE response' \in {response, Nothing}
    BY <2>1 DEF Sender, SendPacket, Invoke, Request, RequestKeeping, Check, Recheck,
                Send, Reopen, Evaluate, EvaluateUntil
  <2>2. CASE Listener
    BY <2>2 DEF Listener, ListenerOpens, Loop, Read, Reply, Store, ListenerAt
  <2>3. CASE Control \/ \E b \in BOOLEAN : StopListening(b)
    BY <2>3 DEF Control, StopListening, Shutdown, Join, Reset, Start, ControlStep
  <2>4. CASE Answer \/ ReportPacket \/ Break \/ UNCHANGED vars
    BY <2>4 DEF Answer, ReportPacket, Break, Outside, vars
  <2> QED  BY <2>1, <2>2, <2>3, <2>4 DEF Next
<1> QED
  BY <1>1, <1>3, <1>4 DEF FlightType

-----------------------------------------------------------------------------
(* The invariant                                                             *)

\* Thread names are no messages.
LEMMA Names ==
  /\ Nothing \notin Senders /\ Report \notin Senders /\ NoThread \notin Senders
  /\ Nothing # Report
  BY GatewayAssumption DEF Nothing, Report, NoThread

\* There is at most one sender that has a mutex.
LEMMA OneInvokes ==
  ASSUME Exclusive
  PROVE  /\ \A s, t \in Senders : sender[s].at \in Invoking /\ sender[t].at \in Invoking => s = t
         /\ requestOwner = NoThread => \A s \in Senders : sender[s].at \notin Requesting
         /\ invokeOwner = NoThread => \A s \in Senders : sender[s].at \notin Invoking
  BY Names DEF Exclusive

\* Nothing new is on its way, and what is remains expected.
LEMMA NothingNew ==
  ASSUME IInv,
         UNCHANGED <<requests, inbound>> \/ (requests' = <<>> /\ inbound' = <<>>),
         listener'.got \in {listener.got, Nothing},
         response' \in {response, Nothing},
         \A s \in Senders : OnItsWay(s) /\ Expected(s) => Expected(s)'
  PROVE  Awaited' /\ Once'
<1>1. CASE UNCHANGED <<requests, inbound>>
  BY <1>1, Names DEF IInv, Claims, Awaited, Once, OnItsWay, In, OnceIn
<1>2. CASE requests' = <<>> /\ inbound' = <<>>
  <2>1. \A s : ~In(s, requests)' /\ ~In(s, inbound)'
    BY <1>2 DEF In
  <2>2. OnceIn(requests)' /\ OnceIn(inbound)'
    BY <1>2 DEF OnceIn
  <2> QED
    BY <2>1, <2>2, Names DEF IInv, Claims, Awaited, Once, OnItsWay
<1> QED  BY <1>1, <1>2

\* A sender goes on outside of invoke, or enters it.
LEMMA BeforeInvoke ==
  ASSUME IInv, NEW s \in Senders, SendPacket(s) \/ Check(s) \/ Recheck(s) \/ Invoke(s)
  PROVE  Claims'
<1> USE DEF IInv, Types, Claims, SenderType, Go, At
<1>1. UNCHANGED <<requests, inbound, listener, response, givenUp>>
  BY DEF SendPacket, Check, Recheck, Invoke, UsesIf, connection
<1>2. /\ sender[s].at \notin Invoking \union {"Done"}
      /\ sender' = [sender EXCEPT ![s].at = sender'[s].at]
      /\ \/ sender'[s].at \in {"Done", "Check", "Recheck", "Invoke"} /\ UNCHANGED mutexes
         \/ sender'[s].at = "Request" /\ invokeOwner = NoThread /\ invokeOwner' = s /\ UNCHANGED requestOwner
  BY DEF SendPacket, Check, Recheck, Invoke, Invoking, mutexes
<1>3. Exclusive'
  BY <1>2, OneInvokes, Names DEF Exclusive, Invoking, Requesting, mutexes
<1>4. \A t \in Senders : /\ sender'[t].at = "Await" <=> sender[t].at = "Await"
                         /\ sender'[t].at \in Requesting <=> sender[t].at \in Requesting
  BY <1>2 DEF Invoking, Requesting
<1>5. Cleared' /\ OwnAnswer' /\ GaveUp'
  BY <1>1, <1>2, <1>4 DEF Cleared, OwnAnswer, GaveUp
<1>6. Awaited' /\ Once'
  BY <1>1, <1>4, NothingNew DEF Expected
<1> QED  BY <1>3, <1>5, <1>6

\* The sender that has the first mutex takes the second one.
LEMMA RequestKeeps ==
  ASSUME IInv, NEW s \in Senders, Request(s)
  PROVE  Claims'
<1> USE DEF IInv, Types, Claims, SenderType, Go, At
<1>1. UNCHANGED <<requests, inbound, listener, givenUp, invokeOwner>>
  BY DEF connection, Request, RequestKeeping
<1>2. /\ sender[s].at = "Request" /\ sender' = [sender EXCEPT ![s].at = "Send"]
      /\ sender'[s].at = "Send" /\ requestOwner = NoThread /\ requestOwner' = s
      /\ response' = Nothing
  BY DEF Request, RequestKeeping
<1>3. Exclusive' /\ GaveUp'
  BY <1>1, <1>2, OneInvokes, Names DEF Exclusive, Invoking, Requesting, GaveUp
<1>4. \A t \in Senders : sender'[t].at = "Await" <=> sender[t].at = "Await"
  BY <1>2
<1>5. Cleared' /\ OwnAnswer'
  BY <1>2, <1>4 DEF Cleared, OwnAnswer
<1>6. Awaited' /\ Once'
  BY <1>1, <1>2, <1>4, NothingNew DEF Expected
<1> QED  BY <1>3, <1>5, <1>6

\* What the sender of a request does to the mutexes and to itself.
Transmitting(s) ==
    \/ sender'[s].at \in Requesting /\ UNCHANGED requestOwner /\ UNCHANGED invokeOwner /\ UNCHANGED givenUp
    \/ sender'[s].at = "Await" /\ requestOwner' = NoThread /\ UNCHANGED invokeOwner /\ UNCHANGED givenUp
    \/ sender'[s].at = "Done" /\ requestOwner' = NoThread /\ invokeOwner' = NoThread
       /\ givenUp' = givenUp \union {s}

LEMMA TransmittingKeeps ==
  ASSUME IInv, SenderType', NEW s \in Senders, sender[s].at \in Requesting, Transmitting(s),
         \A t \in Senders : t # s => sender'[t] = sender[t],
         UNCHANGED response
  PROVE  /\ Exclusive' /\ GaveUp' /\ Cleared' /\ OwnAnswer'
         /\ ~Expected(s) /\ ~OnItsWay(s)
         /\ \A t \in Senders : Expected(t) => Expected(t)'
<1> USE DEF IInv, Types, Claims, SenderType, Requesting
<1>1. response = Nothing /\ s \notin givenUp
  BY DEF Cleared, GaveUp
<1>2. Exclusive'
  BY OneInvokes, Names DEF Transmitting, Exclusive, Invoking
<1>3. GaveUp' /\ Cleared' /\ OwnAnswer'
  BY <1>1, OneInvokes DEF Transmitting, GaveUp, Cleared, OwnAnswer, Invoking
<1>4. ~Expected(s) /\ ~OnItsWay(s)
  BY <1>1 DEF Expected, Awaited
<1>5. \A t \in Senders : Expected(t) => Expected(t)'
  BY <1>4 DEF Expected, Transmitting
<1> QED  BY <1>2, <1>3, <1>4, <1>5

\* A request is sent, or there is no connection; then nothing is on its way.
LEMMA SendKeeps ==
  ASSUME IInv, NEW s \in Senders, Send(s)
  PROVE  Claims'
<1> USE DEF IInv, Types, Claims, SenderType, Go, At
<1>1. UNCHANGED <<listener, givenUp, invokeOwner, response>> /\ sender[s].at = "Send"
  BY DEF Send, Uses, UsesIf
<1>2. /\ Transmitting(s) /\ SenderType'
      /\ \A t \in Senders : t # s => sender'[t] = sender[t]
  <2>1. SenderType'
    BY NextSenderType DEF Next, Sender
  <2>2. /\ UNCHANGED invokeOwner /\ UNCHANGED givenUp
        /\ \/ sender' = [sender EXCEPT ![s].at = "Await", ![s].count = 0] /\ requestOwner' = NoThread
           \/ sender' = [sender EXCEPT ![s].at = "Reopen"] /\ UNCHANGED requestOwner
           \/ sender' = sender /\ UNCHANGED requestOwner
    BY DEF Send, Sent, SendThrows, Awaits
  <2> QED  BY <1>1, <2>1, <2>2 DEF Transmitting, Requesting
<1>3. /\ Exclusive' /\ GaveUp' /\ Cleared' /\ OwnAnswer'
      /\ ~Expected(s) /\ ~OnItsWay(s)
      /\ \A t \in Senders : Expected(t) => Expected(t)'
  BY <1>1, <1>2, TransmittingKeeps DEF Requesting
<1>4. CASE ~Sent(s) \/ socket # "open"
  <2>1. UNCHANGED <<requests, inbound>> \/ (requests' = <<>> /\ inbound' = <<>>)
    BY <1>4 DEF Send, Sent, SendThrows, Becomes, connection
  <2> QED  BY <1>1, <1>3, <2>1, NothingNew
<1>5. CASE Sent(s) /\ socket = "open"
  <2>1. requests' = Append(requests, s) /\ UNCHANGED inbound /\ sender'[s].at = "Await"
    BY <1>5 DEF Sent, Awaits
  <2>2. /\ DOMAIN requests' = 1..(Len(requests) + 1) /\ DOMAIN requests = 1..Len(requests)
        /\ Len(requests) \in Nat
        /\ \A i \in 1..Len(requests) : requests'[i] = requests[i]
        /\ requests'[Len(requests) + 1] = s
    BY <2>1 DEF FlightType
  <2>3. \A t \in Senders : In(t, requests)' => t = s \/ In(t, requests)
    BY <2>2 DEF In
  <2>4. OnceIn(requests)'
    <3>1. \A i \in 1..Len(requests) : requests[i] # s
      BY <1>3, <2>2 DEF OnItsWay, In
    <3> QED  BY <2>2, <3>1 DEF Once, OnceIn
  <2>5. Awaited'
    BY <1>1, <1>3, <2>1, <2>3 DEF Awaited, OnItsWay, Expected, In
  <2>6. Once'
    <3>1. response = Nothing
      BY <1>1 DEF Cleared, Requesting
    <3> QED
      BY <1>1, <1>3, <2>1, <2>3, <2>4, <3>1, Names DEF Once, OnceIn, OnItsWay, In
  <2> QED  BY <1>3, <2>5, <2>6
<1> QED  BY <1>4, <1>5

\* The connection is opened again, or the call ends with an exception.
LEMMA ReopenKeeps ==
  ASSUME IInv, NEW s \in Senders, Reopen(s)
  PROVE  Claims'
<1> USE DEF IInv, Types, Claims, SenderType, Go, At
<1>1. UNCHANGED <<listener, response>> /\ sender[s].at = "Reopen"
  BY DEF Reopen, Uses, UsesIf
<1>2. /\ Transmitting(s) /\ SenderType'
      /\ \A t \in Senders : t # s => sender'[t] = sender[t]
  BY <1>1 DEF Reopen, Leave, Awaits, Transmitting, Requesting, SenderLabels, mutexes
<1>3. /\ Exclusive' /\ GaveUp' /\ Cleared' /\ OwnAnswer'
      /\ \A t \in Senders : Expected(t) => Expected(t)'
  BY <1>1, <1>2, TransmittingKeeps DEF Requesting
<1>4. UNCHANGED <<requests, inbound>> \/ (requests' = <<>> /\ inbound' = <<>>)
  BY DEF Reopen, Opened, OpenFailed, Becomes, connection
<1> QED  BY <1>1, <1>3, <1>4, NothingNew

\* A call that ends without its answer has given up.
LEMMA EvaluateKeeps ==
  ASSUME IInv, NEW s \in Senders, Evaluate(s)
  PROVE  Claims'
<1> USE DEF IInv, Types, Claims, SenderType, Go, At
<1>1. /\ UNCHANGED <<requests, inbound, listener, response, requestOwner>>
      /\ sender[s].at = "Await" /\ requestOwner = NoThread
  BY DEF Evaluate, EvaluateUntil, connection
<1>2. /\ SenderType' /\ \A t \in Senders : t # s => sender'[t] = sender[t]
      /\ \/ sender'[s].at = "Await" /\ UNCHANGED <<invokeOwner, givenUp>>
         \/ /\ sender'[s].at = "Done" /\ invokeOwner' = NoThread
            /\ givenUp' = givenUp \union {s} \/ (response = s /\ UNCHANGED givenUp)
  BY <1>1, NextSenderType DEF Evaluate, EvaluateUntil, Next, Sender
<1>3. Exclusive' /\ GaveUp' /\ Cleared' /\ OwnAnswer'
  BY <1>1, <1>2, OneInvokes, Names DEF Exclusive, Invoking, Requesting, GaveUp, Cleared, OwnAnswer
<1>4. \A t \in Senders : OnItsWay(t) /\ Expected(t) => Expected(t)'
  BY <1>2 DEF Expected, Once
<1> QED  BY <1>1, <1>3, <1>4, NothingNew

\* What the listener and the thread that starts and stops it leave alone.
LEMMA ListenerKeeps ==
  ASSUME IInv, ListenerOpens \/ Loop \/ ReadNothing \/ ReadThrows \/ Reply \/ Control
               \/ (\E b \in BOOLEAN : StopListening(b)) \/ Break \/ UNCHANGED vars,
         UNCHANGED <<response, mutexes, sender, givenUp>>
  PROVE  Claims'
<1>1. Exclusive' /\ GaveUp' /\ Cleared' /\ OwnAnswer'
  BY DEF IInv, Claims, Exclusive, GaveUp, Cleared, OwnAnswer, mutexes
<1>2. UNCHANGED <<requests, inbound>> \/ (requests' = <<>> /\ inbound' = <<>>)
  BY DEF ListenerOpens, Opened, OpenFailed, Loop, ReadNothing, ReadThrows, Reply, Control, Shutdown,
         Join, Reset, Start, StopListening, Break, Becomes, connection, vars
<1>3. listener'.got \in {listener.got, Nothing}
  BY DEF ListenerOpens, Loop, ReadNothing, ReadThrows, Reply, Control, Shutdown, Join, Reset, Start,
         StopListening, Break, Outside, ListenerGoes, vars
<1>4. \A s \in Senders : Expected(s) => Expected(s)'
  BY DEF Expected
<1> QED
  BY <1>1, <1>2, <1>3, <1>4, NothingNew DEF IInv, Claims

ConnectionTypeNext == requests' \in Seq(Senders) /\ inbound' \in Seq(Inbound)

\* What a sequence holds after an element is added to it or taken from it.
LEMMA Added ==
  ASSUME NEW S, NEW q \in Seq(S), NEW p \in Seq(S), NEW e \in S, p = Append(q, e)
  PROVE  /\ \A x : In(x, p) <=> x = e \/ In(x, q)
         /\ OnceIn(q) /\ (e \in Senders => ~In(e, q)) => OnceIn(p)
<1>1. /\ DOMAIN p = 1..(Len(q) + 1) /\ DOMAIN q = 1..Len(q) /\ Len(q) \in Nat
      /\ \A i \in 1..Len(q) : p[i] = q[i]
      /\ p[Len(q) + 1] = e
  OBVIOUS
<1> QED  BY <1>1 DEF In, OnceIn

LEMMA Taken ==
  ASSUME NEW S, NEW q \in Seq(S), NEW p \in Seq(S), q # <<>>, p = Tail(q)
  PROVE  /\ \A x : In(x, q) <=> x = Head(q) \/ In(x, p)
         /\ OnceIn(q) => OnceIn(p) /\ (Head(q) \in Senders => ~In(Head(q), p))
<1>1. /\ DOMAIN q = 1..Len(q) /\ Len(q) \in Nat \ {0} /\ DOMAIN p = 1..(Len(q) - 1)
      /\ \A i \in 1..(Len(q) - 1) : p[i] = q[i + 1]
      /\ Head(q) = q[1]
  OBVIOUS
<1>2. \A x : In(x, q) <=> x = Head(q) \/ In(x, p)
  <2>1. ASSUME NEW i \in DOMAIN q, i # 1
        PROVE  i - 1 \in DOMAIN p /\ p[i - 1] = q[i]
    BY <1>1, <2>1
  <2>2. ASSUME NEW i \in DOMAIN p PROVE i + 1 \in DOMAIN q /\ q[i + 1] = p[i]
    BY <1>1
  <2>3. 1 \in DOMAIN q /\ q[1] = Head(q)
    BY <1>1
  <2>4. ASSUME NEW x, In(x, q) PROVE x = Head(q) \/ In(x, p)
    <3>1. PICK i \in DOMAIN q : q[i] = x
      BY <2>4 DEF In
    <3> QED  BY <2>1, <2>3, <3>1 DEF In
  <2>5. ASSUME NEW x, x = Head(q) \/ In(x, p) PROVE In(x, q)
    BY <2>2, <2>3, <2>5 DEF In
  <2> QED  BY <2>4, <2>5
<1>3. ASSUME OnceIn(q) PROVE OnceIn(p)
  <2>1. ASSUME NEW i \in DOMAIN p PROVE p[i] = q[i + 1] /\ i + 1 \in DOMAIN q /\ i \in Nat
    BY <1>1
  <2> QED  BY <1>3, <2>1 DEF OnceIn
<1>4. ASSUME OnceIn(q), Head(q) \in Senders, In(Head(q), p) PROVE FALSE
  <2>1. PICK i \in DOMAIN p : p[i] = Head(q)
    BY <1>4 DEF In
  <2>2. i \in 1..(Len(q) - 1) /\ q[i + 1] = q[1] /\ q[1] \in Senders
    BY <1>1, <1>4, <2>1
  <2>3. 1 \in DOMAIN q /\ i + 1 \in DOMAIN q /\ i + 1 # 1
    BY <1>1, <2>2
  <2> QED  BY <1>4, <2>2, <2>3 DEF OnceIn
<1> QED  BY <1>2, <1>3, <1>4

\* The listener reads one message; an answer waits in it for the mutex.
LEMMA ReadOneKeeps ==
  ASSUME IInv, ConnectionTypeNext, ReadOne, UNCHANGED <<response, mutexes, sender, givenUp>>
  PROVE  Claims'
<1> DEFINE m == Head(inbound)
<1>1. Exclusive' /\ GaveUp' /\ Cleared' /\ OwnAnswer'
  BY DEF IInv, Claims, Exclusive, GaveUp, Cleared, OwnAnswer, mutexes
<1>2. UNCHANGED requests /\ inbound # <<>> /\ inbound' = Tail(inbound)
  BY DEF ReadOne
<1>3. /\ \A x : In(x, inbound) <=> x = m \/ In(x, inbound')
      /\ OnceIn(inbound') /\ (m \in Senders => ~In(m, inbound'))
  <2>1. inbound \in Seq(Inbound) /\ inbound' \in Seq(Inbound) /\ OnceIn(inbound)
    BY DEF IInv, Claims, Once, Types, FlightType, ConnectionTypeNext
  <2> QED  BY <1>2, <2>1, Taken
<1>4. listener'.got \in {m, Nothing}
  BY Names DEF ReadOne, ListenerGoes
<1>5. Awaited'
  BY <1>1, <1>2, <1>3, <1>4, Names DEF IInv, Claims, Awaited, OnItsWay, Expected, In
<1>6. Once'
  <2>1. OnceIn(requests') /\ \A s : In(s, requests') <=> In(s, requests)
    BY <1>2 DEF IInv, Claims, Once
  <2> QED  BY <1>2, <1>3, <1>4, <2>1, Names DEF IInv, Claims, Once, OnItsWay
<1> QED  BY <1>1, <1>5, <1>6 DEF Claims

\* The answer that is stored is for the call that waits, or for one that gave up.
LEMMA StoreKeeps ==
  ASSUME IInv, Store
  PROVE  Claims'
<1>1. /\ UNCHANGED <<requests, inbound, sender, mutexes, givenUp>> /\ requestOwner = NoThread
      /\ listener.at = "Store" /\ response' = listener.got /\ listener'.got = Nothing
  BY DEF Store, ListenerAt, ListenerGoes, connection
<1>2. listener.got \in Senders /\ Expected(listener.got)
  BY <1>1 DEF IInv, Types, FlightType, Claims, Awaited, OnItsWay
<1>3. Exclusive' /\ GaveUp' /\ Cleared'
  BY <1>1, Names DEF IInv, Claims, Exclusive, GaveUp, Cleared, mutexes
<1>4. OwnAnswer'
  BY <1>1, <1>2, OneInvokes DEF IInv, Claims, OwnAnswer, Expected, Invoking
<1>5. Awaited' /\ Once'
  BY <1>1, <1>2, Names DEF IInv, Claims, Awaited, Once, OnItsWay, Expected, In, OnceIn
<1> QED  BY <1>3, <1>4, <1>5 DEF Claims

\* The gateway answers the oldest request, or reports a packet.
LEMMA GatewayKeeps ==
  ASSUME IInv, ConnectionTypeNext, Answer \/ ReportPacket
  PROVE  Claims'
<1>0. /\ requests \in Seq(Senders) /\ requests' \in Seq(Senders)
      /\ inbound \in Seq(Inbound) /\ inbound' \in Seq(Inbound)
      /\ OnceIn(requests) /\ OnceIn(inbound)
  BY DEF IInv, Claims, Once, Types, FlightType, ConnectionTypeNext
<1>1. UNCHANGED <<listener, response, sender, mutexes, givenUp>>
  BY DEF Answer, ReportPacket, Outside
<1>2. Exclusive' /\ GaveUp' /\ Cleared' /\ OwnAnswer'
  BY <1>1 DEF IInv, Claims, Exclusive, GaveUp, Cleared, OwnAnswer, mutexes
<1>3. CASE Answer
  <2> DEFINE m == Head(requests)
  <2>1. /\ requests # <<>> /\ requests' = Tail(requests) /\ inbound' = Append(inbound, m)
        /\ m \in Senders /\ m \in Inbound
    BY <1>3, SeqFacts DEF Answer, IInv, Types, FlightType, Inbound
  <2>2. /\ \A x : In(x, requests) <=> x = m \/ In(x, requests')
        /\ OnceIn(requests') /\ ~In(m, requests')
    BY <1>0, <2>1, Taken
  <2>3. /\ \A x : In(x, inbound') <=> x = m \/ In(x, inbound)
        /\ OnceIn(inbound') /\ ~In(m, inbound)
    <3>1. ~In(m, inbound)
      BY <2>1, <2>2 DEF IInv, Claims, Once
    <3> QED  BY <1>0, <2>1, <3>1, Added
  <2>4. \A x : OnItsWay(x)' <=> OnItsWay(x)
    BY <1>1, <2>2, <2>3 DEF OnItsWay
  <2>5. Awaited'
    BY <1>1, <2>4 DEF IInv, Claims, Awaited, Expected
  <2>6. Once'
    BY <1>1, <2>1, <2>2, <2>3, <2>4 DEF IInv, Claims, Once
  <2> QED  BY <1>2, <2>5, <2>6 DEF Claims
<1>4. CASE ReportPacket
  <2>1. UNCHANGED requests /\ inbound' = Append(inbound, Report) /\ Report \in Inbound
    BY <1>4 DEF ReportPacket, Inbound
  <2>2. /\ \A x : In(x, inbound') <=> x = Report \/ In(x, inbound)
        /\ OnceIn(inbound')
    BY <1>0, <2>1, Added, Names
  <2>3. \A x : In(x, requests') <=> In(x, requests)
    BY <2>1
  <2>4. OnceIn(requests')
    BY <1>0, <2>1
  <2>5. \A x \in Senders : (OnItsWay(x)' <=> OnItsWay(x)) /\ (In(x, inbound') <=> In(x, inbound))
    BY <1>1, <2>2, <2>3, Names DEF OnItsWay
  <2>6. Awaited'
    BY <1>1, <2>5 DEF IInv, Claims, Awaited, Expected
  <2>7. Once'
    BY <1>1, <2>2, <2>3, <2>4, <2>5 DEF IInv, Claims, Once
  <2> QED  BY <1>2, <2>6, <2>7 DEF Claims
<1> QED  BY <1>3, <1>4

-----------------------------------------------------------------------------
LEMMA InitIInv == Init => IInv
<1> SUFFICES ASSUME Init PROVE IInv
  OBVIOUS
<1>1. SenderType /\ OwnerType
  BY DEF Init, SenderType, SenderLabels, OwnerType
<1>2. FlightType
  BY SeqFacts DEF Init, FlightType, ListenerLabels
<1>3. \A s \in Senders : sender[s].at = "New"
  BY DEF Init
<1>4. \A x : ~In(x, requests) /\ ~In(x, inbound)
  BY DEF Init, In
<1>5. Exclusive /\ GaveUp /\ Cleared /\ OwnAnswer
  BY <1>3, Names DEF Init, Exclusive, Requesting, Invoking, GaveUp, Cleared, OwnAnswer
<1>6. Awaited /\ Once
  BY <1>4, Names DEF Init, Awaited, Once, OnItsWay, OnceIn
<1> QED  BY <1>1, <1>2, <1>5, <1>6 DEF IInv, Types, Claims

LEMMA NextIInv == IInv /\ [Next]_vars => IInv'
<1> SUFFICES ASSUME IInv, [Next]_vars PROVE IInv'
  OBVIOUS
<1>1. Types'
  BY NextSenderType, NextFlightType, NextOwnerType DEF IInv, Types
<1>2. ConnectionTypeNext
  BY <1>1 DEF Types, FlightType, ConnectionTypeNext
<1>3. ASSUME NEW s \in Senders, SendPacket(s) \/ Sender(s) PROVE Claims'
  BY <1>3, BeforeInvoke, RequestKeeps, SendKeeps, ReopenKeeps, EvaluateKeeps DEF Sender
<1>4. ASSUME Listener PROVE Claims'
  <2>1. CASE Store  BY <2>1, StoreKeeps
  <2>2. CASE Read /\ ReadOne
    <3>1. UNCHANGED <<response, mutexes, sender, givenUp>>
      BY <2>2 DEF Read
    <3> QED  BY <1>2, <2>2, <3>1, ReadOneKeeps
  <2>3. CASE ListenerOpens \/ Loop \/ Reply \/ (Read /\ (ReadNothing \/ ReadThrows))
    <3>1. UNCHANGED <<response, mutexes, sender, givenUp>>
      BY <2>3 DEF ListenerOpens, Loop, Reply, Read
    <3> QED  BY <2>3, <3>1, ListenerKeeps
  <2> QED  BY <1>4, <2>1, <2>2, <2>3 DEF Listener, Read
<1>5. ASSUME Control \/ (\E b \in BOOLEAN : StopListening(b)) \/ Break \/ UNCHANGED vars
      PROVE  Claims'
  <2>1. UNCHANGED <<response, mutexes, sender, givenUp>>
    BY <1>5 DEF Control, Shutdown, Join, Reset, Start, StopListening, ControlStep, Break, Outside, vars
  <2> QED  BY <1>5, <2>1, ListenerKeeps
<1>6. ASSUME Answer \/ ReportPacket PROVE Claims'
  BY <1>2, <1>6, GatewayKeeps
<1>7. Claims'
  BY <1>3, <1>4, <1>5, <1>6 DEF Next
<1> QED  BY <1>1, <1>7 DEF IInv

\* invoke's caller gets the answer to its own request, or one that an earlier
\* call stopped waiting for: the invoke mutex lets one call wait at a time, the
\* old answer is cleared before a request leaves, and nobody is answered twice.
THEOREM AnswersAreOwn == Spec => []OwnAnswer
<1>1. IInv => OwnAnswer
  BY DEF IInv, Claims
<1> QED
  BY InitIInv, NextIInv, <1>1, PTL DEF Spec
=============================================================================
