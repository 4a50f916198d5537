------------------------------- MODULE Gateway -------------------------------
(***************************************************************************)
(* The Homegear Gateway (class HomegearGateway): a TLS connection over     *)
(* which the central's threads call sendPacket and wait for the answer,    *)
(* one at a time, while a listener thread reads the answers and the        *)
(* packets the gateway has received, and opens the connection again when   *)
(* it is lost.  Answers carry nothing that tells whose they are.           *)
(*                                                                         *)
(* The socket (C1Net::TcpSocket), the network and the gateway are external.*)
(* A connection that broke without anyone knowing is "broken": Connected() *)
(* is true, a Send may still succeed, a Read may throw or time out, and    *)
(* nothing arrives any more.  A message is read as a whole.  Time is not   *)
(* modelled: a wait may end before or after anything else happens.         *)
(***************************************************************************)
EXTENDS Naturals, Sequences

CONSTANTS
    Senders,       \* threads that call sendPacket, one for each packet
    Attempts,      \* transmissions invoke tries (5)
    Evaluations,   \* of the predicate invoke waits for, until it gives up (10)
    Packets,       \* bound on the packets the gateway reports
    Failures,      \* bound on what goes wrong in the network
    Restarts       \* bound on startListening and stopListening

ASSUME GatewayAssumption ==
    /\ Attempts \in Nat \ {0} /\ Evaluations \in Nat \ {0, 1}
    /\ Packets \in Nat /\ Failures \in Nat /\ Restarts \in Nat
    /\ Senders \intersect {"none", "packetReceived"} = {}

Nothing == "none"             \* no answer
Report == "packetReceived"    \* a request of the gateway

SenderLabels == {"New", "Done", "Check", "Recheck", "Invoke", "Request", "Send", "Reopen", "Await"}
ListenerLabels == {"None", "Done", "Open", "Loop", "Reconnect", "Read", "Reply", "Store"}
ControlLabels == {"Idle", "Shutdown", "Join", "Reset", "Start"}
NoThread == "none"

VARIABLES
    socket,        \* _tcpSocket: "none" (null), "closed", "open" or "broken"
    stopped,       \* _stopped
    stopCallback,  \* _stopCallbackThread
    waiting,       \* _waitForResponse
    response,      \* _rpcResponse: the sender it answers
    invokeOwner,   \* _invokeMutex
    requestOwner,  \* _requestMutex
    sender,        \* [at, count] of each sending thread
    listener,      \* [at, got]: got is what it has read
    control,       \* [at, restart] of the thread that starts and stops
    requests,      \* on their way to the gateway
    inbound,       \* answers and reports on their way to the listener
    reports, failures, restarts,
    givenUp,       \* calls that returned without an answer to their request
    crashed        \* the null pointer was used

connection == <<socket, requests, inbound>>
mutexes == <<invokeOwner, requestOwner>>
bounds == <<reports, failures, restarts>>
vars == <<connection, stopped, stopCallback, waiting, response, mutexes, sender, listener,
          control, bounds, givenUp, crashed>>

-----------------------------------------------------------------------------
Init ==
    /\ socket = "none" /\ requests = <<>> /\ inbound = <<>>
    /\ stopped = TRUE /\ stopCallback = FALSE
    /\ waiting = FALSE /\ response = Nothing
    /\ invokeOwner = NoThread /\ requestOwner = NoThread
    /\ sender = [s \in Senders |-> [at |-> "New", count |-> 0]]
    /\ listener = [at |-> "None", got |-> Nothing]
    /\ control = [at |-> "Idle", restart |-> FALSE]
    /\ reports = 0 /\ failures = 0 /\ restarts = 0
    /\ givenUp = {} /\ crashed = FALSE

At(s, l) == sender[s].at = l /\ ~crashed
Go(s, l) == sender' = [sender EXCEPT ![s].at = l]
ListenerAt(l) == listener.at = l /\ ~crashed
ListenerGoes(l) == listener' = [at |-> l, got |-> Nothing]
ControlAt(l) == control.at = l /\ ~crashed

-----------------------------------------------------------------------------
(* The socket                                                               *)

Connected == socket \in {"open", "broken"}
Usable == Connected /\ ~stopped

\* Whatever was on its way is lost with the connection.
Becomes(s) == socket' = s /\ requests' = <<>> /\ inbound' = <<>>
Fail == failures < Failures /\ failures' = failures + 1
NoFailure == UNCHANGED failures

\* Open() closes the old connection first; it throws if there is no new one.
Opened == Becomes("open") /\ NoFailure
OpenFailed == Becomes("closed") /\ Fail

-----------------------------------------------------------------------------
(* sendPacket                                                               *)

SendPacket(s) ==
    /\ At(s, "New")
    /\ Go(s, IF socket = "none" THEN "Done" ELSE "Check")
    /\ UNCHANGED <<connection, stopped, stopCallback, waiting, response, mutexes, listener,
                   control, bounds, givenUp, crashed>>

\* stopListening may have reset the pointer since the last time it was looked
\* at; then the process dies.
UsesIf(use) ==
    /\ crashed' = (use /\ socket = "none")
    /\ UNCHANGED <<stopped, stopCallback, listener, control, reports, restarts>>
Uses == UsesIf(TRUE)

Check(s) ==
    /\ At(s, "Check")
    /\ UsesIf(~stopped)
    /\ Go(s, IF Usable THEN "Invoke" ELSE "Recheck")
    /\ UNCHANGED <<connection, waiting, response, mutexes, failures, givenUp>>

\* Two seconds later.
Recheck(s) ==
    /\ At(s, "Recheck")
    /\ UsesIf(~stopped)
    /\ Go(s, IF Usable THEN "Invoke" ELSE "Done")
    /\ UNCHANGED <<connection, waiting, response, mutexes, failures, givenUp>>

-----------------------------------------------------------------------------
(* invoke                                                                   *)

Invoke(s) ==
    /\ At(s, "Invoke") /\ invokeOwner = NoThread
    /\ invokeOwner' = s
    /\ Go(s, "Request")
    /\ UNCHANGED <<connection, stopped, stopCallback, waiting, response, requestOwner, listener,
                   control, bounds, givenUp, crashed>>

RequestKeeping(s, old) ==
    /\ At(s, "Request") /\ requestOwner = NoThread
    /\ requestOwner' = s
    /\ response' = old /\ waiting' = TRUE
    /\ Go(s, "Send")
    /\ UNCHANGED <<connection, stopped, stopCallback, invokeOwner, listener, control, bounds,
                   givenUp, crashed>>
RequestUncleared(s) == RequestKeeping(s, response)
Request(s) == RequestKeeping(s, Nothing)

\* After the last attempt invoke waits although nothing has been sent.
Awaits(s) ==
    /\ sender' = [sender EXCEPT ![s].at = "Await", ![s].count = 0]
    /\ requestOwner' = NoThread

Sent(s) ==
    /\ Connected
    /\ requests' = IF socket = "open" THEN Append(requests, s) ELSE requests
    /\ Awaits(s) /\ NoFailure
    /\ UNCHANGED <<socket, inbound>>
SendThrows(s) ==
    /\ \/ Connected /\ Fail
       \/ socket = "closed" /\ NoFailure
    /\ Becomes("closed")
    /\ Go(s, "Reopen")
    /\ UNCHANGED requestOwner
Send(s) ==
    /\ At(s, "Send")
    /\ Uses
    /\ \/ Sent(s)
       \/ SendThrows(s)
       \/ socket = "none" /\ UNCHANGED <<connection, sender, requestOwner, failures>>
    /\ UNCHANGED <<waiting, response, invokeOwner, givenUp>>

\* The exception of Open leaves invoke at once: _waitForResponse stays set.
Leave(s) ==
    /\ Go(s, "Done")
    /\ invokeOwner' = NoThread /\ requestOwner' = NoThread
    /\ givenUp' = givenUp \union {s}
Reopen(s) ==
    /\ At(s, "Reopen")
    /\ Uses
    /\ \/ /\ socket # "none" /\ Opened
          /\ UNCHANGED <<invokeOwner, givenUp>>
          /\ IF sender[s].count + 1 = Attempts THEN Awaits(s)
             ELSE /\ sender' = [sender EXCEPT ![s].at = "Send", ![s].count = @ + 1]
                  /\ UNCHANGED requestOwner
       \/ socket # "none" /\ OpenFailed /\ Leave(s)
       \/ socket = "none" /\ UNCHANGED <<connection, sender, mutexes, failures, givenUp>>
    /\ UNCHANGED <<waiting, response>>

\* wait_for evaluates its predicate with the mutex locked: at once, when it is
\* notified and when a second is over.  An answer seen by the last evaluation
\* comes too late.
EvaluateUntil(s, last) ==
    LET n == sender[s].count + 1
    IN  /\ At(s, "Await") /\ requestOwner = NoThread
        /\ IF response # Nothing \/ stopped \/ n = last
             THEN /\ waiting' = FALSE
                  /\ invokeOwner' = NoThread
                  /\ Go(s, "Done")
                  /\ givenUp' = IF response = s /\ n # last THEN givenUp
                                ELSE givenUp \union {s}
             ELSE /\ sender' = [sender EXCEPT ![s].count = IF n < last THEN n ELSE @]
                  /\ UNCHANGED <<waiting, invokeOwner, givenUp>>
        /\ UNCHANGED <<connection, stopped, stopCallback, response, requestOwner, listener,
                       control, bounds, crashed>>
EvaluateForever(s) == EvaluateUntil(s, 0)
Evaluate(s) == EvaluateUntil(s, Evaluations)

-----------------------------------------------------------------------------
(* listen                                                                   *)

StoppedStill == stopped /\ listener.at = "Reconnect"
StoppedAfterOpen == FALSE
ListenerOpens ==
    /\ ListenerAt("Open") \/ ListenerAt("Reconnect")
    /\ ListenerGoes("Loop")
    /\ \/ Opened /\ stopped' = StoppedAfterOpen
       \/ OpenFailed /\ stopped' = (stopped \/ listener.at = "Reconnect")
    /\ UNCHANGED <<stopCallback, waiting, response, mutexes, sender, control, reports,
                   restarts, givenUp, crashed>>

Loop ==
    /\ ListenerAt("Loop")
    /\ \/ stopCallback /\ ListenerGoes("Done") /\ UNCHANGED connection
       \/ ~stopCallback /\ ~Usable /\ ListenerGoes("Reconnect") /\ Becomes("closed")
       \/ ~stopCallback /\ Usable /\ ListenerGoes("Read") /\ UNCHANGED connection
    /\ UNCHANGED <<stopped, stopCallback, waiting, response, mutexes, sender, control, bounds,
                   givenUp, crashed>>

\* An answer is taken only while somebody waits for one; the flag is read
\* before the mutex is locked.
ReadOne ==
    /\ inbound # <<>>
    /\ inbound' = Tail(inbound)
    /\ LET m == Head(inbound)
       IN  IF m = Report \/ waiting
             THEN listener' = [at |-> IF m = Report THEN "Reply" ELSE "Store", got |-> m]
             ELSE ListenerGoes("Loop")
    /\ UNCHANGED <<socket, requests, stopped>>
\* The time to read is over, whether or not there is a connection still, or Read
\* finds that there is none.
ReadNothing == ListenerGoes("Loop") /\ UNCHANGED <<connection, stopped>>
ReadThrows == socket # "open" /\ ListenerGoes("Loop") /\ Becomes("closed") /\ stopped' = TRUE
Read ==
    /\ ListenerAt("Read")
    /\ ReadOne \/ ReadNothing \/ ReadThrows
    /\ UNCHANGED <<stopCallback, waiting, response, mutexes, sender, control, bounds, givenUp,
                   crashed>>

\* The packet goes to the central and the gateway gets an answer.
Reply ==
    /\ ListenerAt("Reply")
    /\ ListenerGoes("Loop")
    /\ \/ Connected /\ NoFailure /\ UNCHANGED <<connection, stopped>>
       \/ Connected /\ Fail /\ Becomes("closed") /\ stopped' = TRUE
       \/ ~Connected /\ NoFailure /\ stopped' = TRUE /\ UNCHANGED connection
    /\ UNCHANGED <<stopCallback, waiting, response, mutexes, sender, control, reports,
                   restarts, givenUp, crashed>>

Store ==
    /\ ListenerAt("Store") /\ requestOwner = NoThread
    /\ response' = listener.got
    /\ ListenerGoes("Loop")
    /\ UNCHANGED <<connection, stopped, stopCallback, waiting, mutexes, sender, control, bounds,
                   givenUp, crashed>>

-----------------------------------------------------------------------------
(* startListening and stopListening                                         *)

ControlStep == UNCHANGED <<waiting, response, mutexes, sender, reports, failures, givenUp,
                           crashed>>

StopListening(restart) ==
    /\ ControlAt("Idle") /\ restarts < Restarts
    /\ restarts' = restarts + 1
    /\ stopCallback' = TRUE
    /\ control' = [at |-> "Shutdown", restart |-> restart]
    /\ UNCHANGED <<connection, stopped, listener>>
    /\ ControlStep

Shutdown ==
    /\ ControlAt("Shutdown")
    /\ IF socket # "none" THEN Becomes("closed") ELSE UNCHANGED connection
    /\ control' = [control EXCEPT !.at = "Join"]
    /\ UNCHANGED <<stopped, stopCallback, listener, restarts>>
    /\ ControlStep

Join ==
    /\ ControlAt("Join") /\ listener.at \in {"None", "Done"}
    /\ ListenerGoes("None")
    /\ stopped' = TRUE
    /\ control' = [control EXCEPT !.at = "Reset"]
    /\ UNCHANGED <<connection, stopCallback, restarts>>
    /\ ControlStep

Reset ==
    /\ ControlAt("Reset")
    /\ Becomes("none")
    /\ control' = [control EXCEPT !.at = IF control.restart THEN "Start" ELSE "Idle"]
    /\ UNCHANGED <<stopped, stopCallback, listener, restarts>>
    /\ ControlStep

Start ==
    /\ ControlAt("Start")
    /\ Becomes("closed")
    /\ stopCallback' = FALSE
    /\ ListenerGoes("Open")
    /\ control' = [control EXCEPT !.at = "Idle"]
    /\ UNCHANGED <<stopped, restarts>>
    /\ ControlStep

-----------------------------------------------------------------------------
(* The gateway and the network                                              *)

Outside == UNCHANGED <<stopped, stopCallback, waiting, response, mutexes, sender, listener,
                       control, restarts, givenUp, crashed>>

Answer ==
    /\ requests # <<>> /\ ~crashed
    /\ inbound' = Append(inbound, Head(requests)) /\ requests' = Tail(requests)
    /\ UNCHANGED <<socket, reports, failures>>
    /\ Outside

ReportPacket ==
    /\ socket = "open" /\ reports < Packets /\ ~crashed
    /\ inbound' = Append(inbound, Report) /\ reports' = reports + 1
    /\ UNCHANGED <<socket, requests, failures>>
    /\ Outside

Break ==
    /\ socket = "open" /\ Fail /\ ~crashed
    /\ Becomes("broken")
    /\ UNCHANGED reports
    /\ Outside

-----------------------------------------------------------------------------
Sender(s) == Check(s) \/ Recheck(s) \/ Invoke(s) \/ Request(s) \/ Send(s)
             \/ Reopen(s) \/ Evaluate(s)
Listener == ListenerOpens \/ Loop \/ Read \/ Reply \/ Store
Control == Shutdown \/ Join \/ Reset \/ Start
Next ==
    \/ \E s \in Senders : SendPacket(s) \/ Sender(s)
    \/ Listener \/ Control
    \/ \E restart \in BOOLEAN : StopListening(restart)
    \/ Answer \/ ReportPacket \/ Break

Spec == Init /\ [][Next]_vars

\* Threads go on, and the gateway answers as long as the connection is open.
FairSpec ==
    /\ Spec
    /\ \A s \in Senders : WF_vars(Sender(s))
    /\ WF_vars(Listener) /\ WF_vars(Control) /\ WF_vars(Answer)

-----------------------------------------------------------------------------
\* Types; no thread transmits or asks more often than the code allows.
TypeOK ==
    /\ socket \in {"none", "closed", "open", "broken"}
    /\ requests \in Seq(Senders) /\ inbound \in Seq(Senders \union {Report})
    /\ stopped \in BOOLEAN /\ stopCallback \in BOOLEAN /\ waiting \in BOOLEAN
    /\ response \in Senders \union {Nothing}
    /\ invokeOwner \in Senders \union {NoThread} /\ requestOwner \in Senders \union {NoThread}
    /\ sender \in [Senders -> [at : SenderLabels, count : 0..(Attempts + Evaluations)]]
    /\ listener \in [at : ListenerLabels, got : Senders \union {Nothing, Report}]
    /\ control \in [at : ControlLabels, restart : BOOLEAN]
    /\ \A s \in Senders : sender[s].count < IF sender[s].at = "Await" THEN Evaluations ELSE Attempts
    /\ givenUp \subseteq Senders /\ crashed \in BOOLEAN

\* The answer a call returns is the answer to its own request, unless an
\* earlier call gave up and left its answer to come.
OwnAnswer ==
    \A s \in Senders :
        sender[s].at = "Await" => response \in {Nothing, s} \union givenUp

\* Every sendPacket comes back, whatever the network does, and so do
\* startListening and stopListening, unless stopListening took the socket away
\* under a sender.
CallsReturn ==
    /\ \A s \in Senders : sender[s].at # "New" ~> (sender[s].at = "Done" \/ crashed)
    /\ control.at # "Idle" ~> (control.at = "Idle" \/ crashed)

\* A connection that is known to be lost, because a thread has failed to use it or
\* to open it, comes back, unless the listener is told to stop.  One that broke
\* without anyone knowing need not: the listener's reads time out, nothing is sent
\* to find out, and it stays broken until a call of sendPacket fails.
KnownLost == listener.at # "None" /\ ~stopCallback /\ (stopped \/ socket = "closed")
Reconnects == KnownLost ~> (socket = "open" /\ ~stopped) \/ stopCallback \/ crashed
=============================================================================
