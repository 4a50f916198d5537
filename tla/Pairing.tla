-------------------------------- MODULE Pairing --------------------------------
(***************************************************************************)
(* Pairing and unpairing of one device by MAXCentral: the install mode and *)
(* its timer thread, the handlers of pairing requests and of               *)
(* acknowledgements on the listener thread, deleteDevice and its unpair    *)
(* thread, the three maps of peers, and dispose.  The send queues are what *)
(* PacketQueue and QueueManager promise: a queue's front packet is sent,   *)
(* again when no answer comes, and a queue in which nothing happens goes.  *)
(* The device and the air are external.                                    *)
(***************************************************************************)
EXTENDS Naturals, Sequences

CONSTANTS
    Calls,      \* bound on the RPC calls
    Requests,   \* bound on the pairing requests of the device
    Sends,      \* how often a packet is sent at most
    Duration    \* of the install mode, in steps of its timer

ASSUME PairingAssumption ==
    /\ Calls \in Nat /\ Requests \in Nat
    /\ Sends \in Nat \ {0} /\ Duration \in Nat \ {0}

Threads == {"rpc", "listener", "timer", "unpair", "central"}
\* MAXPeer objects and send queues are numbered in the order of their creation.
Peers == 1..(Requests + 1)
Queues == 1..(Requests + Calls)
None == 0
NoThread == "none"

Kinds == {"include", "reset", "other"}
\* What the device sends: a request says whether it names this central, an
\* answer to what it is one.
Message == [type : {"request"}, mine : BOOLEAN]
           \union [type : {"ack", "nack"}, of : Kinds]
NoMessage == [type |-> "none"]
NoCall == [on |-> FALSE, peer |-> None, force |-> FALSE]

Labels == {"Idle", "Done", "ModeLock", "ModeJoin", "UnpairLock", "UnpairJoin", "Poll",
           "Delete", "Erase", "EraseWait", "Access", "AccessPeer", "Request", "Include", "Ack", "Add",
           "Save", "AddID", "AckPop", "Start", "Loop", "Reset", "ResetQueue", "StopTimer", "StopTimerJoin",
           "Disposed"}

VARIABLES
    \* the install mode
    pairing,      \* _pairing
    stopTimer,    \* _stopPairingModeThread
    timeLeft,     \* _timeLeftInPairingMode
    elapsed,      \* of the timer thread
    modeOwner,    \* holds _pairingModeThreadMutex
    unpairOwner,  \* holds _unpairThreadMutex
    disposing,    \* _disposing
    \* the peers
    peerCount,    \* MAXPeer objects created
    byAddress,    \* _peers
    bySerial,     \* _peersBySerial
    byID,         \* _peersById
    saved,        \* peers with a row in the database
    \* the queues
    queueCount,   \* send queues created
    registered,   \* the queue in the QueueManager
    queue,        \* type, peer and entries of a queue, how often its front was sent
    sent,         \* _sentPackets: the packet last sent to the device
    sentOld,      \* ... more than two seconds ago
    \* the device
    device,       \* "new" or "paired"
    air,          \* what it has sent and nobody has received
    \* the threads
    calls, requests,
    want,         \* arguments of the RPC call: install mode on; peer, force
    unpairID,     \* the peer the unpair thread is to reset
    message,      \* the message the listener works on
    wasPairing,   \* the install mode as checkAccess first reads it
    held,         \* the queue a thread has got
    ref,          \* the peer a thread has got
    missed,       \* an answer was lost, or came too late to be recognised
    crossed,      \* a reset went out while an answer to something else was due
    revived,      \* a peer was added again while a thread was deleting it
    late,         \* deleteDevice was under way when the central was disposed
    pc

mode == <<pairing, stopTimer, timeLeft, elapsed>>
mutexes == <<modeOwner, unpairOwner>>
maps == <<peerCount, byAddress, bySerial, byID, saved>>
queuing == <<queueCount, registered, queue, sent, sentOld>>
outside == <<device, air, requests>>
task == <<message, wasPairing, held>>
locals == <<calls, want, unpairID, ref, task>>
history == <<missed, crossed, revived, late>>
vars == <<mode, mutexes, disposing, maps, queuing, outside, locals, history, pc>>

Goto(t, l) == pc' = [pc EXCEPT ![t] = l]
Running(t) == pc[t] \notin {"Idle", "Done"}
Empty == [type |-> "DEFAULT", peer |-> None, entries |-> <<>>, sends |-> 0]

Blocked(t) ==
    \/ pc[t] \in {"ModeLock", "StopTimer"} /\ modeOwner # NoThread
    \/ pc[t] \in {"ModeJoin", "StopTimerJoin"} /\ Running("timer")
    \/ pc[t] = "UnpairLock" /\ unpairOwner # NoThread
    \/ pc[t] = "UnpairJoin" /\ Running("unpair")
At(t, l) == pc[t] = l /\ ~Blocked(t)

Gone == pc["central"] = "Disposed"
\* QueueManager::get and PacketManager::get return null once disposed.
Registered == IF Gone THEN None ELSE registered
Sent == IF Gone THEN "none" ELSE sent

\* The front of a queue and what is known about it.
FrontIs(q, kinds) == queue[q].entries # <<>> /\ Head(queue[q].entries) \in kinds
Unsent(q) == FrontIs(q, Kinds) /\ queue[q].sends = 0
\* Answers and first transmissions take milliseconds, the waits of the threads
\* at least a hundred.
Waiting == {"Idle", "Done", "Loop", "Poll", "EraseWait", "Disposed"}
TimePasses ==
    /\ \A t \in Threads : pc[t] \in Waiting \/ Blocked(t)
    /\ air = <<>> \/ Running("listener") \/ disposing
    /\ registered # None /\ ~Gone => ~Unsent(registered)

\* The device may have been paired before (loadPeers).
Init ==
    /\ pairing = FALSE /\ stopTimer = FALSE /\ timeLeft = 0 /\ elapsed = 0
    /\ modeOwner = NoThread /\ unpairOwner = NoThread /\ disposing = FALSE
    /\ \/ peerCount = 0 /\ byID = {} /\ device = "new"
       \/ peerCount = 1 /\ byID = {1} /\ device = "paired"
    /\ byAddress = peerCount /\ bySerial = peerCount /\ saved = byID
    /\ queueCount = 0 /\ registered = None
    /\ queue = [q \in Queues |-> Empty]
    /\ sent = "none" /\ sentOld = FALSE
    /\ air = <<>>
    /\ calls = 0 /\ requests = 0
    /\ want = NoCall /\ message = NoMessage /\ wasPairing = FALSE
    /\ held = None /\ unpairID = None /\ ref = [t \in Threads |-> None]
    /\ missed = FALSE /\ crossed = FALSE /\ revived = FALSE /\ late = FALSE
    /\ pc = [t \in Threads |-> "Idle"]

-----------------------------------------------------------------------------
(* The device and the air                                                  *)

\* Once the event handlers are removed, what a device sends is lost.
Emit(m) == air' = IF disposing THEN air ELSE Append(air, m)

\* Its button is pressed, maybe after a reset to factory defaults.
Press ==
    /\ requests < Requests /\ requests' = requests + 1 /\ ~disposing
    /\ device' \in {device, "new"}
    /\ Emit([type |-> "request", mine |-> device' = "paired"])
    /\ UNCHANGED <<mode, mutexes, disposing, maps, queuing, locals, history, pc>>

\* A device answers what it understands; a new one only an inclusion.
Understands(p) == device = "paired" \/ p = "include"
After(p) == CASE p = "include" -> "paired" [] p = "reset" -> "new" [] OTHER -> device
\* The listener has an answer to something else still before it.
AnswerDue == \/ \E i \in 1..Len(air) : air[i].type = "ack"
             \/ message.type = "ack"

\* sendPacket, from the queue: the packet is remembered as the one last sent; an
\* equal one does not replace it.
Remember(p) == IF sent = p THEN UNCHANGED <<sent, sentOld>> ELSE sent' = p /\ sentOld' = FALSE

Transmit ==
    /\ registered # None /\ FrontIs(registered, Kinds) /\ ~Gone
    /\ queue[registered].sends < Sends
    /\ queue[registered].sends > 0 => TimePasses
    /\ queue' = [queue EXCEPT ![registered].sends = @ + 1]
    /\ LET p == Head(queue[registered].entries)
       IN  /\ Remember(p)
           /\ crossed' = (crossed \/ (p = "reset" /\ AnswerDue))
           /\ \/ UNCHANGED <<device, air, missed>>
              \/ /\ Understands(p)
                 /\ \/ device' = After(p) /\ Emit([type |-> "ack", of |-> p])
                       /\ UNCHANGED missed
                    \/ device' = After(p) /\ missed' = (missed \/ p = "include") /\ UNCHANGED air
                    \/ Emit([type |-> "nack", of |-> p]) /\ UNCHANGED <<device, missed>>
    /\ UNCHANGED <<mode, mutexes, disposing, maps, queueCount, registered, requests, locals, revived,
                   late, pc>>

\* Two seconds later the PacketManager's worker may forget the packet.
Grow ==
    /\ Sent # "none" /\ ~sentOld /\ TimePasses
    /\ sentOld' = TRUE
    /\ UNCHANGED <<mode, mutexes, disposing, maps, queueCount, registered, queue, sent,
                   outside, locals, history, pc>>
Forget ==
    /\ sentOld /\ ~Gone
    /\ sent' = "none" /\ sentOld' = FALSE
    /\ UNCHANGED <<mode, mutexes, disposing, maps, queueCount, registered, queue,
                   outside, locals, history, pc>>

\* The QueueManager removes a queue that sends nothing any more.
Expire ==
    /\ Registered # None /\ TimePasses
    /\ FrontIs(registered, Kinds) => queue[registered].sends = Sends
    /\ registered' = None
    /\ queue' = [queue EXCEPT ![registered] = IF registered = held THEN [@ EXCEPT !.entries = <<>>] ELSE Empty]
    /\ UNCHANGED <<mode, mutexes, disposing, maps, queueCount, sent, sentOld, outside, locals, history,
                   pc>>

NewQueue(type, peer, entries) ==
    /\ queueCount' = queueCount + 1
    /\ registered' = queueCount + 1
    /\ queue' = [q \in Queues |->
          IF q = queueCount + 1 THEN [type |-> type, peer |-> peer, entries |-> entries, sends |-> 0]
          ELSE IF q = held THEN queue[q] ELSE Empty]
    /\ UNCHANGED <<sent, sentOld>>

PopFront(q) ==
    /\ queue' = [queue EXCEPT ![q].entries = IF @ = <<>> THEN @ ELSE Tail(@), ![q].sends = 0]
    /\ UNCHANGED <<queueCount, registered, sent, sentOld>>

-----------------------------------------------------------------------------
(* setInstallMode and pairingModeTimer                                     *)

Call(l, arguments) ==
    /\ At("rpc", "Idle") /\ ~disposing /\ calls < Calls
    /\ calls' = calls + 1 /\ want' = arguments
    /\ Goto("rpc", l)
    /\ UNCHANGED <<mode, mutexes, disposing, maps, outside, unpairID, ref, task, history>>

\* The RPC call returns; the listener goes on with its acknowledgement.
Return(t) == IF t = "listener" THEN "AckPop" ELSE "Idle"
Forgotten(t) == want' = IF t = "rpc" THEN NoCall ELSE want

CallSetInstallMode(on) == Call("ModeLock", [NoCall EXCEPT !.on = on]) /\ UNCHANGED queuing

ModeEnter(t) == modeOwner' = t /\ stopTimer' = TRUE /\ Goto(t, "ModeJoin") /\ UNCHANGED want
ModeLockIf(t, open) ==
    /\ At(t, "ModeLock")
    /\ \/ open /\ ModeEnter(t)
       \/ ~open /\ Goto(t, Return(t)) /\ Forgotten(t) /\ UNCHANGED <<modeOwner, stopTimer>>
    /\ UNCHANGED <<pairing, timeLeft, elapsed, unpairOwner, disposing, maps, queuing, outside,
                   calls, unpairID, ref, task, history>>
ModeLockAnyway(t) == ModeLockIf(t, TRUE)
ModeLock(t) == ModeLockIf(t, ~disposing)

\* handleAck calls setInstallMode to switch it off.
On(t) == t = "rpc" /\ want.on
ModeJoinShowing(t, time) ==
    /\ At(t, "ModeJoin")
    /\ stopTimer' = FALSE /\ modeOwner' = NoThread
    /\ timeLeft' = IF On(t) THEN time ELSE 0
    /\ pc' = [pc EXCEPT ![t] = Return(t), !["timer"] = IF On(t) THEN "Start" ELSE @]
    /\ Forgotten(t)
    /\ UNCHANGED <<pairing, elapsed, unpairOwner, disposing, maps, queuing, outside, calls, unpairID,
                   ref, task, history>>
ModeJoinLate(t) == ModeJoinShowing(t, 0)
ModeJoin(t) == ModeJoinShowing(t, Duration)

TimerStart ==
    /\ At("timer", "Start")
    /\ pairing' = TRUE /\ timeLeft' = Duration /\ elapsed' = 0
    /\ Goto("timer", "Loop")
    /\ UNCHANGED <<stopTimer, mutexes, disposing, maps, queuing, outside, locals, history>>

TimerTick ==
    /\ At("timer", "Loop") /\ TimePasses
    /\ elapsed < Duration /\ ~stopTimer
    /\ elapsed' = elapsed + 1 /\ timeLeft' = Duration - (elapsed + 1)
    /\ UNCHANGED <<pairing, stopTimer, mutexes, disposing, maps, queuing, outside, locals, history, pc>>

TimerEnd ==
    /\ At("timer", "Loop") /\ (elapsed = Duration \/ (stopTimer /\ TimePasses))
    /\ timeLeft' = 0 /\ pairing' = FALSE /\ elapsed' = 0
    /\ Goto("timer", "Done")
    /\ UNCHANGED <<stopTimer, mutexes, disposing, maps, queuing, outside, locals, history>>

-----------------------------------------------------------------------------
(* deleteDevice, the unpair thread, deletePeer                             *)

CallDeleteDevice(p, force) ==
    /\ Call("UnpairLock", [NoCall EXCEPT !.peer = p, !.force = force]) /\ UNCHANGED queuing

UnpairLock ==
    /\ At("rpc", "UnpairLock") /\ unpairOwner' = "rpc" /\ Goto("rpc", "UnpairJoin")
    /\ UNCHANGED <<mode, modeOwner, disposing, maps, queuing, outside, locals, history>>

UnpairJoin ==
    /\ At("rpc", "UnpairJoin") /\ unpairOwner' = NoThread
    /\ pc' = [pc EXCEPT !["rpc"] = IF want.force THEN "Delete" ELSE "Poll", !["unpair"] = "Reset"]
    /\ unpairID' = want.peer
    /\ UNCHANGED <<mode, modeOwner, disposing, maps, queuing, outside, calls, want, ref, task, history>>

\* Until the queue or the peer is gone, two seconds at most.
Poll ==
    /\ At("rpc", "Poll") /\ TimePasses /\ Goto("rpc", "Idle") /\ want' = NoCall
    /\ UNCHANGED <<mode, mutexes, disposing, maps, queuing, outside, calls, unpairID, ref, task, history>>

\* reset(id), for a device that always listens or wakes up on radio.
Reset ==
    /\ At("unpair", "Reset")
    /\ \/ unpairID \in byID /\ ref' = [ref EXCEPT !["unpair"] = unpairID] /\ Goto("unpair", "ResetQueue")
       \/ unpairID \notin byID /\ Goto("unpair", "Done") /\ UNCHANGED ref
    /\ unpairID' = None
    /\ UNCHANGED <<mode, mutexes, disposing, maps, queuing, outside, calls, want, task, history>>

ResetQueue ==
    /\ At("unpair", "ResetQueue")
    /\ IF Gone THEN UNCHANGED queuing ELSE NewQueue("UNPAIRING", ref["unpair"], <<"reset", "answer">>)
    /\ ref' = [ref EXCEPT !["unpair"] = None] /\ Goto("unpair", "Done")
    /\ UNCHANGED <<mode, mutexes, disposing, maps, outside, calls, want, unpairID, task, history>>

\* deletePeer(id); handleAck holds a pointer of its own already.
ID(t) == IF t = "rpc" THEN want.peer ELSE ref[t]
Delete(t) ==
    /\ At(t, "Delete")
    /\ \/ ID(t) \in byID /\ ref' = [ref EXCEPT ![t] = ID(t)] /\ Goto(t, "Erase")
       \/ ID(t) \notin byID /\ ref' = [ref EXCEPT ![t] = None] /\ Goto(t, Return(t))
    /\ Forgotten(t)
    /\ UNCHANGED <<mode, mutexes, disposing, maps, queuing, outside, calls, unpairID, task, history>>

EraseLeaving(t, address) ==
    /\ At(t, "Erase")
    /\ byID' = byID \ {ref[t]} /\ bySerial' = None /\ byAddress' = address
    /\ missed' = (missed \/ device = "paired")
    /\ Goto(t, "EraseWait")
    /\ UNCHANGED <<mode, mutexes, disposing, peerCount, saved, queuing, outside, locals, crossed, revived, late>>
EraseIDOnly(t) == EraseLeaving(t, byAddress)
Erase(t) == EraseLeaving(t, None)

\* Others hold the peer: a thread, a queue; handleAck has a pointer of its own.
InUse(t) == \/ t = "listener" \/ \E s \in Threads \ {t} : ref[s] = ref[t]
            \/ \E q \in {held, registered} \ {None} : queue[q].peer = ref[t]

\* After a minute the peer is removed from the database nevertheless; no queue
\* stays registered that long.
EraseWait(t) ==
    /\ At(t, "EraseWait")
    /\ InUse(t) => TimePasses /\ (Registered # None => queue[registered].peer # ref[t])
    /\ saved' = saved \ {ref[t]}
    /\ ref' = [ref EXCEPT ![t] = None] /\ Goto(t, Return(t))
    /\ UNCHANGED <<mode, mutexes, disposing, peerCount, byAddress, bySerial, byID, queuing, outside,
                   calls, want, unpairID, task, history>>

\* addLink and removeLink, or setValue when the device has no queue.
Configure(p) == Call("Idle", NoCall) /\ NewQueue("CONFIG", p, <<"other", "answer">>)

-----------------------------------------------------------------------------
(* onPacketReceived: checkAccess, handlePairingRequest, handleAck          *)

Finish == Goto("listener", "Idle") /\ held' = None /\ message' = NoMessage /\ wasPairing' = FALSE
Continue(l) == Goto("listener", l) /\ UNCHANGED task

Receive ==
    /\ At("listener", "Idle") /\ ~disposing /\ air # <<>>
    /\ message' = Head(air) /\ air' = Tail(air)
    /\ held' = Registered /\ wasPairing' = pairing
    /\ Goto("listener", "Access")
    /\ UNCHANGED <<mode, mutexes, disposing, maps, queuing, device, requests, calls, want, unpairID,
                   ref, history>>

\* The first part of checkAccess: an answer takes the packet from the queue, a
\* request puts it back, which sends it again.
Access ==
    /\ At("listener", "Access")
    /\ LET request == message.type = "request"
           asked == held # None /\ FrontIs(held, Kinds) /\ (request => message.mine)
       IN  \/ /\ asked /\ request /\ Finish
              /\ queue' = [queue EXCEPT ![held].sends = 0]
              /\ UNCHANGED <<queueCount, registered, sent, sentOld>>
           \/ asked /\ ~request /\ PopFront(held) /\ Continue("AccessPeer")
           \/ /\ ~asked /\ UNCHANGED queuing
              /\ Continue(IF request /\ wasPairing THEN "Request" ELSE "AccessPeer")
    /\ UNCHANGED <<mode, mutexes, disposing, maps, outside, calls, want, unpairID, ref, history>>

\* ACCESSPAIREDTOSENDER: the peer is known, or the one to be paired.
BeingPaired == pairing /\ held # None /\ queue[held].peer # None
KnownAlready == byAddress # None
Known == KnownAlready \/ BeingPaired
AccessPeer ==
    /\ At("listener", "AccessPeer")
    /\ \/ Known /\ Continue(IF message.type = "request" THEN "Request" ELSE "Ack") /\ UNCHANGED missed
       \/ ~Known /\ Finish /\ missed' = (missed \/ (message.type = "ack" /\ ~BeingPaired))
    /\ UNCHANGED <<mode, mutexes, disposing, maps, queuing, outside, calls, want, unpairID, ref,
                   crossed, revived, late>>

Request ==
    /\ At("listener", "Request")
    /\ \/ pairing /\ Continue("Include") /\ ref' = [ref EXCEPT !["listener"] = byAddress]
       \/ ~pairing /\ Finish /\ UNCHANGED ref
    /\ UNCHANGED <<mode, mutexes, disposing, maps, queuing, outside, calls, want, unpairID, history>>

\* The queue gets a peer object only if the device was unknown.
Include ==
    /\ At("listener", "Include")
    /\ LET new == ref["listener"] = None
       IN  \/ Gone /\ UNCHANGED <<queuing, peerCount>>
           \/ /\ ~Gone /\ peerCount' = IF new THEN peerCount + 1 ELSE peerCount
              /\ \E time \in {<<>>, <<"other", "answer">>} :
                    NewQueue("PAIRING", IF new THEN peerCount' ELSE None, <<"include", "answer">> \o time)
    /\ ref' = [ref EXCEPT !["listener"] = None]
    /\ Finish
    /\ UNCHANGED <<mode, mutexes, disposing, byAddress, bySerial, byID, saved, outside, calls, want,
                   unpairID, history>>

\* handleAck gets the queue once more.
Nack ==
    /\ At("listener", "Ack") /\ message.type = "nack"
    /\ IF Registered = None THEN UNCHANGED queuing
       ELSE IF queue[registered].type = "PAIRING"
         THEN /\ queue' = [queue EXCEPT ![registered].entries = <<>>]
              /\ UNCHANGED <<queueCount, registered, sent, sentOld>>
         ELSE PopFront(registered)
    /\ Finish
    /\ UNCHANGED <<mode, mutexes, disposing, maps, outside, calls, want, unpairID, ref, history>>

\* What handleAck does with an acknowledgement, by the queue's type and the
\* packet last sent.
AckMeansIf(included, reset) ==
    LET q == Registered
    IN  IF q = None THEN "nothing"
        ELSE IF queue[q].type = "PAIRING" /\ included /\ byAddress = None
          THEN IF queue[q].peer = None THEN "nothing" ELSE "paired"
        ELSE IF queue[q].type = "UNPAIRING" /\ reset /\ byAddress # None
          THEN "unpaired" ELSE "sent"
AckMeansByQueue == AckMeansIf(Sent = "include", TRUE)
AckMeans == AckMeansIf(Sent = "include", Sent = "reset")

Ack ==
    /\ At("listener", "Ack") /\ message.type = "ack"
    /\ \/ AckMeans = "nothing" /\ Finish /\ UNCHANGED ref
       \/ /\ AckMeans # "nothing" /\ held' = Registered /\ UNCHANGED <<message, wasPairing>>
          /\ Goto("listener", CASE AckMeans = "paired" -> "Add" [] AckMeans = "unpaired" -> "Delete"
                                [] OTHER -> "AckPop")
          /\ ref' = IF AckMeans = "unpaired" THEN [ref EXCEPT !["listener"] = byAddress] ELSE ref
    /\ missed' = (missed \/ (message.of = "include" /\ byAddress = None /\ AckMeans # "paired"))
    /\ UNCHANGED <<mode, mutexes, disposing, maps, queuing, outside, calls, want, unpairID, crossed, revived, late>>

\* While the peer is being deleted another acknowledgement may add it again.
Add ==
    /\ At("listener", "Add")
    /\ byAddress' = queue[held].peer /\ bySerial' = queue[held].peer
    /\ revived' = (revived \/ ref["rpc"] = queue[held].peer)
    /\ Goto("listener", "Save")
    /\ UNCHANGED <<mode, mutexes, disposing, peerCount, byID, saved, queuing, outside, locals, missed,
                   crossed, late>>

Save ==
    /\ At("listener", "Save")
    /\ saved' = saved \union {queue[held].peer}
    /\ Goto("listener", "AddID")
    /\ UNCHANGED <<mode, mutexes, disposing, peerCount, byAddress, bySerial, byID, queuing, outside,
                   locals, history>>

AddID ==
    /\ At("listener", "AddID")
    /\ byID' = byID \union {queue[held].peer}
    /\ Goto("listener", "ModeLock")
    /\ UNCHANGED <<mode, mutexes, disposing, peerCount, byAddress, bySerial, saved, queuing, outside,
                   locals, history>>

AckPop ==
    /\ At("listener", "AckPop")
    /\ PopFront(held)
    /\ Finish
    /\ UNCHANGED <<mode, mutexes, disposing, maps, outside, calls, want, unpairID, ref, history>>

-----------------------------------------------------------------------------
(* dispose and stopThreads                                                 *)

\* The interfaces' event handlers are removed: what is on the air is lost.
Dispose ==
    /\ At("central", "Idle")
    /\ disposing' = TRUE /\ air' = <<>>
    /\ late' = (pc["rpc"] \in {"UnpairLock", "UnpairJoin"})
    /\ Goto("central", "UnpairLock")
    /\ UNCHANGED <<mode, mutexes, maps, queuing, device, requests, locals, missed, crossed, revived>>

StopUnpair ==
    /\ At("central", "UnpairLock") /\ unpairOwner' = "central" /\ Goto("central", "UnpairJoin")
    /\ UNCHANGED <<mode, modeOwner, disposing, maps, queuing, outside, locals, history>>

StopUnpairJoin ==
    /\ At("central", "UnpairJoin") /\ unpairOwner' = NoThread /\ Goto("central", "StopTimer")
    /\ UNCHANGED <<mode, modeOwner, disposing, maps, queuing, outside, locals, history>>

StopTimer ==
    /\ At("central", "StopTimer")
    /\ modeOwner' = "central" /\ stopTimer' = TRUE /\ Goto("central", "StopTimerJoin")
    /\ UNCHANGED <<pairing, timeLeft, elapsed, unpairOwner, disposing, maps, queuing, outside, locals,
                   history>>

\* Then the managers of queues and packets are disposed.
StopTimerJoin ==
    /\ At("central", "StopTimerJoin")
    /\ modeOwner' = NoThread /\ Goto("central", "Disposed")
    /\ UNCHANGED <<mode, unpairOwner, disposing, maps, queuing, outside, locals, history>>

-----------------------------------------------------------------------------
Rpc == UnpairLock \/ UnpairJoin \/ Poll \/ ModeLock("rpc") \/ ModeJoin("rpc")
       \/ Delete("rpc") \/ Erase("rpc") \/ EraseWait("rpc")
Listener == Receive \/ Access \/ AccessPeer \/ Request \/ Include \/ Nack \/ Ack
            \/ Add \/ Save \/ AddID \/ ModeLock("listener") \/ ModeJoin("listener")
            \/ Delete("listener") \/ Erase("listener") \/ EraseWait("listener") \/ AckPop
Timer == TimerStart \/ TimerTick \/ TimerEnd
Unpair == Reset \/ ResetQueue
Disposal == StopUnpair \/ StopUnpairJoin \/ StopTimer \/ StopTimerJoin
ApiCalls == \E b \in BOOLEAN : \/ CallSetInstallMode(b)
                               \/ \E p \in byID : CallDeleteDevice(p, b) \/ Configure(p)
Environment == Press \/ Grow \/ Forget

Next == ApiCalls \/ Rpc \/ Listener \/ Timer \/ Unpair \/ Transmit \/ Expire
        \/ Environment \/ Dispose \/ Disposal
        \/ (Gone /\ UNCHANGED vars)

Spec == Init /\ [][Next]_vars

-----------------------------------------------------------------------------
\* Types of the variables, with the bounds of the counters.
TypeOK ==
    /\ pairing \in BOOLEAN /\ stopTimer \in BOOLEAN /\ disposing \in BOOLEAN
    /\ timeLeft \in 0..Duration /\ elapsed \in 0..Duration
    /\ modeOwner \in Threads \union {NoThread} /\ unpairOwner \in Threads \union {NoThread}
    /\ peerCount \in 0..(Requests + 1) /\ byAddress \in Peers \union {None} /\ bySerial \in Peers \union {None}
    /\ byID \subseteq Peers /\ saved \subseteq Peers
    /\ queueCount \in 0..(Requests + Calls) /\ registered \in Queues \union {None}
    /\ sent \in Kinds \union {"none"} /\ sentOld \in BOOLEAN
    /\ \A q \in Queues : /\ queue[q].type \in {"DEFAULT", "PAIRING", "UNPAIRING", "CONFIG"}
                          /\ queue[q].peer \in Peers \union {None}
                          /\ Len(queue[q].entries) <= 4 /\ queue[q].sends \in 0..Sends
    /\ device \in {"new", "paired"} /\ \A i \in 1..Len(air) : air[i] \in Message
    /\ calls \in 0..Calls /\ requests \in 0..Requests
    /\ message \in Message \union {NoMessage} /\ held \in Queues \union {None}
    /\ unpairID \in Peers \union {None} /\ ref \in [Threads -> Peers \union {None}]
    /\ pc \in [Threads -> Labels]

\* The three maps of peers and the database agree whenever no thread is adding
\* or deleting a peer.
Changing == \E t \in {"rpc", "listener"} : pc[t] \in {"Save", "AddID", "EraseWait"}
MapsAgree == ~Changing /\ ~revived => /\ bySerial = byAddress /\ byID = {byAddress} \ {None} /\ saved = byID

\* A device that takes itself for paired is known to the central, unless an
\* answer was lost or not recognised or the device was deleted by force.
KnownIfPaired ==
    device = "paired" /\ air = <<>> /\ pc["listener"] = "Idle" /\ ~disposing /\ ~missed
        => byAddress # None

\* A device's answer makes the central forget it only if the device has been
\* reset, or is being paired anew, or the answer was one to something else.
DeletedOnlyIfReset ==
    [][pc["listener"] = "Erase" /\ byAddress' = None =>
           device = "new" \/ crossed]_vars

\* The install mode ends with its time or when the RPC call that ends it
\* returns, and not before.
ModeFollowsTimer ==
    /\ pairing => Running("timer")
    /\ Running("timer") /\ ~stopTimer => timeLeft > 0 \/ elapsed = Duration

\* Neither the timer nor the unpair thread runs in a disposed central, unless
\* deleteDevice was under way when dispose was called.
QuietWhenDisposed == Gone => ~Running("timer") /\ (Running("unpair") => late)
=============================================================================
