------------------------------- MODULE PeerValues -------------------------------
(***************************************************************************)
(* The values of one peer (MAXPeer): the cached value of a parameter, its  *)
(* copy in the database, the values queued for the device, and the device  *)
(* itself.  RPC threads call setValue and putParamset, the listener hands  *)
(* the device's acknowledgements and reports to packetReceived, and the    *)
(* process may stop and be started again.  The send queue is what          *)
(* PacketQueue promises: it sends the front pending queue until it is      *)
(* acknowledged or given up.  The device and the air are external.         *)
(***************************************************************************)
EXTENDS Naturals, FiniteSets, Sequences, SequencesExt

CONSTANTS
    Params,     \* parameters of the device
    Values,     \* of a parameter
    Frame,      \* the parameters in the packet that sets a parameter
    Reported,   \* the parameters the device tells in acknowledgements and reports
    Clients,    \* RPC threads
    Calls,      \* bound on the RPC calls
    Events,     \* bound on the device's own reports, the restarts and the end of service
    Counter0,   \* message counter of the first report
    AirLimit    \* bound on the packets on the air

Config == "config"             \* what a queue of putParamset sets
NoParam == "none"

ASSUME ValuesAssumption ==
    /\ Params # {} /\ Values # {} /\ Config \notin Params /\ NoParam \notin Params
    /\ Frame \in [Params -> SUBSET Params] /\ Reported \subseteq Params
    /\ Calls \in Nat \ {0} /\ Events \in Nat /\ Counter0 \in Nat \ {0} /\ AirLimit \in Nat \ {0}

NoPacket == [id |-> 0]
\* A pending queue: the parameter it was made for and the packet it holds, which
\* has a place for each parameter of the frame.  The packet's message counter is
\* that of the call that built it.
Ids == 1..Calls
Queue == [id : Ids, param : Params, values : [Params -> Values]] \union [id : Ids, param : {Config}]
Carried(q) == IF q.param = Config THEN {} ELSE Frame[q.param]
\* An acknowledgement has the counter of the packet it answers, a report one of
\* the device's own.
Counters == 1..(Calls + Counter0 + Events)
Message == [ack : BOOLEAN, counter : Counters, values : [Reported -> Values], mine : BOOLEAN]
Told(has) == [p \in Reported |-> has[p]]
NoCounter == 0
NoMessage == [ack |-> FALSE, counter |-> NoCounter]

ClientLabels == {"Idle", "Cache", "Save", "Build", "Push", "Enqueue", "Wait"}
ListenerLabels == {"Idle", "Access", "Type", "Counter", "Exists", "Write", "Save", "Empty", "Front", "Enqueue"}

VARIABLES
    cache,        \* valuesCentral
    stored,       \* ... in the database
    pending,      \* pendingQueues
    savedPending, \* ... in the database
    attached,     \* the send queue knows the pending queues (_pendingQueues)
    sending,      \* the pending queue whose packet has been copied into the send queue
    loading,      \* its thread is about to run pushPendingQueue
    queueType,    \* the send queue's type, or "NONE" without a send queue
    lastCounter,  \* _lastReceivedMessageCounter
    served,       \* the central knows the peer and its manager makes queues
    client,       \* label, arguments and packet of each RPC thread
    listener,     \* its label
    message,      \* the message it works on
    todo,         \* parameters of the message not yet handled, and the one being so
    param,
    device,       \* the values the device has
    air,          \* what it has sent and the listener has not received
    calls, events,
    delivered,    \* calls whose packet the device has got
    superseded,   \* calls whose queue a later call has removed
    newest,       \* the value of a parameter in the packet queued last that has it
    turned,       \* parameters changed at the device
    unreported,   \* what the device told last got lost on its way to the cache
    killed        \* the process has ended without shutdown

values == <<cache, stored>>
send == <<attached, sending, loading, queueType>>
queuing == <<pending, send>>
outside == <<device, air>>
hearing == <<listener, message, todo, param>>
bounds == <<calls, events>>
history == <<delivered, superseded, newest, turned, killed>>
vars == <<values, queuing, savedPending, lastCounter, served, client, hearing, outside, bounds, history, unreported>>

Idle == [at |-> "Idle"]

Init ==
    /\ device \in [Params -> Values] /\ cache = device /\ stored = device
    /\ pending = <<>> /\ savedPending = <<>>
    /\ attached = FALSE /\ sending = NoPacket /\ loading = FALSE /\ queueType = "NONE"
    /\ lastCounter = NoCounter /\ served = TRUE
    /\ client = [c \in Clients |-> Idle]
    /\ listener = "Idle" /\ message = NoMessage /\ todo = {} /\ param = NoParam
    /\ air = <<>>
    /\ calls = 0 /\ events = 0
    /\ delivered = {} /\ superseded = {} /\ newest = device /\ turned = {}
    /\ unreported = FALSE /\ killed = FALSE

-----------------------------------------------------------------------------
(* Pending queues and the send queue                                        *)

Queued(p) == \E i \in 1..Len(pending) : pending[i].param = p

\* remove: the queues of one parameter; the others keep their order.  The set
\* has this one list as its element.
Others(p) == {i \in 1..Len(pending) : pending[i].param # p}
InOrder(S) ==
    {at \in [1..Cardinality(S) -> S] : /\ \A i \in S : \E k \in DOMAIN at : at[k] = i
                                      /\ \A j, k \in DOMAIN at : j < k => at[j] < at[k]}
Removed(p) == {[k \in DOMAIN at |-> pending[at[k]]] : at \in InOrder(Others(p))}

\* pushPendingQueue: the packet at the front of the list goes into the send queue.
PushPendingQueue ==
    IF pending = <<>> THEN UNCHANGED <<sending, queueType>>
    ELSE /\ sending' = Head(pending)
         /\ queueType' = IF Head(pending).param = Config THEN "CONFIG" ELSE "PEER"

\* pop(id) leaves the list alone if another queue has come to its front.
PopAny(list, id) == IF list = <<>> THEN list ELSE Tail(list)
PopID(list, id) == IF list # <<>> /\ Head(list).id = id THEN Tail(list) ELSE list
Popped(list, id) == PopID(list, id)

\* enqueuePendingQueues: a send queue that knows of pending queues goes on with
\* them; any other, or a new one, is told of them and starts unless it is busy.
EnqueuePending ==
    /\ served
    /\ \/ queueType # "NONE" /\ attached /\ pending # <<>> /\ UNCHANGED send
       \/ /\ queueType = "NONE" \/ ~attached \/ pending = <<>>
          /\ attached' = TRUE /\ UNCHANGED loading
          /\ IF sending = NoPacket /\ pending # <<>> THEN PushPendingQueue
             ELSE UNCHANGED sending /\ queueType' = IF queueType = "NONE" THEN "DEFAULT" ELSE queueType
    /\ UNCHANGED pending

-----------------------------------------------------------------------------
(* setValue and putParamset                                                 *)

At(c, l) == client[c].at = l
Goto(c, l) == client' = [client EXCEPT ![c].at = l]

\* The packet's places are filled with the value given, to be overwritten by Build.
CallSetValue(c, p, v) ==
    /\ At(c, "Idle") /\ served /\ calls < Calls
    /\ calls' = calls + 1
    /\ client' = [client EXCEPT ![c] = [at |-> "Cache", unread |-> Frame[p],
                                       packet |-> [id |-> calls + 1, param |-> p, values |-> [r \in Params |-> v]]]]
    /\ UNCHANGED <<values, queuing, savedPending, lastCounter, served, hearing, outside, events, history, unreported>>

CallPutParamset(c) ==
    /\ At(c, "Idle") /\ served /\ calls < Calls
    /\ calls' = calls + 1
    /\ client' = [client EXCEPT ![c] = [at |-> "Push", packet |-> [id |-> calls + 1, param |-> Config]]]
    /\ UNCHANGED <<values, queuing, savedPending, lastCounter, served, hearing, outside, events, history, unreported>>

Given(c) == client[c].packet.values[client[c].packet.param]
SetCache(c) ==
    /\ At(c, "Cache") /\ Goto(c, "Save")
    /\ cache' = [cache EXCEPT ![client[c].packet.param] = Given(c)]
    /\ UNCHANGED <<stored, queuing, savedPending, lastCounter, served, hearing, outside, bounds, history, unreported>>

SaveValue(c) ==
    /\ At(c, "Save") /\ Goto(c, "Build")
    /\ stored' = [stored EXCEPT ![client[c].packet.param] = Given(c)]
    /\ UNCHANGED <<cache, queuing, savedPending, lastCounter, served, hearing, outside, bounds, history, unreported>>

\* The packet takes the values of all parameters of its frame from the cache, the
\* one given too, one after the other and without a lock.  (No description of a
\* device has an autoReset, which would set parameters of the cache after that.)
Build(c, p) ==
    /\ At(c, "Build") /\ p \in client[c].unread
    /\ client' = [client EXCEPT ![c].packet.values[p] = cache[p], ![c].unread = @ \ {p}]
    /\ UNCHANGED <<values, queuing, savedPending, lastCounter, served, hearing, outside, bounds, history, unreported>>

\* A queue is replaced by one for the same parameter only, whatever it carries.
RemoveQueued(c) ==
    /\ At(c, "Build") /\ client[c].unread = {} /\ Goto(c, "Push")
    /\ LET p == client[c].packet.param
       IN  /\ pending' \in Removed(p)
           /\ superseded' = superseded \union {q.id : q \in {r \in ToSet(pending) : r.param = p}}
    /\ UNCHANGED <<values, send, savedPending, lastCounter, served, hearing, outside, bounds,
                   delivered, newest, turned, unreported, killed>>

Push(c) ==
    /\ At(c, "Push") /\ Goto(c, "Enqueue")
    /\ LET q == client[c].packet
       IN  /\ pending' = Append(pending, q)
           /\ newest' = [p \in Params |-> IF p \in Carried(q) THEN q.values[p] ELSE newest[p]]
    /\ UNCHANGED <<values, send, savedPending, lastCounter, served, hearing, outside, bounds,
                   delivered, superseded, turned, unreported, killed>>

\* The argument wait of setValue, which is looked at only here.
Enqueue(c, wait) ==
    /\ At(c, "Enqueue") /\ EnqueuePending
    /\ \/ wait /\ client[c].packet.param # Config /\ Goto(c, "Wait")
       \/ ~wait /\ client' = [client EXCEPT ![c] = Idle]
    /\ UNCHANGED <<values, savedPending, lastCounter, served, hearing, outside, bounds, history, unreported>>

\* The peer is no longer known, or no queue made for it: "true", whether the call
\* waits or not.
Unserved(c) ==
    /\ At(c, "Enqueue") /\ ~served
    /\ client' = [client EXCEPT ![c] = Idle]
    /\ UNCHANGED <<values, queuing, savedPending, lastCounter, served, hearing, outside, bounds, history, unreported>>

\* Ten seconds at most: the call succeeds when nothing is pending any more, and
\* fails with "No answer from device." otherwise.
Return(c) ==
    /\ At(c, "Wait")
    /\ client' = [client EXCEPT ![c] = Idle]
    /\ UNCHANGED <<values, queuing, savedPending, lastCounter, served, hearing, outside, bounds, history, unreported>>
Succeed(c) == Return(c) /\ pending = <<>>
GiveUpWaiting(c) == Return(c) /\ pending # <<>>

-----------------------------------------------------------------------------
(* The device and the air                                                   *)

Emit(m) == air' = Append(air, m)
AnswerDue(id) == \/ \E i \in 1..Len(air) : air[i].ack /\ air[i].counter = id
                 \/ message.ack /\ message.counter = id

\* The device takes every parameter of the packet.  The packet may be lost, or its
\* acknowledgement; the device has answered before it is sent again.
Transmit ==
    /\ sending # NoPacket /\ ~AnswerDue(sending.id) /\ Len(air) < AirLimit
    /\ delivered' = delivered \union {sending.id}
    /\ device' = [p \in Params |-> IF p \in Carried(sending) THEN sending.values[p] ELSE device[p]]
    /\ \/ Emit([ack |-> TRUE, counter |-> sending.id, values |-> Told(device'), mine |-> TRUE])
          /\ unreported' = FALSE
       \/ UNCHANGED air /\ unreported' = TRUE
    /\ UNCHANGED <<values, queuing, savedPending, lastCounter, served, client, hearing, bounds,
                   superseded, newest, turned, killed>>

\* QueueManager removes the send queue: all retransmissions were in vain, or
\* there is nothing left to send.
GiveUp ==
    /\ queueType # "NONE" /\ (sending # NoPacket => ~AnswerDue(sending.id))
    /\ attached' = FALSE /\ sending' = NoPacket /\ queueType' = "NONE"
    /\ loading' = FALSE
    /\ UNCHANGED <<values, pending, savedPending, lastCounter, served, client, hearing, outside, bounds, history,
                   unreported>>

\* The send queue's own thread.
PushPending ==
    /\ loading /\ loading' = FALSE /\ PushPendingQueue
    /\ UNCHANGED <<values, pending, attached, savedPending, lastCounter, served, client, hearing, outside, bounds,
                   history, unreported>>

\* deletePeer takes the peer out of the maps, or dispose() ends the manager.
Withdraw ==
    /\ served /\ served' = FALSE
    /\ events < Events /\ events' = events + 1
    /\ UNCHANGED <<values, queuing, savedPending, lastCounter, client, hearing, outside, calls, history, unreported>>

\* Somebody turns the wheel, or the device just reports, to the central or to
\* everybody; the report may be lost.  (What somebody changes at the device and it
\* does not report, nobody learns: Next leaves that out.)
Report(p, v, mine) ==
    /\ events < Events /\ events' = events + 1 /\ Len(air) < AirLimit
    /\ device' = [device EXCEPT ![p] = v]
    /\ turned' = IF device' = device THEN turned ELSE turned \union {p}
    /\ \/ Emit([ack |-> FALSE, counter |-> Counter0 + events, values |-> Told(device'), mine |-> mine]) /\ unreported' = FALSE
       \/ device' # device /\ UNCHANGED air /\ unreported' = TRUE
    /\ UNCHANGED <<values, queuing, savedPending, lastCounter, served, client, hearing, calls, delivered, superseded,
                   newest, killed>>

-----------------------------------------------------------------------------
(* onPacketReceived and packetReceived                                      *)

Hear(l) == listener' = l
Rest == listener' = "Idle" /\ message' = NoMessage /\ todo' = {} /\ param' = NoParam

\* A report is for a peer that is still known.
Receive ==
    /\ listener = "Idle" /\ air # <<>> /\ air' = Tail(air)
    /\ LET m == Head(air)
       IN  \/ /\ m.ack \/ served
              /\ message' = m /\ Hear(IF m.ack THEN "Access" ELSE "Counter")
              /\ UNCHANGED <<todo, param, unreported>>
           \/ ~m.ack /\ ~served /\ unreported' = TRUE /\ UNCHANGED hearing
    /\ UNCHANGED <<values, queuing, savedPending, lastCounter, served, client, device, bounds, history>>

\* checkAccess and handleAck: packet and message leave the send queue, then the
\* pending queue the list, and the send queue goes on with the next one or, if
\* there is none, forgets the list.
Access ==
    /\ listener = "Access"
    /\ Hear("Type")
    /\ \/ sending = NoPacket /\ UNCHANGED queuing
       \/ /\ sending # NoPacket
          /\ sending' = NoPacket
          /\ pending' = Popped(pending, sending.id)
          /\ attached' = (pending' # <<>>) /\ loading' = (pending' # <<>>)
          /\ UNCHANGED queueType
    /\ UNCHANGED <<values, savedPending, lastCounter, served, client, message, todo, param, outside, bounds, history,
                   unreported>>

\* The acknowledgement goes on to the peer, if it is still known, unless there is
\* a send queue that works, or has just worked, on something else than values.
Other == ~served \/ queueType \notin {"NONE", "PEER"}
TypeCheck(handled) ==
    /\ listener = "Type"
    /\ unreported' = (unreported \/ Other)
    /\ \/ handled /\ Rest
       \/ ~handled /\ Hear("Counter") /\ UNCHANGED <<message, todo, param>>
    /\ UNCHANGED <<values, queuing, savedPending, lastCounter, served, client, outside, bounds, history>>
TypeAlways == TypeCheck(~served \/ queueType # "NONE")
Type == TypeCheck(Other)

\* A packet with the counter of the last one is taken for a repetition of it:
\* it is acknowledged but not handled.
Repeated == message.mine /\ message.counter = lastCounter
Counter ==
    /\ listener = "Counter"
    /\ \/ /\ Repeated /\ Rest
          /\ unreported' = (unreported \/ message.values # Told(cache) \/ message.values # Told(stored))
          /\ UNCHANGED lastCounter
       \/ /\ ~Repeated /\ todo' = Reported /\ Hear(IF todo' = {} THEN "Empty" ELSE "Exists")
          /\ lastCounter' = message.counter
          /\ UNCHANGED <<message, param, unreported>>
    /\ UNCHANGED <<values, queuing, savedPending, served, client, outside, bounds, history>>

\* "Don't set queued values".
Exists(p) ==
    /\ listener = "Exists" /\ p \in todo
    /\ todo' = todo \ {p}
    /\ IF Queued(p) THEN param' = NoParam /\ Hear(IF todo' = {} THEN "Empty" ELSE "Exists")
       ELSE param' = p /\ Hear("Write")
    /\ UNCHANGED <<values, queuing, savedPending, lastCounter, served, client, message, outside, bounds, history,
                   unreported>>

Write ==
    /\ listener = "Write" /\ Hear("Save")
    /\ cache' = [cache EXCEPT ![param] = message.values[param]]
    /\ UNCHANGED <<stored, queuing, savedPending, lastCounter, served, client, message, todo, param, outside, bounds,
                   history, unreported>>

SaveReported ==
    /\ listener = "Save"
    /\ stored' = [stored EXCEPT ![param] = message.values[param]]
    /\ param' = NoParam /\ Hear(IF todo = {} THEN "Empty" ELSE "Exists")
    /\ UNCHANGED <<cache, queuing, savedPending, lastCounter, served, client, message, todo, outside, bounds, history,
                   unreported>>

\* The device is awake: with something pending its front packet needs no wake-up
\* burst; then, if the device listens on, as it says in each acknowledgement, the
\* send queue is started.
PendingEmpty(listens) ==
    /\ listener = "Empty" /\ (message.ack => listens)
    /\ \/ pending = <<>> /\ Rest
       \/ pending # <<>> /\ message.mine /\ Hear("Front") /\ UNCHANGED <<message, todo, param>>
       \/ pending # <<>> /\ ~message.mine /\ listens /\ Hear("Enqueue") /\ UNCHANGED <<message, todo, param>>
       \/ pending # <<>> /\ ~message.mine /\ ~listens /\ Rest
    /\ UNCHANGED <<values, queuing, savedPending, lastCounter, served, client, outside, bounds, history, unreported>>

\* Unless front() is null by now (Die).
UseFront(listens) ==
    /\ listener = "Front" /\ pending # <<>> /\ (message.ack => listens)
    /\ \/ listens /\ Hear("Enqueue") /\ UNCHANGED <<message, todo, param>>
       \/ ~listens /\ Rest
    /\ UNCHANGED <<values, queuing, savedPending, lastCounter, served, client, outside, bounds, history, unreported>>

EnqueueAwake ==
    /\ listener = "Enqueue" /\ Rest
    /\ EnqueuePending \/ (~served /\ UNCHANGED queuing)
    /\ UNCHANGED <<values, savedPending, lastCounter, served, client, outside, bounds, history, unreported>>

-----------------------------------------------------------------------------
(* The end of the process and its next start: saveVariables, loadVariables  *)

Busy == listener # "Idle" \/ \E c \in Clients : ~At(c, "Idle")

\* The list in the database replaces the one in memory; nothing is sent before
\* the next call or the next packet of the device.  A deletion cut short is undone.
LoadVariables(list) ==
    /\ pending' = list /\ savedPending' = list
    /\ cache' = stored /\ lastCounter' = NoCounter /\ served' = TRUE
    /\ attached' = FALSE /\ sending' = NoPacket /\ loading' = FALSE /\ queueType' = "NONE"
    /\ client' = [c \in Clients |-> Idle] /\ Rest /\ air' = <<>>
    /\ UNCHANGED <<stored, device, calls, delivered, superseded, newest, turned>>

\* A shutdown saves what is pending, an end without warning saves nothing.
Stop(saved) ==
    /\ ~Busy /\ served /\ events < Events /\ events' = events + 1
    /\ LoadVariables(saved)
    /\ unreported' = (unreported \/ air # <<>>) /\ UNCHANGED killed
StopUnsaved == Stop(savedPending)
Shutdown == Stop(pending)

Crash == LoadVariables(savedPending) /\ killed' = TRUE /\ UNCHANGED unreported
Kill == Crash /\ events < Events /\ events' = events + 1
\* A null pointer is used: front() after empty().  Once, to keep the model small.
Die == listener = "Front" /\ pending = <<>> /\ ~killed /\ Crash /\ UNCHANGED events

-----------------------------------------------------------------------------
Next ==
    \/ \E c \in Clients :
         \/ \E p \in Params, v \in Values : CallSetValue(c, p, v)
         \/ CallPutParamset(c) \/ SetCache(c) \/ SaveValue(c) \/ (\E p \in Params : Build(c, p)) \/ RemoveQueued(c) \/ Push(c)
         \/ (\E wait \in BOOLEAN : Enqueue(c, wait)) \/ Unserved(c) \/ Succeed(c) \/ GiveUpWaiting(c)
    \/ Withdraw \/ Transmit \/ GiveUp \/ PushPending
    \/ \E p \in Reported, v \in Values, mine \in BOOLEAN : Report(p, v, mine)
    \/ Receive \/ Access \/ Type \/ Counter \/ (\E p \in Params : Exists(p)) \/ Write \/ SaveReported
    \/ \E listens \in BOOLEAN : PendingEmpty(listens) \/ UseFront(listens)
    \/ EnqueueAwake
    \/ Shutdown \/ Kill \/ Die

Spec == Init /\ [][Next]_vars

-----------------------------------------------------------------------------
(* Properties                                                               *)

\* Types; a pending queue is copied into an empty send queue only.
TypeOK ==
    /\ cache \in [Params -> Values] /\ stored \in [Params -> Values] /\ device \in [Params -> Values]
    /\ pending \in Seq(Queue) /\ savedPending \in Seq(Queue) /\ sending \in Queue \union {NoPacket}
    /\ attached \in BOOLEAN /\ loading \in BOOLEAN /\ served \in BOOLEAN
    /\ queueType \in {"NONE", "DEFAULT", "PEER", "CONFIG"}
    /\ loading => attached /\ sending = NoPacket
    /\ \A c \in Clients : client[c].at \in ClientLabels
    /\ listener \in ListenerLabels
    /\ message \in Message \union {NoMessage} /\ todo \subseteq Reported /\ param \in Reported \union {NoParam}
    /\ air \in Seq(Message) /\ Len(air) <= AirLimit
    /\ delivered \subseteq Ids /\ superseded \subseteq Ids /\ newest \in [Params -> Values]

\* Nothing is under way: no call, no packet of the device, nothing pending.
Quiet == ~Busy /\ air = <<>> /\ pending = <<>> /\ sending = NoPacket

\* Whatever calls and reports overlapped, once everything is quiet the cache and
\* the database have the device's values of the parameters it reports, provided
\* that what it told last has reached packetReceived: an acknowledgement reports
\* them too, so that it undoes what overlapping writers left behind.  What the
\* device never reports (COMFORT_TEMPERATURE, PARTY_TEMPERATURE, ...) overlapping
\* calls may leave different for good.
CacheFollowsDevice ==
    Quiet /\ ~unreported /\ ~killed => \A p \in Reported : cache[p] = device[p] /\ stored[p] = device[p]

\* Of several queued packets that carry a parameter the device ends up with what
\* the one queued last carries, across a regular restart too, unless somebody
\* turned its wheel.  That need not be the value set last: a packet takes along
\* the other parameters of its frame, with the values they had in the cache when
\* it was built, and may be queued after a newer value.
LastPacketWins == Quiet /\ ~killed => \A p \in Params \ turned : device[p] = newest[p]

\* setValue with wait succeeds only after the device has got the packet, or after
\* another call has replaced it; or, unnoticed, at once when the peer is deleted or
\* no queue made for it before the call has got that far.
SuccessMeansDelivered ==
    [][\A c \in Clients : Succeed(c) \/ Unserved(c) =>
            \/ client[c].packet.id \in delivered \union superseded
            \/ At(c, "Enqueue") /\ ~served]_vars
=============================================================================
