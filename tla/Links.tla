-------------------------------- MODULE Links --------------------------------
(***************************************************************************)
(* Links between devices: addLink and removeLink of the central change the *)
(* link records of both peers, queue a packet for each of the two devices  *)
(* and announce CONFIG_PENDING; the worker of the central comes by every   *)
(* peer and repeats what a device has not got.  Devices are deleted and    *)
(* paired again, the program is stopped, or killed in the middle.          *)
(*                                                                         *)
(* A send queue is what Delivery promises: it gives the device the pending *)
(* packets in their order.  A link is between one channel of each device.  *)
(***************************************************************************)
EXTENDS Naturals, Sequences, FiniteSets

CONSTANTS
    Devices,    \* addresses
    Always,     \* devices with receive mode always or wakeOnRadio: sent to at once
    Linkable,   \* a channel of the one sends what one of the other receives
    Calls,      \* bound on the calls of RPC clients, each on a thread of its own
    Troubles    \* bound on what is lost, out of reach, paired again or stopped

ASSUME LinksAssumption ==
    /\ Always \subseteq Devices
    /\ Linkable \subseteq Devices \X Devices /\ \A l \in Linkable : l[1] # l[2]
    /\ Calls \in Nat /\ Troubles \in Nat

VARIABLES
    paired,         \* the devices the central has a peer for
    generation,     \* the id of a device's peer, a new one each time it is paired
    records,        \* _peers of a peer: the address and the id of its partners
    pending,        \* pendingQueues of a peer: what to tell the device
    configPending,  \* service message CONFIG_PENDING of the peer
    queue,          \* the send queue of a device
    told,           \* the partners the device itself knows
    client,         \* where the thread of each call is and what it works on
    worker,         \* the peer the central's worker has come to and what it is about to do
    troubles,       \* what may still go wrong
    torn,           \* pairs whose last call was interrupted or met another one
    crossed         \* devices for which a call met another one, or the worker

vars == <<paired, generation, records, pending, configPending, queue, told,
          client, worker, troubles, torn, crossed>>

peers == <<paired, generation, records>>
sending == <<configPending, queue>>
ghosts == <<torn, crossed>>

Pairs == {p \in SUBSET Devices : Cardinality(p) = 2}
Clients == 1..Calls
Idle == [at |-> "Idle"]
Over == [at |-> "Over"]
Walking == [peer |-> "none", at |-> "Visit"]
At(c, l) == client[c].at = l
Busy == {c \in Clients : ~At(c, "Idle") /\ ~At(c, "Over")}
PairOf(c) == {client[c].sender, client[c].receiver}
WorksWith(d) == {c \in Busy : d \in PairOf(c)}
Polled(d) == \E c \in Busy : At(c, "Poll") /\ client[c].device = d
Partner(c, d) == CHOOSE e \in PairOf(c) : e # d
Trouble == troubles > 0 /\ troubles' = troubles - 1

Init ==
    /\ paired = Devices
    /\ generation = [d \in Devices |-> 1]
    /\ records = [d \in Devices |-> {}]
    /\ pending = [d \in Devices |-> <<>>]
    /\ configPending = [d \in Devices |-> FALSE]
    /\ queue = [d \in Devices |-> "none"]
    /\ told = [d \in Devices |-> {}]
    /\ client = [c \in Clients |-> Idle]
    /\ worker = Walking
    /\ troubles = Troubles
    /\ torn = {}
    /\ crossed = {}

-----------------------------------------------------------------------------
(* addLink and removeLink                                                   *)

\* getPeer(channel, address) of a peer finds a record by its address.
Listed(d, e) == \E r \in records[d] : r.address = e

Start(c, op, s, r) ==
    /\ At(c, "Idle") /\ \A x \in Clients : At(x, "Idle") => c <= x
    /\ {s, r} \subseteq paired
    /\ op = "remove" => Listed(s, r) \/ Listed(r, s)
    /\ LET others == {x \in Busy : PairOf(x) = {s, r}}
       IN  client' = [x \in Clients |->
               IF x = c
               THEN [at |-> "First", op |-> op, sender |-> s, receiver |-> r, device |-> s,
                     clean |-> others = {}]
               ELSE IF x \in others THEN [client[x] EXCEPT !.clean = FALSE]
               ELSE client[x]]
    /\ UNCHANGED <<peers, pending, sending, told, worker, troubles, ghosts>>

\* addPeer replaces the record of an address; removePeer looks for the id,
\* which another peer never had.
Record(e) == [address |-> e, id |-> generation[e]]
AddPeerById(d, e) == (records[d] \ {Record(e)}) \union {Record(e)}
AddPeer(d, e) == {r \in records[d] : r.address # e} \union {Record(e)}
RemovePeer(d, e) == records[d] \ {Record(e)}
Recorded(c, d) ==
    [records EXCEPT ![d] = IF client[c].op = "add" THEN AddPeer(d, Partner(c, d))
                                                   ELSE RemovePeer(d, Partner(c, d))]
Go(c, l) == client' = [client EXCEPT ![c].at = l]

First(c) ==
    /\ At(c, "First")
    /\ records' = Recorded(c, client[c].sender)
    /\ Go(c, "Second")
    /\ UNCHANGED <<paired, generation, pending, sending, told, worker, troubles, ghosts>>

Second(c) ==
    /\ At(c, "Second")
    /\ records' = Recorded(c, client[c].receiver)
    /\ Go(c, "Push")
    /\ UNCHANGED <<paired, generation, pending, sending, told, worker, troubles, ghosts>>

\* The packet CONFIG_ADD_PEER, or the one that removes the partner.
Packet(c, d) == [op |-> client[c].op, partner |-> Partner(c, d)]
InFront(d, p) == [pending EXCEPT ![d] = <<p>> \o @]
Behind(d, p) == [pending EXCEPT ![d] = Append(@, p)]

Push(c) ==
    /\ At(c, "Push")
    /\ LET d == client[c].device
       IN  /\ pending' = Behind(d, Packet(c, d))
           /\ crossed' = IF WorksWith(d) = {c} /\ worker.peer # d
                         THEN crossed ELSE crossed \union {d}
    /\ Go(c, "Announce")
    /\ UNCHANGED <<peers, sending, told, worker, troubles, torn>>

\* setConfigPending(true), and a new send queue for a device that listens.
SetConfigPending(d) == configPending' = [configPending EXCEPT ![d] = TRUE]
CreateQueueAlways(d) == queue' = [queue EXCEPT ![d] = IF d \notin Always THEN @ ELSE "running"]
CreateQueue(d) ==
    queue' = [queue EXCEPT ![d] = IF d \notin Always THEN @
                                  ELSE IF pending[d] = <<>> THEN "told" ELSE "running"]
Announce(c) ==
    /\ At(c, "Announce")
    /\ LET d == client[c].device
       IN  SetConfigPending(d) /\ CreateQueue(d)
    /\ Go(c, "Poll")
    /\ UNCHANGED <<peers, pending, told, worker, troubles, ghosts>>

\* After the sender it is the receiver's turn; after the receiver the call
\* returns.  A call that met no other one for its pair leaves it in order.
NextDevice(c) ==
    IF client[c].device = client[c].sender
    THEN /\ client' = [client EXCEPT ![c] = [@ EXCEPT !.at = "Push", !.device = client[c].receiver]]
         /\ torn' = torn
    ELSE /\ client' = [client EXCEPT ![c] = Over]
         /\ torn' = IF client[c].clean THEN torn \ {PairOf(c)} ELSE torn \union {PairOf(c)}

\* For five seconds it is asked whether the queue has gone.
PollAndClear(c) ==
    /\ At(c, "Poll") /\ Go(c, "Clear")
    /\ UNCHANGED <<peers, pending, sending, told, worker, troubles, ghosts>>
Poll(c) ==
    /\ At(c, "Poll")
    /\ IF queue[client[c].device] = "none"
       THEN Go(c, "Clear") /\ torn' = torn
       ELSE NextDevice(c)
    /\ UNCHANGED <<peers, pending, sending, told, worker, troubles, crossed>>

Clear(c) ==
    /\ At(c, "Clear")
    /\ configPending' = [configPending EXCEPT ![client[c].device] = FALSE]
    /\ NextDevice(c)
    /\ UNCHANGED <<peers, pending, queue, told, worker, troubles, crossed>>

Step(c) == First(c) \/ Second(c) \/ Push(c) \/ Announce(c) \/ Poll(c) \/ Clear(c)

-----------------------------------------------------------------------------
(* enqueuePendingQueues, and the central's worker with MAXPeer::worker      *)

\* A queue that still knows the pending queues is left alone.
Enqueue(d) ==
    queue' = [queue EXCEPT ![d] =
        IF d \notin paired \/ @ = "running" \/ (@ = "told" /\ pending[d] # <<>>) THEN @
        ELSE IF pending[d] = <<>> THEN "told" ELSE "running"]

\* MAXPeer::worker of the peer that is next looks at the flag and the pending
\* queues before it acts; what it repeats was announced 15 minutes ago.
Visit(d) ==
    /\ worker = Walking /\ d \in paired /\ configPending[d]
    /\ \/ pending[d] = <<>> /\ worker' = [peer |-> d, at |-> "Clear"]
       \/ pending[d] # <<>> /\ d \in Always /\ WorksWith(d) = {}
          /\ worker' = [peer |-> d, at |-> "Enqueue"]
    /\ UNCHANGED <<peers, pending, sending, told, client, troubles, ghosts>>

WorkerClear ==
    /\ worker.at = "Clear"
    /\ configPending' = [configPending EXCEPT ![worker.peer] = FALSE]
    /\ worker' = Walking
    /\ UNCHANGED <<peers, pending, queue, told, client, troubles, ghosts>>

WorkerEnqueue ==
    /\ worker.at = "Enqueue"
    /\ Enqueue(worker.peer)
    /\ worker' = Walking
    /\ UNCHANGED <<peers, pending, configPending, told, client, troubles, ghosts>>

\* packetReceived: a device that is awake gets what is pending.
Report(d) ==
    /\ d \in paired /\ pending[d] # <<>>
    /\ Enqueue(d) /\ queue' # queue
    /\ UNCHANGED <<peers, pending, configPending, told, client, worker, troubles, ghosts>>

-----------------------------------------------------------------------------
(* The send queue and the device                                            *)

Obeyed(d) ==
    LET p == Head(pending[d])
    IN  [told EXCEPT ![d] = IF p.op = "add" THEN @ \union {p.partner} ELSE @ \ {p.partner}]
Sendable(d) == queue[d] = "running" /\ pending[d] # <<>>

Deliver(d) ==
    /\ Sendable(d)
    /\ told' = Obeyed(d)
    /\ pending' = [pending EXCEPT ![d] = Tail(@)]
    /\ queue' = IF Len(pending[d]) = 1 THEN [queue EXCEPT ![d] = "done"] ELSE queue
    /\ crossed' = IF Len(pending[d]) = 1 THEN crossed \ {d} ELSE crossed
    /\ UNCHANGED <<peers, configPending, client, worker, troubles, torn>>

\* The acknowledgement is lost: the device has it, the packet stays pending.
DeliverUnacknowledged(d) ==
    /\ Sendable(d) /\ Trouble
    /\ told' = Obeyed(d)
    /\ UNCHANGED <<peers, pending, sending, client, worker, ghosts>>

\* The queue manager removes a queue that has nothing to do, or stands still
\* for two seconds while no call asks for it; setUnreach of a device that
\* listens may enqueue again what it leaves.
Unregister(d) ==
    \/ queue' = [queue EXCEPT ![d] = "none"]
    \/ /\ d \in Always /\ pending[d] # <<>> /\ queue[d] # "done"
       /\ queue' = [queue EXCEPT ![d] = "running"]

Expire(d) ==
    /\ queue[d] \in {"done", "told"}
    /\ queue[d] = "told" /\ pending[d] # <<>> => ~Polled(d)
    /\ Unregister(d)
    /\ UNCHANGED <<peers, pending, configPending, told, client, worker, troubles, ghosts>>

\* A device does not answer as long as packets are sent to it.
GiveUp(d) ==
    /\ queue[d] = "running" /\ ~Polled(d) /\ Trouble
    /\ Unregister(d)
    /\ UNCHANGED <<peers, pending, configPending, told, client, worker, ghosts>>

-----------------------------------------------------------------------------
(* Pairing, and the end of the program                                      *)

\* deletePeer: its partners keep their records.  A call holds the peers it
\* works with; that one is deleted in the middle of it is left out.
Delete(d) ==
    /\ d \in paired /\ WorksWith(d) = {} /\ troubles > 0
    /\ paired' = paired \ {d}
    /\ pending' = [pending EXCEPT ![d] = <<>>]
    /\ records' = [records EXCEPT ![d] = {}]
    /\ configPending' = [configPending EXCEPT ![d] = FALSE]
    /\ queue' = [queue EXCEPT ![d] = "none"]
    /\ crossed' = crossed \ {d}
    /\ worker' = IF worker.peer = d THEN Walking ELSE worker
    /\ UNCHANGED <<generation, told, client, troubles, torn>>

\* A device that is paired was reset before, and has a new peer.
Pair(d) ==
    /\ d \notin paired /\ Trouble
    /\ paired' = paired \union {d}
    /\ generation' = [generation EXCEPT ![d] = @ + 1]
    /\ told' = [told EXCEPT ![d] = {}]
    /\ UNCHANGED <<records, pending, sending, client, worker, ghosts>>

\* The program stops: no call is under way, saveVariables keeps the queues.
Stop ==
    /\ Busy = {} /\ Trouble
    /\ queue' = [d \in Devices |-> "none"]
    /\ worker' = Walking
    /\ UNCHANGED <<peers, pending, configPending, told, client, ghosts>>

\* It is killed: the records are saved one by one, the pending queues are lost.
Kill ==
    /\ Trouble
    /\ pending' = [d \in Devices |-> <<>>]
    /\ queue' = [d \in Devices |-> "none"]
    /\ client' = [c \in Clients |-> IF c \in Busy THEN Over ELSE client[c]]
    /\ worker' = Walking
    /\ torn' = torn \union {PairOf(c) : c \in Busy}
                    \union UNION {{{d, pending[d][i].partner} : i \in DOMAIN pending[d]}
                                  : d \in Devices}
    /\ crossed' = {}
    /\ UNCHANGED <<peers, configPending, told>>

-----------------------------------------------------------------------------

Next ==
    \/ \E c \in Clients, l \in Linkable, op \in {"add", "remove"} : Start(c, op, l[1], l[2])
    \/ \E c \in Clients : Step(c)
    \/ WorkerClear \/ WorkerEnqueue
    \/ \E d \in Devices : Visit(d) \/ Report(d) \/ Deliver(d) \/ DeliverUnacknowledged(d)
                          \/ Expire(d) \/ GiveUp(d) \/ Delete(d) \/ Pair(d)
    \/ Stop \/ Kill

Spec == Init /\ [][Next]_vars

-----------------------------------------------------------------------------
(* Properties                                                               *)

\* Types; a send queue that runs has something to send, and never more packets
\* than there were calls.
TypeOK ==
    /\ paired \subseteq Devices
    /\ generation \in [Devices -> 1..Troubles + 1]
    /\ \A d \in Devices :
        /\ records[d] \subseteq [address : Devices \ {d}, id : 1..Troubles + 1]
        /\ \A i \in DOMAIN pending[d] :
               pending[d][i] \in [op : {"add", "remove"}, partner : Devices \ {d}]
        /\ Len(pending[d]) <= Calls
        /\ queue[d] \in {"none", "running", "done", "told"}
        /\ queue[d] = "running" => pending[d] # <<>>
        /\ told[d] \subseteq Devices \ {d}
    /\ configPending \in [Devices -> BOOLEAN]
    /\ torn \subseteq Pairs /\ crossed \subseteq Devices

\* Two devices are both paired, no call is about them, and the last one was
\* neither interrupted nor did it meet another one.
AtRest(a, b) ==
    /\ {a, b} \subseteq paired /\ a # b /\ {a, b} \notin torn
    /\ \A c \in Busy : PairOf(c) # {a, b}
LinkedTo(a, b) == Record(b) \in records[a]
\* A record of a peer that was deleted since.
Stale(a, b) == Listed(a, b) /\ ~LinkedTo(a, b)

\* Of two peers each lists the other or neither does, and none lists another
\* one twice, whatever calls run side by side, were killed, or were made for
\* a device that has been paired again.
LinksMutual ==
    /\ \A a, b \in Devices : AtRest(a, b) => (LinkedTo(a, b) <=> LinkedTo(b, a))
    /\ \A a \in Devices : \A r, s \in records[a] : r.address = s.address => r = s

\* What a device knows of its partners is what the central has recorded, once
\* nothing is pending for it.
DevicesFollow ==
    \A a, b \in Devices :
        AtRest(a, b) /\ pending[a] = <<>> /\ ~Stale(a, b) => (b \in told[a] <=> LinkedTo(a, b))

\* CONFIG_PENDING stays set for a device that is sent to at once while its
\* configuration is pending and no call is about it: the worker would not
\* repeat it otherwise.
PendingNotForgotten ==
    \A d \in (Always \intersect paired) \ crossed :
        pending[d] # <<>> /\ WorksWith(d) = {} => configPending[d]
=============================================================================
