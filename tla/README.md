# Homegear-MAX: a TLA+ model of the MAX! family module

This directory holds a formal model of the *Homegear* family module for
eQ-3 MAX! devices (`src/` of the repository): TLA+ modules translated from the
C++ source, TLC configurations that check them on small instances, and TLAPS
proofs of the properties that matter for every instance. `PROJECT.json` maps
every definition to the lines it stands for and lists the runs, the hazards and
the findings.

Contents: 1 inventory; 2 modules and how they correspond to the code; 3 runs,
bounds and what they show; 4 assumptions on time, and fairness; 5 findings;
6 proofs; 7 what is only model-checked or not modelled; 8 plan.

Run `tlc -config <run>.cfg <MC module>` to check a run and `tlapm <module>.tla`
to check the proofs.

## 1. Inventory

The module runs inside the Homegear process. RPC threads call into it, one
listener thread per radio interface hands received packets to it, and it owns
worker threads of its own. In everything below `X.cpp` means `src/src/X.cpp`.

| component | source | state | operations | what makes it hard |
|---|---|---|---|---|
| send queue of a peer | `PacketQueue.cpp/.h` | `_queue` of packets and of messages to wait for, `_pendingQueues`, `_resendCounter`, four worker threads with a mutex each, `_stopResendThread`, `_disposing` | `push` (4 overloads), `pushFront`, `pop`, `popWait`, `nextQueueEntry`, `pushPendingQueue`, `startResendThread`, `resend`, `send`, `clear`, `dispose` | threads that start and join each other under five mutexes; checks made before a lock and used after it |
| pending queues of a peer | `PendingQueues.cpp` | list of queues with ids, `_currentID` | `push`, `pop`, `pop(id)`, `remove`, `front`, `empty`, `find`, `serialize` | every call locks for itself, callers combine several |
| queue manager | `QueueManager.cpp` | map address -> queue with `lastAction`, worker thread | `createQueue`, `get`, `resetQueue`, `worker`, `dispose` | the worker erases queues other threads are about to use |
| packet manager | `PacketManager.cpp` | map address -> last packet with its time and id, worker thread | `set`, `get`, `getInfo`, `deletePacket`, `keepAlive`, `worker` | a packet is deleted after two seconds while its record is still used |
| central | `MAXCentral.cpp` | peers in three maps, pairing mode and its timer thread, sent and received packets, message counters | `onPacketReceived`, `sendPacket`, `enqueuePendingQueues`, `handleAck`, `handlePairingRequest`, `handleTimeRequest`, `setInstallMode`, `deletePeer`, `addLink`, `removeLink`, `worker` | RPC, listener, worker and timer threads share all of it |
| peer | `MAXPeer.cpp` | parameter values, pending queues, message counter, service messages, links | `setValue`, `putParamset`, `packetReceived`, `worker`, `save`, `load` | a value is set before the device has it; old reports race with new values |
| message table | `MAXMessages.cpp`, `MAXMessage.cpp` | registered messages | `find`, `checkAccess`, `invokeMessageHandler` | `checkAccess` reads and pops another thread's queue |
| packet codec | `MAXPacket.cpp` | fields of one packet | `import`, `getPosition`, `setPosition`, `byteArray` | several parameters in one byte, one parameter in two places |
| radio interfaces | `PhysicalInterfaces/*` | device handle, listener thread, transmit mutex, `_stopped` flags | `startListening`, `stopListening`, `sendPacket`, `reconnect`, `listen` | a mutex locked in one thread and unlocked in another; reconnects |
| module shell | `MAX.cpp`, `Factory.cpp`, `GD.cpp`, `Interfaces.cpp` | the central, the interfaces | creation, RPC dispatch | thin |

How they interact. An RPC `setValue` builds a *pending queue* (one packet and
the acknowledgement to wait for), appends it to the peer's pending queues and
calls `enqueuePendingQueues`, which gets or creates the device's *send queue*
from the queue manager and hands it the pending queues. The send queue takes
the first pending queue, sends its packet through `MAXCentral::sendPacket` and
starts a resend thread. The listener thread delivers the device's
acknowledgement to `onPacketReceived`; `checkAccess` pops the packet,
`handleAck` pops the message, and the send queue goes on with the next pending
queue. The queue manager's worker comes by every 100 ms and lets a reset thread
dispose queues in which nothing happens. Pairing and unpairing use the same
queues with other types; `handleAck` decides from the queue's type and the
packet last sent (packet manager) that a peer is to be added or deleted.

What makes each part correct, and so what the properties are about:

- *send queue*: every lock is released; a packet is sent at most `retries`
  times and in the order of the calls; a pending queue leaves the peer only when
  delivered or superseded; the queue is given up only after all transmissions;
  after `dispose` none of its threads runs; callers return.
- *queue manager*: a queue in use is not disposed; a registered queue has a
  worker; its threads do not join each other; shutdown ends them.
- *pairing*: the maps of peers agree with each other and the database; central
  and device agree on who is paired; the install mode follows its timer; a peer
  is deleted only when its device has been reset.
- *peer values*: whatever calls and reports overlap, in the end the device has the
  values of the packet queued last and the central shows what the device reports; a call
  that waits succeeds only when its packet was delivered or replaced; queued values survive a restart.
- *packet manager and `sendPacket`*: the packet last sent is forgotten after two
  seconds and not earlier, and never a newer one in its place; packets to a device
  are spaced, and answers wait until it has switched to receiving.
- *configuration*: a packet carries a whole list of parameters, so calls that
  overlap, or are killed on the way, must not make up a value nobody asked for,
  and at rest the device has what the central shows.
- *packet codec*: `getPosition` reads back what `setPosition` wrote and leaves
  other bits alone.
- *links*: the records of two linked peers agree, the devices follow them, and
  CONFIG_PENDING announces what a device has not got.
- *radio interfaces*: one transmission at a time, somebody is there to release the
  transmission mutex, stopping and reconnecting block nobody, the radio listens
  when it has nothing to send (TICC1100); every call of the gateway returns, with
  its own answer, and the connection comes back (HomegearGateway).

## 2. Modules

| module | models | uses |
|---|---|---|
| `PacketQueue` | send queue with pending queues, all threads | Naturals, Sequences |
| `Delivery` | what the send queue promises: the abstract specification `PacketQueue` implements | Naturals, Sequences |
| `QueueManager` | the map of send queues, its worker and reset thread, shutdown | Naturals |
| `Pairing` | install mode, pairing, unpairing, maps of peers, shutdown | Naturals, Sequences |
| `PeerValues` | cached, stored and queued values of one peer and the device, restart | Naturals, FiniteSets, Sequences, SequencesExt |
| `Codec` | `getPosition` and `setPosition` | Integers, Sequences |
| `Configuration` | the packets `putParamset` and `setValue` build, bit by bit and step by step, with overlapping calls and kills | `Codec`, FiniteSets |
| `Transmission` | `sendPacket`, the two packet managers with their workers, repeated packets | Integers, FiniteSets |
| `Links` | `addLink`, `removeLink`, CONFIG_PENDING and the central's worker, several peers | Naturals, Sequences, FiniteSets |
| `Radio` | interface TI CC1100: senders, interrupt thread, start and stop, chip | Naturals, FiniteSets |
| `Gateway` | interface HomegearGateway: senders, listener, start and stop, connection | Naturals, Sequences |
| `MCPacketQueue`, `MCPairing`, `MCPeerValues`, `MCConfiguration`, `MCTransmission`, `MCLinks` | instances for TLC | the module |
| `PacketQueueProofs`, `QueueManagerProofs`, `PairingProofs`, `LinksProofs`, `RadioProofs`, `GatewayProofs` | theorems and proofs | the module, TLAPS |
| `PeerProofs` | theorems and proofs about how a peer keeps values | `PeerValues`, TLAPS |
| `PacketProofs` | theorems and proofs about packets: when they are sent, how fields are written, what they tell the device | `Transmission`, `Configuration` (with `Codec`), TLAPS |

How the modules fit together. `PacketQueue` is proved to implement `Delivery`
(first in, first out; a newer value of a parameter withdraws the older one;
nothing leaves the peer that the device has not got). `Configuration`, `Links` and
`PeerValues` then take a send queue for what `Delivery` says and add what their
own code does around it. `Transmission` is what `PacketQueue` calls in one step
when it sends, `Radio` and `Gateway` are what `Transmission` ends in.

Conventions. A thread is a program counter `pc[t]`; `At(t, l)` means that `t` is
at label `l` and not blocked there by a mutex or a join. Every lock, every join
and every read of shared state outside a lock is a step of its own. A stretch
under a mutex that does not block is one step. Joining a thread and starting it
again is the step that ends the join. Names follow the source (`queue` is
`_queue`, `stop` is `_stopResendThread`, ...). Logging, RPC events and the
contents of packets are left out. Definitions whose names end in `Anyway`,
`OneMore`, `Early` and the like, each right before the definition it resembles, are
seeded bugs: `PROJECT.json` pairs each property with one that violates it.

### PacketQueue

One send queue, statement by statement, for one peer. `ParamOf[i]` is the
parameter the *i*-th `setValue` sets; a pending queue is its id, as
`PendingQueues::push` numbers it. Threads: `rpc` (`setValue`, which calls
`remove`, `push`, `enqueuePendingQueues`), `listener` (`onPacketReceived`,
`checkAccess`, `handleAck`), `reset` (`QueueManager`, which disposes the queue) and the
queue's own four workers. `queue` is `_queue`, `pending` the peer's pending
queues. The labels of `PushStep` are `pushPendingQueue` (698-768): `Scan`, the
loop with its unprotected `empty()` and `front()` (`Deref`), `Front` and `Check`, `Add...`,
`SetWorking`, then the start of the send thread (`SendLock`, `SendJoin`) and of the
resend thread. `Wake` to `RestartJoin` are `resend` (228-345), `Next...`
are `nextQueueEntry` (782-846), `Dispose...` are `dispose` (187-216). `NoLeak` is about
the return at line 305, so the model really returns there with the mutex.
`Promise` maps `currentID`, `pending` and `delivered` to `Delivery`. A thread that
dereferences null is at `Crashed`, and the process with it. One history variable, `overlooked`:
`enqueuePendingQueues` handed in an empty list, or `pushPendingQueue` found it
empty, and the send queue knows the list all the same.
The device and the air are external: a packet may be lost, an acknowledgement
may be lost or late.

### QueueManager

The map `queues`, the ids, `stop` (`_stopWorkerThread`), `disposing`. A queue is
what the manager asks of it: `empty`, `age` (its last action against the limits of
2 s and 20 s) and who refers to it (`Holders`, the pointer's use count). `Create` to
`Return` are `createQueue` with its gap between the two locks (`Insert`) and the one between the
registration of the queue and the copy of the pointer that makes the caller its user (`Return`, 183-186). `Wake`,
`Fetch`, `JoinReset` are the worker, `ResetQueue` and `Unreach` the reset thread, which itself
creates a queue through `setUnreach`. The callers differ in who creates the queue and
whether they wait for its end (`call`): `CallEnqueue` (`setValue`, a device that wakes up) and
`CallConfigure` (`putParamset`) go through `enqueuePendingQueues` with its exits (`EnqueueLock`, `Get`,
`Push`), `CallCreate` (`addLink`, `removeLink`, `reset`) and `CallPair` (a pairing request) call
`createQueue` themselves; `putParamset` and the links then poll (`Poll`, `PollEnd`) and clear CONFIG_PENDING. `CallAck` and
`Pop` are `handleAck`, with a positive answer or a NACK. `Forget` is `deletePeer`, as far as the manager's
callers see it. `delivery` says what became of the configuration CONFIG_PENDING announces. `Dispose` and
`Destroy...` are `dispose` and the destructor, which joins the worker under its mutex. History: `raced` (a reset found the
map empty while `createQueue` was in its first gap), `overtaken` (a reset took the queue in the second). A stretch under `_queueMutex` is one step,
because inside it no thread waits for another.

### Pairing

One device that may be new or already paired. `want` holds the arguments of
the RPC call under way (`setInstallMode`, `deleteDevice`, a call that only queues a
configuration packet), `ref[t]` the pointer to a peer that thread `t` holds (for
`deletePeer`'s use count). `byAddress`, `bySerial`, `byID` are the three maps, `saved`
the rows of the database, updated in the lock sections the code has. The
queues are abstracted to what the other two modules show of them: the front is
sent, again when no answer comes, at most `Sends` times, and then the manager
removes the queue. `sent` is the packet the packet manager remembers; it may be
forgotten after two seconds, and an equal repetition does not refresh it
(`PacketManager::set` compares with a time of 0). `Access` and `AccessPeer` are
the two halves of `checkAccess`, between which the install mode may end.

Four history variables record events that excuse a property, each one a
race or a loss the code does not handle: `missed` (an answer to the
inclusion lost, denied because the install mode had just ended, or not
recognised because the packet last sent was forgotten or replaced), `crossed` (a reset was sent while an
answer to something else was due), `revived` (an acknowledgement adds the peer
that `deletePeer` is just deleting), `late` (`deleteDevice` was under way when the
central was disposed).

### PeerValues

One peer. `cache` is `valuesCentral`, `stored` its copy in the database, `pending`
the pending queues with the packets in them (identified by the call that built
them, as `pendingQueueID` and the message counter identify them in the code), `savedPending` variable 16 of the
database. The send queue is reduced to what `PacketQueue` shows of it: `sending`
is the copy of the front's packet, sent until it is acknowledged or given up;
`attached`, `loading` and `queueType` are `_pendingQueues`, the thread for
`pushPendingQueue` and `_queueType`, because three decisions depend on them:
`enqueuePendingQueues` starts nothing if the send queue knows of a list that is
not empty, an acknowledgement reaches `packetReceived` only if the type is `PEER`,
and the pending queue that is popped is the one with the id remembered.

The packet for a parameter carries all the parameters of its frame (`Frame`), and the device tells some of
them only (`Reported`): in the descriptions acknowledgements and reports contain `SET_TEMPERATURE`,
`CONTROL_MODE`, `VALVE_STATE`, `LOWBAT` and the like, but neither `COMFORT_TEMPERATURE` nor `PARTY_TEMPERATURE`.
What is changed at the device itself is a parameter it reports; nobody learns of other changes there, which are left out.

An RPC thread in `setValue` goes through `Cache` (1342), `Save` (1343), `Build` (the
packet takes the parameters of its frame from the cache one by one, the one given too, 1388-1412), `RemoveQueued`, `Push`,
`Enqueue` and, if it waits, `Wait`; `putParamset` starts at `Push`. `Unserved` are the exits of
`enqueuePendingQueues` (879-889) that report success with nothing queued, `Withdraw` is what leads there: the peer is deleted or
the manager disposed. The loop over `autoReset` (1414-1436) is left out, as no device description in `misc/` has such an element. The listener goes through
`Access` (`checkAccess`, `handleAck`), `Type` (`MAXCentral.cpp:254`), `Counter` (851), then for each
parameter `Exists` (873), `Write` (881) and `Save`, then `Empty` (908), `Front` (912) and
`Enqueue`. An acknowledgement tells the values of the parameters reported, as a report does.
`Shutdown` is `saveVariables` and `loadVariables`, `Kill` only the latter, `Die` the use of a
null `front()` at line 912. The device and the air are external.

History: `newest` (what the packet queued last carries), `turned` (changed at the device),
`delivered`, `superseded`, `killed`, and `unreported`: what the device told last was lost
on the air, was handled by a send queue that had worked on a configuration, or
was taken for a repetition because it had the counter of the last packet.

### Radio

`TICC1100`. `txMutex` is `_txMutex`, which has no owner here: `sendPacket` locks it and
`mainThread` unlocks it. A sender goes through `Lock` (318), `Check` (320), `Commit` (325), `StrobeIdle`
(326) and, as its packet wants it, `StartBurst` and `Fill` or `StartPlain` (333-339). `main`
is the label of `mainThread`: from `Loop` to the reconnect (`Reconnect`, `Wait`, `Reopen`,
`MainInit`) or through `Poll` to `LowPin` and `TryLock` (751) or to `HighPin` and
`EndSending` or the packet received (`TooLarge`, `TooSmall`, `Received`); `PollError` is a `poll` that
fails, or an `lseek` that does (746), whose exception unlocks the mutex. `control` is the
thread in `stopListening` or `startListening`, which makes sending possible (622) before it starts the thread (`Launch`). `device` and `gpio` say whether the
descriptors are open. The chip and the pin are external: the pin is low
from a packet's first bits to its end, commands break off what the chip does, and
after each packet the chip idles (`MCSM1` in `setConfig`).

History: `raced` (a sender took the mutex, or began, while `mainThread` was busy
with something else, whose end releases the mutex too early), `unheard` (a packet
too small came in), `late` (a sender passed its checks when `mainThread` had ended and the next was not just being started).

### Codec and Configuration

A byte is the set of its bits; a position is the number of the description times
ten (`90` is the first byte of the payload, `115` bit 5 of the third), as the code
turns it into an integer. `SetPosition` has the two branches of `setPosition`, for
less than a byte (`SetBits`: shifted, masked and or-ed in) and for whole bytes
(`SetBytes`), with the width of the integers: what is shifted out is lost.
`GetPosition` has those of `getPosition`. Fields of more than eight bits that do not
end at a byte occur in no device description and are left out.

In `Configuration` `cache` is `configCentral` and `valuesCentral`, `pending` the
pending queues. `putParamset` goes through `SetParameter` (1075, each parameter
written and saved), then for each list through `StartList` (1112), `Put` (1119, one given parameter
put into the packet, as `adjustBitPosition` has shifted it), `Fill` (1124, one missing parameter read from
the cache) and `Push` (1138); `setValue` through `SetParameter`, `StartFrame`, `Element` (1365, one element of the
frame read from the cache), `Remove` (1442) and `Push`. Each parameter is a step of its own, so that other
calls come in between; RPC threads have no lock in common there. `PutParamset` takes any set of
parameters at once. `Kill` loses the queues, not the parameters. The device is external: it
reads a parameter where the description has it, also in its report, which has the bytes of the frame
three positions further on (`ACK_STATUS` has at 13.0 to 16.0 what the frames have at 10.0 to 13.0) and
the month of the party mode in two places.

A description is the constants `Number`, `Layout`, `Elements` and `Values`. What `putParamset` and the codec
rely on is stated as `ConfigurationAssumption`: the fields of a list or a frame share no bit (`Disjoint`);
one of less than a byte does not straddle two (`Field`); two parameters of a list do not
begin in one byte (`DistinctBytes`); the values fit; a value of a frame is reported as a whole (`Whole`), or
in two parts that make up a byte (`Split`). The lists of all shipped descriptions are like that
(six bits at `x.1`, eleven at `x.0`, from position 11 on), and so are the elements of their
frames from position 10 on, as far as the device reports them three positions further on. Left
out are elements with a constant, which have bits of their own, and `CONTROL_MODE`, which is reported elsewhere.

History: `had` (the values a parameter has had), `stale` and `overlapped` (the last call for
a list met another one, or was killed), `mixed` (the same of the packet the device got last).

### Transmission

The objects `MAXPacketInfo` are shared through pointers, so the maps (`packets`) hold
identities and `info` the objects: a thread in `sendPacket` may change the time of one
the map no longer has. `set` is in two steps, as it releases `_packetMutex` between
erasing the old packet and inserting the new one (`Erase`, `Insert`); `deletePacket`
compares the identity and the age under the mutex (`Delete`) after the worker has
looked (`Pick`). A call goes through `Look` (834, the record of the packet
before), `EraseSent`, `InsertSent`, `Wait` (835-841), `Answer` (842-852) and `Transmit`
(853-856). A stealthy packet is not recorded (nobody in the source sends one; the
branch is modelled). The listener goes through `EraseHeard` and `InsertHeard` (207-240)
and sends, too. `Tick` lets time pass while everyone sleeps.

History: `air` (the last transmission), `heard`, `since` (age of the last insertion), and
`alone` of a thread: no other call and no packet came during its call.

### Links

Several devices. `records` is `_peers` of each peer (address and id of its partners),
`generation` the id a device's peer has at present, `told` what the device itself
knows. A call is `First` and `Second` (the records of the two peers, 1176-1177 and
1403-1404), then for each of the two devices `Push`, `Announce` (CONFIG_PENDING and the
queue) and `Poll`/`Clear` (the loop that waits five seconds for the queue to go, and
what it does then). `addPeer` replaces a record by address, `removePeer` looks for the id:
`AddPeer` and `RemovePeer` do the same. `Visit`, `WorkerClear` and `WorkerEnqueue` are
`MAXPeer::worker` (114), which looks at the flag and the pending queues and acts later;
`Expire` and `GiveUp` are what `QueueManager` does to a queue, `Report` is a device
that wakes up. `Delete`, `Pair`, `Stop` and `Kill` are deletion, pairing anew, and the two
ends of the program.

History: `torn` (pairs whose last call was interrupted or met another one),
`crossed` (devices for which a call met another one or the worker).

### Gateway

`HomegearGateway`. `socket` is `_tcpSocket`: null, closed, open, or broken without anybody
knowing. A sender goes through `Check` and `Recheck` (169-201), `Invoke` and `Request`
(the two mutexes, `_waitForResponse`, 203-209), `Send` and `Reopen` (five attempts,
214-225) and `Await`, whose `Evaluate` is one evaluation of the predicate of `wait_for`.
The listener is `ListenerOpens`, `Loop`, `Read...`, `Reply`, `Store` (83-161). `StopListening`,
`Shutdown`, `Join`, `Reset` and `Start` are the thread that starts and stops. A request
carries nothing that its answer repeats: `response` is the sender whose request was
answered, so the model can tell what the code cannot.

History: `givenUp` (calls that returned without an answer), `crashed` (a sender used the
null pointer `stopListening` had left).

## 3. Runs

| run | instance | shows |
|---|---|---|
| `pq_timely` | four `setValue` calls, the third for the parameter of the second, the fourth for that of the first; 3 retries, 4 acknowledgements; prompt threads, timely answers | `TypeOK`, `NoLeak`, `NoCrash`, `AtMostRetries`, `SentInOrder`, `GivenUpOnlyAfterRetries`; `Promise`, the refinement of `Delivery`; with fairness `EventuallyServed`, `CallersReturn`; no deadlock |
| `pq_async` | one call, threads of any speed | `DisposedQuiescent` |
| `pq_leak` (violation) | two calls, late acknowledgements | `resend()` returns with `_queueMutex` locked |
| `qm_one` | one device that listens or sleeps, two queues, two polls, deletion of the peer and shutdown at any time | `TypeOK`, `HeldUsable`, `Watched`, `NothingRunsAfter`, `ConfigDelivered`; with fairness `DestroyReturns` |
| `qm_join` (violation) | one device, slow reset thread | worker and reset thread join each other |
| `pair` | one pairing request, two RPC calls, two transmissions, shutdown at any time | `MapsAgree`, `KnownIfPaired`, `ModeFollowsTimer`, `QuietWhenDisposed`, `DeletedOnlyIfReset`; no deadlock |
| `values` | two RPC threads with two calls, two parameters with two values that share a packet, of which the device reports one, and the configuration; one report, restart, kill or deletion; two packets on the air | `CacheFollowsDevice`, `LastPacketWins`, `SuccessMeansDelivered` |
| `config` | two RPC threads with two calls for the first entries of two days of the week program and for the party mode, kills | `NothingInvented`, `InSync` |
| `transmission` | the send queue and the listener, four calls or packets heard, a value, a stealthy packet and an answer; delays of 2, 3 and 4 ticks | `Remembered`, `Spaced`, `Answered` |
| `links` | three devices, one of which listens always and is linked with the two others (symmetric); two calls; one loss, silence, deletion with new pairing, stop or kill | `TypeOK`, `LinksMutual`, `DevicesFollow`, `PendingNotForgotten` |
| `radio` | two senders with two calls, one packet or fault, start, stop and start again | `OneTransmission`, `MainUnlocks`, `Listens`; with fairness `CallsReturn` |
| `gateway` | two senders, one report, two failures of the network, start, stop and start again; two attempts, two evaluations | `OwnAnswer`; with fairness `CallsReturn`, `Reconnects` |

Why the bounds are enough. In `pq_timely` three calls are what it takes to supersede a
queue that is on air while another waits behind it; the fourth withdraws the
last queue while `pushPendingQueue` looks for it. Elsewhere two calls suffice for any
two of them to meet. `retries` is 3, the default of the code; four
acknowledgements allow one for each packet and one repeated. Two queues of one device are the
smallest case in which `createQueue` and the reset of the previous queue
overlap; a third is only needed for the mutual join (the one `setUnreach`
creates). In `pair` one request and two calls allow pairing against deleting,
deleting against deleting and the install mode set anew while it runs;
instances with two requests and two calls were also checked while the module
was written and show nothing new. Counters (`MaxAcks`, `MaxQueues`, `Polls`,
`Calls`, `Requests`, `Sends`, `Duration`) are bounded in the guards of the
actions that raise them.

In `values` two calls are what it takes to replace a pending queue on the air;
one report meets each of their steps, with a counter (`Counter0`) equal to that
of the second call's packet. The configuration serves as the other entry of the list. Two parameters in
one packet are what it takes to carry an older value along, the frame `PARTY_MODE_SET` being of that kind; with one
of them reported and one not, both sides of `CacheFollowsDevice` occur.
Values of different parameters are never compared, so the run begins with one value for both (`StartAlike`).

In `radio` two calls are what it takes to wait for the mutex, and the third call of
start or stop shows what a stop leaves behind. The safety properties were also
checked with three calls, two packets or faults and three stops while the module was
written.

In `config` two calls are what it takes for two to overlap in a list, and one value
that is given beside one that is filled in. The fields are those of the
descriptions with which something could go wrong: two in neighbouring bytes, one of
more than a byte, two in one byte, one in two places, one in the byte after the constant.

In `transmission` four events are two packets of a kind with an answer and a
packet heard between them; the ticks keep the order of the code's 55, 200 and 2000 ms,
which is all the comparisons depend on.

In `links` the device in the middle is the partner of both others, so that two calls
share one device or both. One trouble comes anywhere in the two calls; deleting is
free and pairing anew takes the trouble.

In `gateway` two attempts and two evaluations (the code has five and ten) are the
smallest numbers with one that is not the last. Two failures are one at the sender and one at
the listener that is reopening.

Every module states a type invariant, `TypeOK` (`ConfigurationTypeOK` in `Configuration`). `pq_timely`, `qm_one` and `links`
check it; in the others it was checked while they were written, or is part of the invariants proved, and
the runs spend their time on the rest.

Deadlock is checked in every passing run except `pq_async`, where a leaked
mutex (the finding of `pq_leak`) stops the system for good, `gateway`, where the
process may die (`crashed`), and `values`, `config`, `links`, `transmission` and `radio`, which
stop when the calls are used up.

## 4. Time and fairness

`Prompt` states that sleeps and air time outlast the steps threads are ready to
take. The code justifies it by its constants: sleeping threads poll the stop
flag every 20 to 33 ms, the resend thread sleeps for 200 ms to 3 s, the
manager's worker for 100 ms, and a device answers after 55 ms at the earliest
(comment at `MAXPeer.cpp:924`), while the steps in between are microseconds of
computation. `Timely` states that an acknowledgement arrives before its packet is
sent again. Both are parameters: runs without them (`pq_async`, `pq_leak`,
`qm_join`) show what depends on them. `AtMostRetries`, `SentInOrder` and
`NoLeak` do: a late acknowledgement makes `resend()` count and send the wrong packet.
`PeerValues` has `Timely` in the guards of `Transmit` and `GiveUp` (`AnswerDue`). In `Pairing` a thread that sleeps or waits does so longer than the others take
for their runnable steps (`TimePasses`), as above.

In `Radio` three guards stand for durations: a packet on the air lasts longer than
a sender takes from the mutex to its first command (`End`), resetting the
chip longer than its checks (`OpenDevice`), and the two seconds of the reconnect
outlast `sendPacket` (`Wait`).

A connection of the gateway that breaks shows itself in `Gateway` at the next `Send`, which may fail, or at a
`Read`, which may throw or time out, as often as it likes; nothing in the source asks the gateway whether it is there (no
ping, no keep-alive). So `Reconnects` is about a connection that is known to be lost. A message is read as a whole: what
`_binaryRpc` (126-150) keeps of one half read when the connection is opened anew (101-111 do not reset it) is left out.

In `Transmission` a step takes no time and time passes only when every thread sleeps or
is idle: the delays are 55 ms and more. The workers of the packet managers are
exempt, they run whenever they like. `Gateway` has no time: a wait may end
before or after anything else. `Links` lets the manager give up a queue only while no call polls for
it (a call asks for the queue every 100 ms for five seconds, which sets its
`lastAction`), and the worker repeats nothing while a call is about the device, as it
waits 15 minutes after the last attempt.

Fairness is weak fairness for each thread inside a call or running (an operating
system schedules every runnable thread) and none for starting RPC calls, for
the device's answers or for pressing a button. In `QueueManager` the worker's
timer and the ageing of queues are fair because clocks go on. In `Radio` it is also
assumed of the chip, which ends each packet it sends or receives, in `Gateway` of the gateway, which
answers as long as the connection is open; there is none for its reports and for failures.

## 5. Findings

Two runs end in a violation that contradicts a comment or message of the source; each is
described in `PROJECT.json`.

- `pq_leak`: `resend()` returns at `PacketQueue.cpp:305` with `_queueMutex` locked
  when the front entry is a message, i.e. after an acknowledgement that came
  while the thread was about to resend.
- `qm_join`: the "Resource deadlock avoided" of `QueueManager.cpp:152` can still occur.

Races the passing properties have to except, found while modelling:

- A call of `setValue` that withdraws the last pending queue (`remove`) and has not put its own
  may meet `pushPendingQueue`, as the two use different mutexes. Between its `empty()` and
  its `front()` at `PacketQueue.cpp:714` the thread dereferences null and the process dies: the one way
  `NoCrash` leaves. The null check at line 726 ("Not really necessary, as the mutex is locked") is needed
  for the same reason; if it strikes, or if the list is found empty at line 709, nothing is
  sent and the value put next is not started (`overlooked` in `GivenUpOnlyAfterRetries`).
- Every regular deletion of a device blocks the listener for a minute: `deletePeer`
  waits until nobody else holds the peer, and its caller `handleAck` does (`EraseWait`).
- "Don't set queued values" (`MAXPeer.cpp:873`) is decided before the value is written and
  not again, so a value queued in between is overwritten in the cache until its acknowledgement.
- `createQueue` and the reset of the last queue: the worker may be stopped while
  a queue is registered (`raced` in `Watched`).
- From the registration of a new queue (`QueueManager.cpp:183`) until line 186 has copied the pointer its use count
  is one. A worker that comes by lets `resetQueue` (209) dispose it, as it is empty and has no user: the caller
  fills a queue that is not registered, and a poll that finds none clears CONFIG_PENDING with nothing
  delivered (`overtaken` in `HeldUsable`, `lost` in `ConfigDelivered`).
- `putParamset` and the links clear CONFIG_PENDING when the queue is not
  registered yet or when `get` returns null at shutdown (`ConfigDelivered`), when the device has answered with a NACK (`handleAck`
  pops the queue all the same), when the peer has been deleted, and, in a link call to a device that only wakes up by itself,
  at once, with the packets parked at the peer.
- After `dispose`, `createQueue` returns null and `addLink`, `reset` and
  `removeLink` use it (`MAXCentral.cpp:290`, 1201, 1234; `DestroyReturns`).
- The acknowledgement of a configuration packet can be taken for that of the
  reset that has just been sent: the peer is deleted though the device still
  takes itself for paired (`crossed` in `DeletedOnlyIfReset`).
- A second acknowledgement of the inclusion can re-add the peer that a forced
  deletion is removing; it is then in the maps and not in the database (`revived` in `MapsAgree`).
- The install mode may end between inclusion and acknowledgement, and the packet last sent may be forgotten:
  the device is paired and the central does not know it (`missed` in `KnownIfPaired`).
- `setValue` sends what the cache holds when it builds the packet: a report or another
  call in between makes it send that value and succeed all the same (`newest` in
  `LastPacketWins` is the value queued, not the value asked for).
- A packet takes the other parameters of its frame along. A call for `CONTROL_MODE` that has built its packet with the old
  temperature and queues it after a call for `SET_TEMPERATURE` leaves the device with the old one: `remove` withdraws
  queues of the same parameter only (`LastPacketWins`). The acknowledgement then brings the cache in line with the
  device, if the device reports the parameter; what it never reports overlapping calls may leave
  different for good (`CacheFollowsDevice` is about `Reported`).
- `setValue` with `wait` succeeds with nothing queued for sending when the peer has been deleted or the manager
  disposed before `enqueuePendingQueues` looks (`MAXCentral.cpp:880`, 886; `Unserved` in `SuccessMeansDelivered`).
- So it is when `enqueuePendingQueues` hands in a list that has just been emptied (`MAXCentral.cpp:891`): the
  send queue knows the list, and the next value is not started until it has been reset.
- A report or acknowledgement is lost to the cache when it has the counter of the last
  packet, or when the send queue has just worked on a configuration (`unreported`).
- A sender that takes the transmission mutex while a packet comes in, or while
  `mainThread` handles something else, has it released under it, and a second
  sender may start (`raced` in `OneTransmission`).
- After a packet that is too small the chip is not told to listen: the radio is
  deaf until the next packet is sent (`unheard` in `Listens`).
- `stopListening` withdraws `_stopCallbackThread` before it closes the device. A
  sender that gets the mutex in between passes its checks and nobody releases
  the mutex: later senders and the next `startListening` block for good (`late`).
- `PacketManager::set` erases and inserts in two lock sections, and the insertion does not
  replace: of two threads that send to one device at once the later packet is not
  remembered. An equal packet is not refreshed (`set` is called with time 0), and a
  repetition heard within 200 ms does not refresh the time of the packet
  received (`repeated` in `Answered`).
- "Change" of the time in `sendPacket` goes to the record fetched before `set`, which `set` has
  just replaced unless the packets are equal; the spacing of packets to a device rests
  on the record of the packet received from it, and holds for calls that do not meet another one (`alone`
  in `Spaced`). The identity compared in `deletePacket` never
  decides anything the age does not.
- Overlapping calls of `putParamset` or `setValue` for one list leave the device with what
  the cache had in between; the next call makes up for it (`stale` in `InSync`). A value whose
  bits are in two elements of a frame may get one half of each of two values
  (`ReadTwice` in `NothingInvented`).
- `putParamset` decides which parameters are missing by the byte they begin in: of two in
  one byte of a list it would leave out the one not given. The device descriptions have none (`DistinctBytes`).
- Two calls of `addLink` and `removeLink` for one pair, or a kill between the two `addPeer`,
  leave the two records different until the next call (`torn` in `LinksMutual`).
- After a device is deleted and paired anew its partners keep their records, which `removeLink` does
  not remove as the id has changed; `addLink` replaces them (`Stale` in `DevicesFollow`).
- The loops that wait for the queue, and the worker, look and then clear CONFIG_PENDING:
  a packet queued in between is no longer announced (`crossed` in `PendingNotForgotten`). For a device that
  wakes up only by itself no queue is created, so the loop clears it at once.
- Requests to the gateway carry no number: an answer that comes after `invoke` gave up is
  taken for that of the next call (`givenUp` in `OwnAnswer`). A connection that breaks without a sign is not noticed
  by the listener, whose reads time out, until a `sendPacket` fails (`Reconnects`). `stopListening` resets the socket while
  senders may be about to use it (`crashed`).
- After a crash (`killed`) the cache may show a value that was never sent, and
  delivered values that were pending at the last save are sent again.

## 6. Proofs

The theorems hold for every value of the constants that the modules' assumptions
(`QueueAssumption`, `ManagerAssumption`, `GatewayAssumption`, ...) allow: numbers of threads,
calls, packets, losses, kills, restarts and delays. Their forms are `Spec => []P`, `Spec => [][A]_vars` and,
for the refinement, `Spec => Abstract!Spec`. Seldom is P inductive; each proof module begins with
the invariant that is, as a conjunction of named parts, each with a line on what it says. That
invariant was checked by TLC on the run's instance before it was proved. One lemma per
action, or group of actions that change the same things, says what the step does or
that it keeps the parts it can disturb; lemmas named `...Effect` and `...Kept` say it of the operators the
actions are made of. No theorem assumes fairness.

- `PacketQueueProofs!TypeCorrect`. `TypeOK` is not inductive: that the resend
  counter stays below `Retries - 1` and that the lists hold valid ids depends on
  what threads are about to write. `TypeInv` adds `HeldOK`: a thread about to
  queue, send or pop holds a valid id. The proof goes variable by variable
  (`PcType`, `HeldType`, `OwnerType`, `ListTypes`, `ControlTypes`, `RadioTypes`).
- `PacketQueueProofs!DisposeQuiesces`: `DisposedQuiescent`. `dispose` joins four
  threads one after the other, and each may start another. `DisposeInv` says how
  far it has got (`held["reset"]`) and which workers are gone by then; the
  resend thread, which is joined last, could restart the first only under the mutex
  `dispose` takes to join that one, and finds `_disposing` set. This needs no
  assumption on speed.
- `PacketQueueProofs`, under `Prompt` and `Timely` (section 4; `pq_leak` shows that `NoLeak` needs
  them): `MutexesReturn` (`NoLeak`), `DiesOneWay` (`NoCrash`), `RetriesBounded` (`AtMostRetries`),
  `PacketsInOrder` (`SentInOrder`), `GivenUpLate` (`GivenUpOnlyAfterRetries`) and `QueueDelivers`, the refinement
  of `Delivery`, for any calls and retries. The invariant `IInv` adds to the two above a
  `Phase`, one of seventeen: the queue waits for a call; somebody looks for the next value
  (`Looking`, `Found`, `Loaded`, `Launched`); a packet is on the air or about to be repeated (`Sleeping` to
  `Last`); its answer is handled (`FirstPop`, `SecondPop`, `Popped`, `Going`); or it is disposed (`Gone`) or the
  process dead. Each phase says where every thread is and what is in the queue. `Owners` says
  where the owner of each mutex is, `Turn` that the packet at work is the first of those
  waiting. What makes it inductive is the lemma `Calm`: time passes (a timer, the air, the reset)
  only in phases in which no thread can go on by itself, which is what `Prompt` means, and
  which rests on no mutex being held then. The resend thread that was told to stop, in the
  sleep between two looks at the flag, is the one thread left over from an
  earlier phase; `pop` joins it.
- `QueueManagerProofs!TypeCorrect`. `Room` counts the calls under way against the
  bound, so an inserted queue has a valid id.
- `QueueManagerProofs!QueuesInUseKept`: `HeldUsable`. `UsableInv` adds that ids are
  fresh (a queue disposed or referred to is older than the next id), that no
  queue is registered twice, that registered queues are usable and so are, unless overtaken, those
  `createQueue` is about to return (`ReturnedUsable`); the reset
  compares the id it was given with the registered one under the mutex.
- `QueueManagerProofs!QueuesWatched`: `Watched`, for any number of devices, under the
  assumption that the worker and the reset thread never join each other
  (`[]NoMutualJoin`, which `qm_join` shows may fail). `WatchInv` says that the worker is
  told to stop only when no queue is registered and nobody is about to insert one,
  apart from the race the property names.
- `QueueManagerProofs!ClearedWhenDelivered`: `ConfigDelivered`, under `Prompt` and `[]NoMutualJoin`. `PollInv` says what
  the RPC thread's polls rest on: until the device has its configuration, the queue they look at is young and has
  something to send or is held by somebody about to push to it, or it is just being replaced (`Awaited`); a
  thread works with the queue of its own address (`Belongs`). It needs `WatchInv`, as a stopped worker must mean that no queue is
  left, and `JoinInv`: who joins the worker holds its mutex and found it stopped.
- `QueueManagerProofs!DestroyQuiesces`: `NothingRunsAfter`. `QuiesceInv` follows the
  destructor: callers are gone, the worker is joined, then the reset thread.

- `PairingProofs!InstallModeEnds` and `CentralQuiesces`: `ModeFollowsTimer`, `QuietWhenDisposed`. The mutex of the
  install mode belongs to the thread that is joining the timer (`ModeExclusive`); `Closed` says which threads
  have ended by each step of `dispose`.
- `PairingProofs!PeersAgree`: `MapsAgree`. A peer is put in the maps and the database one after the other and
  removed likewise: `Addition` and `Removal` say how far, `Database` what the rows are meanwhile. That
  two threads do not remove and add at once needs `Budget`: each queue was made
  for one request or call, so the queue the listener holds is not overwritten.
- `PairingProofs!PairedIsKnown`: `KnownIfPaired`. From the device's answer to the inclusion until the peer is in
  the map that answer is on the air or at the listener (`OnTheWay`).
- `PairingProofs!ForgetsOnlyAfterReset`: `DeletedOnlyIfReset`. As long as the packet last sent is the reset,
  an answer that is due is the answer to it (`ResetAnswered`), and until the removal nothing can include
  the device again (`Forgetting`).
- `PacketProofs!LastSentIsRemembered`, `PacketsAreSpaced`, `AnswersWait`: `Remembered`, `Spaced`,
  `Answered`. `Sole` says that a call that is `alone` is the only thing going on, so the gap of `set` between
  its two lock sections harms nobody; `Young` relates the record's age to the insertion, `Apart` keeps the
  records of the two managers apart, `Stamped` and `Waited` follow the time of the
  last transmission through the record of the packet heard.
- `RadioProofs!MutexIsReleased`: `MainUnlocks`, inductive as it stands with the types. It says who is there to unlock
  the mutex, not that it is unlocked: that is part of `CallsReturn`, which is model-checked.
- `RadioProofs!RadioListens`: `Listens`. `Woken` says that a chip that idles while `mainThread` is watching the
  pin has left an edge to be read, or a sender that will give it a command, or was fed a packet that was too
  short; `Announced` that `_sendingPending` is set for somebody who will clear it; `Prepared` what the thread that is about to
  be started finds.
- `RadioProofs!TransmissionsAlone`: `OneTransmission`, as long as neither `raced` nor `late` has happened. `Before`, `After` and `Transmission` say where
  `mainThread` is while a sender is before its first command, after it, and on the air.
- `GatewayProofs!AnswersAreOwn`: `OwnAnswer`, which leaves the late answer to a call that gave up as the only foreign one. One sender at a time is in `invoke` (`Exclusive`), the old answer is cleared
  before the request leaves (`Cleared`), whatever is on its way is waited for or was given up
  (`Awaited`), and no request is in two places (`Once`).
- `LinksProofs!RecordsAgree`: `LinksMutual`, for any devices, links and numbers of calls
  and troubles. `IInv` adds to the types (`LinksType`): records and calls are of
  devices that were paired then (`Present`); a call that is still clean is the only one for its
  pair (`Alone`); between `First` and `Second` such a call has recorded at the one
  peer what it is going to record at the other (`Recording`); pairs that are in order
  and have no call agree (`Agree`); no address is recorded twice (`Once`). Deleting a
  peer disturbs nothing as the property is about two paired peers, and pairing anew
  gives an id no record has.
- `LinksProofs!PendingIsAnnounced`: `PendingNotForgotten`. A packet that is pending was announced or its call is about to
  announce it, and while a call polls the send queue stays (`Announced`); whoever is about to clear the flag
  has seen nothing left (`NothingLeft`).
- `LinksProofs!DevicesAgree`: `DevicesFollow`. `Final` is what a device will know when it has got what is pending: what
  the last packet about a partner says or, without one, what it knows. Sending a packet,
  once or twice, leaves it as it is (`OutcomeOfTail`), queueing one has the last word (`OutcomeOfAppend`). `Telling` says how far a
  clean call has brought the records and `Final` together, `Following` that apart from calls they agree.
- `LinksProofs!LinksTypes`: `TypeOK`, from the parts above.
- `PeerProofs!TypeCorrect`: the types of `PeerValues`, with what an RPC thread works with at each of its labels.
- `PeerProofs!SuccessIsEarned`: `SuccessMeansDelivered`. An answer that is on its way is the only one, answers the packet
  that is being sent, and the device has that packet (`Acks`), so a queue that is popped was delivered; a thread that waits
  finds its packet pending, delivered or replaced (`Accounted`).
- `PeerProofs!LastPacketDelivered`: `LastPacketWins`. `Fresh` says that an id stands for one packet until the process is
  killed. `Newest` says of each parameter that a thread is about to queue another packet that carries it, or the last
  pending one that does has the newest value, or the device has that value and no older one is being sent.
- `PeerProofs!CacheCatchesUp`: `CacheFollowsDevice`. `LastTold` says that the last message on the air has
  the device's values, unless one was lost; `Synced` that a parameter reported whose cache or database is not level with the
  device is in a message on the air or at the listener, or pending or about to be, so that an answer is to come.
  The lemma all three rest on is `RemovedElements`: what `remove` leaves of a list are the queues of other parameters,
  in their order. All three have `AnswerDue` in the guards of the model (section 4), as the run does.
- `PacketProofs`, about `Codec`: `SetPositionKeeps` (for any payload, position, size and value, the result
  consists of bytes, is not shorter and keeps every bit), `ReadBack` and `OthersUntouched`
  (a field of less than a byte gives back the value written, and no other one changes that shares no bit
  with it), `ReadBackBytes` (the same as `ReadBack` for whole bytes). They are about operators and so
  hold in every state of `Configuration`.
- `PacketProofs!WritePart` and `ReadValue`, for any description `ConfigurationAssumption` allows. A field of a packet
  is `Blank` or `Shows` a value; writing a value turns a blank field into one that shows it and leaves all others of the
  list or frame as they are; a device reads the value that all fields of the parameter show, put
  together again if it is in two. `PutGivenIs` says that a given parameter, which is shifted before it is written as
  whole bytes, ends up where a missing one does.
- `PacketProofs!ConfigurationTypes`, `DeviceHasNothingInvented`, `DeviceInSync`: `ConfigurationTypeOK`, `NothingInvented`,
  `InSync`, for any callers, calls, kills and descriptions. The loops of `putParamset` and `setValue` are steps, so an invariant
  takes the place of an induction over the parameters: `Built` says that each field of a packet under way is
  blank until its turn (`Done`) and then shows a value its parameter has had, the one in the cache if
  the call meets no other (`Filled`). It needs `Settled` (what was given is in the cache, and had, once it is set) and
  `Solitary` (a call that does not overlap is the only one). `Sound` carries it over to the
  packets pending, with both parts of a value from one and the same value unless calls overlapped.
  `Current` is about `InSync`: of a group that is not stale, a running call will queue a packet (`Covered`), or the last one
  pending shows the cache (`LastShows`), or none is pending and the device has it (`DeviceShows`).
  That `remove` of a frame's queues keeps this needs the order of the others, which `Others` and `InOrder` give.

## 7. Not proved, not modelled

Out of the prover's reach, and only model-checked: liveness under fairness (`EventuallyServed`, `CallersReturn`,
`DestroyReturns`, `CallsReturn`, `Reconnects`). What a recursive definition computes for every input
cannot be proved either; the modules with theorems have none. Every other property of a passing run is
stated by a theorem.

Proved under assumptions the system may break: the theorems of `PacketQueue` that name `Prompt` and `Timely`,
`QueuesWatched` and `ClearedWhenDelivered`. Without them `pq_async` checks what remains, `pq_leak` and `qm_join` show what does not.

Not modelled, for a reason:

- CUL, COC and CUNX: one listener thread and writers of single lines; their locks, buffers and
  reconnects are those of Homegear's base library, which is not in this repository.
- Deletion of a peer in the middle of a call of `addLink` or `removeLink` (`deletePeer` waits a
  minute for the call's pointer), two calls writing one `_peers` vector at once (a data race), pending queues
  that come back after a kill though the device had them, the order and the pace of the worker's walk.
- Liveness of the worker's repetition: it needs a device that answers in the end and
  a quarter of an hour without calls, and then says no more than `PendingNotForgotten`.
- `import` and `byteArray` of the codec, which move bytes to and from strings.
- The stealthy and repeated pushes of `PacketQueue`, which have no caller in this module.
- The construction of interfaces and factories, descriptions of devices and values,
  command line handlers and logging, which have no state of the kind above; the
  delegate templates, which are vendored.

## 8. Plan

Every module planned is written. What is left, the most useful first:

1. `Pairing`: devices that do not listen (their reset stays pending).
2. `PeerValues`: the repetition of reports.
3. `Gateway`: messages that arrive in parts.
