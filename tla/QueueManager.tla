----------------------------- MODULE QueueManager -----------------------------
(***************************************************************************)
(* QueueManager: the map from device addresses to send queues, the worker  *)
(* thread that comes by every 100 ms, the reset thread it starts to remove *)
(* a queue, and the threads that get and create queues meanwhile.  A       *)
(* stretch under _queueMutex is one step: it never blocks on a thread that *)
(* needs the QueueManager.  A queue is what the manager asks of it:        *)
(* whether it is empty, how long ago its last action was, who refers to it.*)
(***************************************************************************)
EXTENDS Naturals

CONSTANTS
    Addresses,  \* device addresses
    MaxQueues,  \* bound on the queues created
    Polls,      \* putParamset asks 50 times whether the queue is gone
    Prompt      \* the 100 ms of a sleep outlast the runnable steps

ASSUME ManagerAssumption ==
    /\ MaxQueues \in Nat /\ Polls \in Nat /\ Prompt \in BOOLEAN
    /\ Addresses # {}

Callers == {"rpc", "listener"}
Creators == Callers \union {"reset"}
Threads == Creators \union {"worker", "central"}
Queues == 1..MaxQueues
NoQueue == 0
NoThread == "none"

Deliveries == {"due", "done", "refused", "lost", "parked"}
Labels == {"Idle", "Done", "EnqueueLock", "Get", "Create", "WorkerLock", "JoinWorker", "Insert", "Return",
           "Push", "GetAck", "Pop", "Poll", "PollEnd", "Sleep", "Fetch", "JoinReset", "Reset", "Unreach",
           "Disposed", "DestroyWorker", "DestroyJoin", "DestroyReset", "Gone", "Crashed"}

\* What a thread is called for: addLink and removeLink ("link"), reset and pairing
\* ("create") create a queue themselves, the others leave it to
\* enqueuePendingQueues; putParamset ("configure") and the links wait for its end.
KindsOfCall == {"enqueue", "configure", "link", "create"}

VARIABLES
    queues,        \* _queues: the id of the queue registered for an address
    nextID,        \* _id
    stop,          \* _stopWorkerThread
    disposing,     \* _disposing
    empty,         \* isEmpty() of a queue
    age,           \* since its lastAction: 0 up to 2 s, 1 up to 20 s, 2 longer
    disposed,      \* dispose() of the queue has been called
    ref,           \* the queue a thread holds a counted pointer to
    job,           \* the queue the worker has fetched, the id given to resetQueue, the
                   \* queue createQueue has registered and not yet returned
    addr,          \* the address a thread works on
    call,          \* what a thread is called for
    enqueueOwner,  \* holds _enqueuePendingQueuesMutex
    workerOwner,   \* holds _workerThreadMutex
    polls,         \* how often the RPC thread has asked for the queue
    configPending, \* service message CONFIG_PENDING of the peer
    delivery,      \* of the configuration: due, done, refused with a NACK, lost
                   \* with its queue, or parked with a peer that sleeps
    known,         \* the peer is in the central's maps
    listens,       \* receive modes: always or wakeOnRadio; other devices sleep
    raced,         \* history: a reset found the map empty while createQueue was in its gap
    overtaken,     \* history: a reset took the queue before createQueue returned it
    pc

data == <<queues, nextID, empty, age, disposed>>
flags == <<stop, disposing, raced, overtaken>>
config == <<polls, configPending, delivery, known, listens>>
locals == <<ref, job, addr, call>>
mutexes == <<enqueueOwner, workerOwner>>
vars == <<data, flags, config, locals, mutexes, pc>>

Goto(t, l) == pc' = [pc EXCEPT ![t] = l]
Running(t) == pc[t] \notin {"Idle", "Done"}
End(t) == IF t = "reset" THEN "Done" ELSE "Idle"
\* The queue is left to itself; some calls wait for it to be gone.
After(kind, t) == IF kind \in {"configure", "link"} THEN "Poll" ELSE End(t)
For(t, kind) == call' = [call EXCEPT ![t] = kind]
Finish(t) == Goto(t, After(call[t], t)) /\ For(t, "enqueue")
NoQueues == \A a \in Addresses : queues[a] = NoQueue
Holders(q) == {t \in Threads : ref[t] = q}

\* pthread_join reports EDEADLK when the thread to be joined is joining the
\* caller.
MutualJoin == pc["worker"] = "JoinReset" /\ pc["reset"] = "JoinWorker"

Blocked(t) ==
    \/ pc[t] = "EnqueueLock" /\ enqueueOwner # NoThread
    \/ pc[t] \in {"WorkerLock", "DestroyWorker"} /\ workerOwner # NoThread
    \/ pc[t] \in {"JoinWorker", "DestroyJoin"} /\ Running("worker") /\ ~(t = "reset" /\ MutualJoin)
    \/ pc[t] \in {"JoinReset", "DestroyReset"} /\ Running("reset") /\ ~(t = "worker" /\ MutualJoin)
\* A null pointer has been used: the process is dead.
Crashed == \E t \in Callers : pc[t] = "Crashed"
At(t, l) == pc[t] = l /\ ~Blocked(t) /\ ~Crashed

\* Sleeps end only when no thread has anything left to do, if threads are prompt.
Waiting == {"Idle", "Done", "Sleep", "Poll", "Disposed", "Gone"}
TimePasses == Prompt => \A t \in Threads : pc[t] \in Waiting \/ Blocked(t)

Init ==
    /\ queues = [a \in Addresses |-> NoQueue] /\ nextID = 1
    /\ stop = TRUE /\ disposing = FALSE /\ raced = FALSE
    /\ empty = [q \in Queues |-> TRUE] /\ age = [q \in Queues |-> 0]
    /\ disposed = [q \in Queues |-> FALSE] /\ overtaken = [q \in Queues |-> FALSE]
    /\ ref = [t \in Threads |-> NoQueue] /\ job = [t \in Threads |-> NoQueue]
    /\ addr \in [Threads -> Addresses] /\ \A s, t \in Threads : addr[s] = addr[t]
    /\ call = [t \in Threads |-> "enqueue"]
    /\ enqueueOwner = NoThread /\ workerOwner = NoThread
    /\ polls = 0
    /\ configPending = [a \in Addresses |-> FALSE]
    /\ delivery = [a \in Addresses |-> "done"]
    /\ known = [a \in Addresses |-> TRUE] /\ listens \in [Addresses -> BOOLEAN]
    /\ pc = [t \in Threads |-> "Idle"]

-----------------------------------------------------------------------------
(* Callers                                                                 *)

\* Calls under way may each create one more queue.
CreatePath == {"EnqueueLock", "Get", "Create", "WorkerLock", "JoinWorker", "Insert"}
InPath(t) == IF pc[t] \in CreatePath THEN 1 ELSE 0
Budget == nextID + InPath("rpc") + InPath("listener") + InPath("reset") <= MaxQueues
\* A disposed central has detached itself from RPC server and radio.
Serving == pc["central"] = "Idle"
Begin(t, l, a) == /\ At(t, "Idle") /\ Serving
                  /\ addr' = [addr EXCEPT ![t] = a] /\ Goto(t, l)

\* setValue, or a device that has woken up: enqueuePendingQueues.
CallEnqueue(t, a) ==
    /\ Begin(t, "EnqueueLock", a) /\ t \in Callers /\ Budget /\ known[a]
    /\ For(t, "enqueue")
    /\ UNCHANGED <<data, flags, config, ref, job, mutexes>>

\* putParamset leaves its packets to enqueuePendingQueues.
CallConfigure(a) ==
    /\ Begin("rpc", "EnqueueLock", a) /\ Budget /\ known[a]
    /\ For("rpc", "configure")
    /\ configPending' = [configPending EXCEPT ![a] = TRUE]
    /\ delivery' = [delivery EXCEPT ![a] = "due"]
    /\ UNCHANGED <<data, flags, polls, known, listens, ref, job, mutexes>>

\* addLink, removeLink and reset create a queue themselves, if the device
\* listens; a sleeping device's packets stay with the peer.
CallCreate(a, kind) ==
    /\ Begin("rpc", IF listens[a] THEN "Create" ELSE After(kind, "rpc"), a)
    /\ kind \in {"link", "create"} /\ Budget /\ known[a]
    /\ For("rpc", IF listens[a] THEN kind ELSE "enqueue")
    /\ configPending' = [configPending EXCEPT ![a] = TRUE]
    /\ delivery' = [delivery EXCEPT ![a] = IF listens[a] THEN "due" ELSE "parked"]
    /\ UNCHANGED <<data, flags, polls, known, listens, ref, job, mutexes>>

\* A pairing packet in install mode; the peer need not be known.
CallPair(a) ==
    /\ Begin("listener", "Create", a) /\ Budget
    /\ For("listener", "create")
    /\ UNCHANGED <<data, flags, config, ref, job, mutexes>>

\* An acknowledgement: handleAck gets the queue and pops.
CallAck(a) ==
    /\ Begin("listener", "GetAck", a) /\ queues[a] # NoQueue
    /\ UNCHANGED <<data, flags, config, ref, job, call, mutexes>>

\* Another thread deletes the peer; its queue stays.
Forget(a) ==
    /\ known[a] /\ Serving /\ ~Crashed
    /\ known' = [known EXCEPT ![a] = FALSE]
    /\ UNCHANGED <<data, flags, polls, configPending, delivery, listens, locals, mutexes, pc>>

EnqueueLock(t) ==
    /\ At(t, "EnqueueLock")
    /\ IF known[addr[t]] THEN enqueueOwner' = t /\ Goto(t, "Get") /\ UNCHANGED call
                         ELSE Finish(t) /\ UNCHANGED enqueueOwner
    /\ UNCHANGED <<data, flags, config, ref, job, addr, workerOwner>>

\* get: a pointer to the registered queue, kept alive.
Found(t) == IF disposing THEN NoQueue ELSE queues[addr[t]]
KeepAlive(q) == age' = [q2 \in Queues |-> IF q2 = q THEN 0 ELSE age[q2]]
Take(t) == /\ ref' = [ref EXCEPT ![t] = Found(t)]
           /\ KeepAlive(Found(t))

Get(t) ==
    /\ At(t, "Get")
    /\ Take(t)
    /\ Goto(t, IF Found(t) # NoQueue THEN "Push" ELSE "Create")
    /\ UNCHANGED <<queues, nextID, empty, disposed, flags, config, job, addr, call, mutexes>>

GetAck ==
    /\ At("listener", "GetAck")
    /\ Take("listener")
    /\ Goto("listener", IF Found("listener") # NoQueue THEN "Pop" ELSE "Idle")
    /\ UNCHANGED <<queues, nextID, empty, disposed, flags, config, job, addr, call, mutexes>>

Unlock(t) == enqueueOwner' = IF enqueueOwner = t THEN NoThread ELSE enqueueOwner
DropRef(t) == ref' = [ref EXCEPT ![t] = NoQueue]

\* The queue is given the peer's pending queues.
Push(t) ==
    /\ At(t, "Push")
    /\ empty' = [empty EXCEPT ![ref[t]] = FALSE]
    /\ DropRef(t) /\ Unlock(t)
    /\ Finish(t)
    /\ UNCHANGED <<queues, nextID, age, disposed, flags, config, job, addr, workerOwner>>

\* pop: the next packet of the queue is sent, or the last one is answered and
\* everything delivered.  A NACK pops as well, and empties a queue for pairing.
Pop ==
    /\ At("listener", "Pop")
    /\ \E last, nack \in BOOLEAN :
         /\ empty' = [empty EXCEPT ![ref["listener"]] = @ \/ last]
         /\ delivery' = [delivery EXCEPT ![addr["listener"]] =
                            IF empty[ref["listener"]] THEN @ ELSE IF nack THEN "refused"
                            ELSE IF last /\ @ # "refused" THEN "done" ELSE @]
    /\ DropRef("listener")
    /\ Goto("listener", "Idle")
    /\ UNCHANGED <<queues, nextID, age, disposed, flags, polls, configPending, known, listens, job, addr, call, mutexes>>

\* putParamset, addLink and removeLink: while(get(address) && waitIndex < 50) sleep 100 ms.
PollWhile(goOn) ==
    /\ At("rpc", "Poll") /\ TimePasses
    /\ KeepAlive(Found("rpc"))
    /\ IF Found("rpc") # NoQueue /\ goOn
         THEN polls' = polls + 1 /\ UNCHANGED pc
         ELSE Goto("rpc", "PollEnd") /\ UNCHANGED polls
    /\ UNCHANGED <<queues, nextID, empty, disposed, flags, configPending, delivery, known, listens, locals, mutexes>>
PollOnceMore == PollWhile(polls <= Polls)
Poll == PollWhile(polls < Polls)

\* Then: if(!get(address)) setConfigPending(false).
PollEnd ==
    /\ At("rpc", "PollEnd")
    /\ KeepAlive(Found("rpc"))
    /\ configPending' = [configPending EXCEPT ![addr["rpc"]] = @ /\ Found("rpc") # NoQueue]
    /\ Goto("rpc", "Idle") /\ polls' = 0
    /\ UNCHANGED <<queues, nextID, empty, disposed, flags, delivery, known, listens, locals, mutexes>>

-----------------------------------------------------------------------------
(* createQueue                                                             *)

\* With the worker stopped the old queue of the address is not erased.  Only
\* enqueuePendingQueues tests the pointer for null before it uses it.
Refused(t) ==
    /\ IF call[t] \in {"enqueue", "configure"} THEN Finish(t) ELSE Goto(t, "Crashed") /\ UNCHANGED call
    /\ Unlock(t)

Create(t) ==
    /\ At(t, "Create")
    /\ IF disposing
         THEN Refused(t) /\ UNCHANGED queues
         ELSE /\ Goto(t, IF stop THEN "WorkerLock" ELSE "Insert")
              /\ queues' = IF stop THEN queues ELSE [queues EXCEPT ![addr[t]] = NoQueue]
              /\ UNCHANGED <<call, enqueueOwner>>
    /\ UNCHANGED <<nextID, empty, age, disposed, flags, config, ref, job, addr, workerOwner>>

WorkerLock(t) ==
    /\ At(t, "WorkerLock")
    /\ \/ stop /\ disposing /\ Refused(t) /\ UNCHANGED workerOwner
       \/ stop /\ ~disposing /\ Goto(t, "JoinWorker") /\ workerOwner' = t /\ UNCHANGED <<call, enqueueOwner>>
       \/ ~stop /\ Goto(t, "Insert") /\ UNCHANGED <<call, mutexes>>
    /\ UNCHANGED <<data, flags, config, ref, job, addr>>

\* The exception of a mutual join is caught; the worker is then not restarted.
JoinWorkerOnly(t) ==
    /\ At(t, "JoinWorker")
    /\ pc' = [pc EXCEPT ![t] = "Insert", !["worker"] = "Sleep"]
    /\ workerOwner' = NoThread
    /\ UNCHANGED <<data, flags, config, locals, enqueueOwner>>
JoinWorker(t) ==
    /\ At(t, "JoinWorker")
    /\ IF t = "reset" /\ MutualJoin
         THEN Goto(t, "Insert") /\ UNCHANGED stop
         ELSE pc' = [pc EXCEPT ![t] = "Insert", !["worker"] = "Sleep"] /\ stop' = FALSE
    /\ workerOwner' = NoThread
    /\ UNCHANGED <<data, disposing, raced, overtaken, config, locals, enqueueOwner>>

\* insert does not replace a queue that is already registered.  Until createQueue
\* has returned a copy of the pointer nobody but the manager counts as its user.
Insert(t) ==
    /\ At(t, "Insert")
    /\ nextID' = nextID + 1
    /\ empty' = [empty EXCEPT ![nextID] = TRUE] /\ age' = [age EXCEPT ![nextID] = 0]
    /\ queues' = IF queues[addr[t]] # NoQueue THEN queues ELSE [queues EXCEPT ![addr[t]] = nextID]
    /\ job' = [job EXCEPT ![t] = nextID]
    /\ Goto(t, "Return")
    /\ UNCHANGED <<disposed, flags, config, ref, addr, call, mutexes>>

Return(t) ==
    /\ At(t, "Return")
    /\ ref' = [ref EXCEPT ![t] = job[t]] /\ job' = [job EXCEPT ![t] = NoQueue]
    /\ Goto(t, "Push")
    /\ UNCHANGED <<data, flags, config, addr, call, mutexes>>

-----------------------------------------------------------------------------
(* worker, on _workerThread                                                *)

Wake ==
    /\ At("worker", "Sleep") /\ TimePasses
    /\ Goto("worker", IF stop THEN "Done" ELSE "Fetch")
    /\ UNCHANGED <<data, flags, config, locals, mutexes>>

\* The next queue in the map's order, whichever that is.
FetchUnless(finished) ==
    /\ At("worker", "Fetch")
    /\ \/ NoQueues /\ Goto("worker", IF stop THEN "Done" ELSE "Sleep") /\ UNCHANGED <<job, addr>>
       \/ \E a \in Addresses :
            /\ queues[a] # NoQueue
            /\ job' = [job EXCEPT !["worker"] = queues[a]] /\ addr' = [addr EXCEPT !["worker"] = a]
            /\ Goto("worker", IF finished THEN "Done" ELSE "JoinReset")
    /\ UNCHANGED <<data, flags, config, ref, call, mutexes>>
FetchAlways == FetchUnless(FALSE)
Fetch == FetchUnless(disposing)

JoinReset ==
    /\ At("worker", "JoinReset")
    /\ LET again == IF stop THEN "Done" ELSE "Sleep"
       IN  IF MutualJoin
             THEN Goto("worker", again) /\ UNCHANGED <<job, addr>>
             ELSE /\ pc' = [pc EXCEPT !["worker"] = again, !["reset"] = "Reset"]
                  /\ addr' = [addr EXCEPT !["reset"] = addr["worker"]]
                  /\ job' = [job EXCEPT !["reset"] = job["worker"]]
    /\ UNCHANGED <<data, flags, config, ref, call, mutexes>>

-----------------------------------------------------------------------------
(* resetQueue, on _resetQueueThread                                        *)

\* Whatever queue is registered for the address: it is busy.
BusyIfEmpty(a) == queues[a] # NoQueue /\ empty[queues[a]] /\ age[queues[a]] = 0
Busy(a) == queues[a] # NoQueue /\ ~empty[queues[a]] /\ age[queues[a]] = 0
\* The queue the worker saw is still registered and not in use.
DueAnyway(a, q) == queues[a] = q
Due(a, q) == queues[a] = q /\ (Holders(q) = {} \/ age[q] = 2)

ResetEarly ==
    /\ At("reset", "Reset")
    /\ disposing \/ (~NoQueues /\ (Busy(addr["reset"]) \/ ~Due(addr["reset"], job["reset"])))
    /\ Goto("reset", "Done")
    /\ UNCHANGED <<data, flags, config, locals, mutexes>>

\* The map is empty: the worker is not needed any more.
ResetNothing ==
    /\ At("reset", "Reset") /\ ~disposing /\ NoQueues
    /\ stop' = TRUE
    /\ raced' = (raced \/ \E t \in Creators : pc[t] = "Insert")
    /\ Goto("reset", "Done")
    /\ UNCHANGED <<data, disposing, overtaken, config, locals, mutexes>>

\* A manager without queues needs no worker.
StopIfEmpty(registered) == stop' = (stop \/ \A a \in Addresses : registered[a] = NoQueue)

\* createQueue has registered the queue and is about to return it.
Returning(q) == \E t \in Creators : pc[t] = "Return" /\ job[t] = q

\* Nobody answered if the queue is not empty: the peer is set unreachable,
\* unless the queue was one for pairing or the peer sleeps.
ResetQueue ==
    /\ At("reset", "Reset") /\ ~disposing
    /\ LET a == addr["reset"]
           q == job["reset"]
       IN  /\ Due(a, q) /\ ~Busy(a)
           /\ queues' = [queues EXCEPT ![a] = NoQueue]
           /\ disposed' = [disposed EXCEPT ![q] = TRUE]
           /\ overtaken' = [overtaken EXCEPT ![q] = Returning(q)]
           /\ delivery' = [delivery EXCEPT ![a] = IF @ = "due" /\ Returning(q) THEN "lost" ELSE @]
           /\ \/ Goto("reset", "Done")
              \/ ~empty[q] /\ listens[a] /\ Goto("reset", "Unreach")
    /\ StopIfEmpty(queues')
    /\ raced' = (raced \/ (stop' /\ \E t \in Creators : pc[t] = "Insert"))
    /\ UNCHANGED <<nextID, empty, age, disposing, polls, configPending, known, listens, locals, mutexes>>

\* setUnreach(true, true) of the base library queues again a few times before
\* it reports the peer unreachable.
Unreach ==
    /\ At("reset", "Unreach")
    /\ \/ Goto("reset", "Done")
       \/ Budget /\ Serving /\ Goto("reset", "EnqueueLock")
    /\ UNCHANGED <<data, flags, config, locals, mutexes>>

-----------------------------------------------------------------------------
(* dispose and ~QueueManager, called by the central                        *)

Dispose ==
    /\ At("central", "Idle")
    /\ disposing' = TRUE /\ stop' = TRUE
    /\ Goto("central", "Disposed")
    /\ UNCHANGED <<data, raced, overtaken, config, locals, mutexes>>

\* The calls into the central have returned before it is destroyed.
Destroy ==
    /\ At("central", "Disposed") /\ \A t \in Callers : ~Running(t)
    /\ Goto("central", "DestroyWorker")
    /\ UNCHANGED <<data, flags, config, locals, mutexes>>

\* The worker is joined under its mutex.
DestroyWorker ==
    /\ At("central", "DestroyWorker")
    /\ workerOwner' = "central"
    /\ Goto("central", "DestroyJoin")
    /\ UNCHANGED <<data, flags, config, locals, enqueueOwner>>
JoinAndGoto(l) ==
    /\ At("central", "DestroyJoin")
    /\ workerOwner' = NoThread
    /\ Goto("central", l)
    /\ UNCHANGED <<data, flags, config, locals, enqueueOwner>>
DestroyJoinOnly == JoinAndGoto("Gone")
DestroyJoin == JoinAndGoto("DestroyReset")

\* Nobody else is left to lock the mutex of the reset thread.
DestroyReset ==
    /\ At("central", "DestroyReset")
    /\ Goto("central", "Gone")
    /\ UNCHANGED <<data, flags, config, locals, mutexes>>

\* Two seconds, or twenty, without a sign of life; the RPC thread that polls
\* for the queue comes by much more often.
Age(q) ==
    /\ age[q] < 2 /\ TimePasses /\ ~Crashed
    /\ Holders(q) # {} \/ \E a \in Addresses : queues[a] = q
    /\ Prompt => ~(pc["rpc"] = "Poll" /\ queues[addr["rpc"]] = q)
    /\ age' = [age EXCEPT ![q] = @ + 1]
    /\ UNCHANGED <<queues, nextID, empty, disposed, flags, config, locals, mutexes, pc>>

-----------------------------------------------------------------------------
Enqueuing(t) == EnqueueLock(t) \/ Get(t) \/ Create(t) \/ WorkerLock(t) \/ JoinWorker(t)
                \/ Insert(t) \/ Return(t) \/ Push(t)
Rpc == Enqueuing("rpc") \/ Poll \/ PollEnd
Listener == Enqueuing("listener") \/ GetAck \/ Pop
Calls == \E a \in Addresses : \/ CallAck(a) \/ CallPair(a) \/ CallConfigure(a) \/ Forget(a)
                             \/ CallCreate(a, "link") \/ CallCreate(a, "create")
                             \/ \E t \in Callers : CallEnqueue(t, a)
Worker == Wake \/ Fetch \/ JoinReset
Reset == ResetEarly \/ ResetNothing \/ ResetQueue \/ Unreach \/ Enqueuing("reset")
Destructor == Destroy \/ DestroyWorker \/ DestroyJoin \/ DestroyReset

Stopped == Crashed \/ pc["central"] = "Gone"

Next == Calls \/ Rpc \/ Listener \/ Worker \/ Reset \/ Dispose \/ Destructor
        \/ (\E q \in Queues : Age(q))
        \/ (Stopped /\ UNCHANGED vars)

Spec == Init /\ [][Next]_vars

\* Threads that can go on do, and the central is destroyed once disposed.
FairSpec == /\ Spec
            /\ WF_vars(Rpc) /\ WF_vars(Listener)
            /\ WF_vars(Worker) /\ WF_vars(Reset)
            /\ WF_vars(Destructor)

-----------------------------------------------------------------------------
TypeOK ==
    /\ queues \in [Addresses -> Queues \union {NoQueue}] /\ nextID \in 1..(MaxQueues + 1)
    /\ stop \in BOOLEAN /\ disposing \in BOOLEAN /\ raced \in BOOLEAN
    /\ empty \in [Queues -> BOOLEAN] /\ age \in [Queues -> 0..2] /\ disposed \in [Queues -> BOOLEAN]
    /\ ref \in [Threads -> Queues \union {NoQueue}]
    /\ job \in [Threads -> Queues \union {NoQueue}]
    /\ addr \in [Threads -> Addresses] /\ call \in [Threads -> KindsOfCall]
    /\ enqueueOwner \in Creators \union {NoThread} /\ workerOwner \in Creators \union {"central", NoThread}
    /\ polls \in 0..Polls
    /\ configPending \in [Addresses -> BOOLEAN]
    /\ delivery \in [Addresses -> Deliveries]
    /\ known \in [Addresses -> BOOLEAN] /\ listens \in [Addresses -> BOOLEAN]
    /\ overtaken \in [Queues -> BOOLEAN]
    /\ pc \in [Threads -> Labels]

\* A queue a thread has got or created is not disposed under its hands, unless
\* the thread holds it for twenty seconds or a reset took the queue, still empty
\* and without a counted user, before createQueue had returned it.
HeldUsable == \A t \in Threads :
    ref[t] # NoQueue /\ age[ref[t]] < 2 /\ ~overtaken[ref[t]] => ~disposed[ref[t]]

\* A registered queue has a worker that will come by, unless a reset stopped
\* the worker while createQueue was between its two locks.
Quiet == \A t \in Threads : ~Running(t) \/ pc[t] \in {"Sleep", "Poll"}
Watched == Quiet /\ ~NoQueues /\ ~raced => Running("worker") /\ ~stop

\* CONFIG_PENDING is cleared only when the device has its configuration or has
\* refused it with a NACK, or at shutdown, or when the peer is deleted, or by a
\* link call to a device that sleeps (its packets are parked), or while another
\* createQueue for the device is between its locks, or after the race Watched
\* speaks of, or after a reset took a queue of the device before createQueue had
\* returned it.
Replaced(a) == \E t \in Creators : pc[t] = "Insert" /\ addr[t] = a
ConfigDelivered ==
    [][\A a \in Addresses : configPending[a] /\ ~configPending'[a] =>
           delivery[a] # "due" \/ ~known[a] \/ disposing \/ raced \/ Replaced(a)]_vars

\* After ~QueueManager neither thread runs: the reset thread is joined after
\* the worker, which could start it again.
NothingRunsAfter == pc["central"] = "Gone" => ~Running("worker") /\ ~Running("reset")

\* The worker and a reset thread never join each other.
NoMutualJoin == ~MutualJoin

\* ~QueueManager returns, unless a call met the disposed manager and crashed.
DestroyReturns == pc["central"] = "Disposed" ~> Stopped
=============================================================================
