----------------------------- MODULE PacketQueue -----------------------------
(***************************************************************************)
(* The send queue of one peer (class PacketQueue) with all its threads:    *)
(* the caller that hands in pending queues (an RPC setValue that went      *)
(* through MAXCentral::enqueuePendingQueues), the listener that pops on an *)
(* acknowledgement, the four worker threads the queue owns and the         *)
(* QueueManager's reset thread that disposes it.  Every lock, every join   *)
(* and every read of shared state outside a lock is a step of its own; a   *)
(* stretch of code that runs under a mutex, touches nothing other threads  *)
(* may touch without that mutex and does not block is one step.            *)
(*                                                                         *)
(* A pending queue always holds one packet and the acknowledgement message *)
(* it waits for (MAXPeer pushes exactly these two), so a pending queue is  *)
(* its id and the parameter it sets.                                       *)
(***************************************************************************)
EXTENDS Naturals, Sequences

CONSTANTS
    ParamOf,   \* the parameter set by the 1st, 2nd, ... call of setValue
    Retries,   \* PacketQueue::retries
    MaxAcks,   \* bound on the acknowledgements the device sends
    Prompt,    \* sleeps and air time outlast the runnable steps of the threads
    Timely     \* an acknowledgement arrives before the packet is resent

ASSUME QueueAssumption ==
    /\ ParamOf \in Seq(STRING)
    /\ Retries \in Nat \ {0, 1}
    /\ MaxAcks \in Nat
    /\ Prompt \in BOOLEAN /\ Timely \in BOOLEAN

Callers == {"listener", "rpc", "reset"}
Workers == {"send", "resend", "startResend", "pushPending"}
Threads == Callers \union Workers
Labels ==
    {"Idle", "Done", "Crashed", "SetValuePush", "Enqueue", "Push", "Scan", "Deref", "Front",
     "Check", "Add", "AddAndSend", "AddMessage", "SetWorking", "SendLock", "SendJoin",
     "FrontRead", "ResendLock", "ResendJoin", "Send", "Transmit", "Sleep", "ReadFront", "Count",
     "RestartLock", "RestartJoin", "CheckAccess", "CheckMessage", "HandleAck", "Pop",
     "PopFront", "NextEntry", "NextReset", "NextPushLock", "NextPushJoin", "DisposeLock",
     "DisposeJoin", "Clear", "Disposed"}
Mutexes == {"queue", "resend", "send", "startResend", "pushPending"}
NoThread == "none"

Ids == 1..Len(ParamOf)       \* PendingQueues::_currentID, one id per push
Entry == [type : {"PACKET", "MESSAGE"}, id : Ids]
Packet(i) == [type |-> "PACKET", id |-> i]
Message(i) == [type |-> "MESSAGE", id |-> i]

VARIABLES
    queue,          \* _queue
    pending,        \* MAXPeer::pendingQueues; ids are given in list order, the
                    \* front is the smallest
    currentID,      \* PendingQueues::_currentID
    attached,       \* _pendingQueues points to the peer's pending queues
    working,        \* _workingOnPendingQueue
    pendingQueueID, \* pendingQueueID
    resendCounter,  \* _resendCounter
    stop,           \* _stopResendThread
    disposing,      \* _disposing
    owner,          \* the thread that holds each mutex
    pc,             \* where each thread is
    secondPop,      \* the listener is in handleAck's pop, not in checkAccess's
    held,           \* the pending queue (or packet of it) a thread works on
    air,            \* acknowledgements on their way to the listener
    acks,           \* acknowledgements the device has sent
    delivered,      \* ids whose packet the device has received
    tries,          \* transmissions of an id since its packet was last started
    overlooked      \* history: pushPendingQueue found the list empty it was to start

shared == <<queue, pending, currentID, attached, working, pendingQueueID>>
control == <<resendCounter, stop, disposing>>
radio == <<air, acks, delivered, tries, overlooked>>
vars == <<shared, control, owner, pc, held, secondPop, radio>>

-----------------------------------------------------------------------------
(* Threads, mutexes, joins                                                 *)

\* "Idle" is a caller between two calls or a worker that is not joinable,
\* "Done" a worker that has returned and can be joined.
Running(t) == pc[t] \notin {"Idle", "Done"}
End(t) == IF t \in Workers THEN "Done" ELSE "Idle"
Goto(t, l) == pc' = [pc EXCEPT ![t] = l]

\* dispose joins the workers in this order, each under its own mutex.
DisposeOrder == <<"startResend", "pushPending", "send", "resend">>

\* The mutex a thread acquires, and the thread it joins, at a label.
MutexAt(t, l) ==
    CASE l \in {"PopFront", "NextEntry", "FrontRead", "Push", "Scan", "Add", "AddAndSend",
                "AddMessage", "ReadFront", "Clear"}  -> "queue"
      [] l \in {"Pop", "ResendLock"}                 -> "resend"
      [] l = "SendLock"                              -> "send"
      [] l = "RestartLock"                           -> "startResend"
      [] l = "NextPushLock"                          -> "pushPending"
      [] l = "DisposeLock"                           -> DisposeOrder[held[t]]
      [] OTHER                                       -> NoThread
JoinAt(t, l) ==
    CASE l = "SendJoin"     -> "send"
      [] l = "ResendJoin"   -> "resend"
      [] l = "RestartJoin"  -> "startResend"
      [] l = "NextPushJoin" -> "pushPending"
      [] l = "DisposeJoin"  -> DisposeOrder[held[t]]
      [] OTHER              -> NoThread

\* The thread t has to wait for: the owner of the mutex it wants or the
\* running thread it joins.
WaitsFor(t) ==
    LET m == MutexAt(t, pc[t])
        j == JoinAt(t, pc[t])
    IN  IF m # NoThread THEN owner[m]
        ELSE IF j # NoThread /\ Running(j) THEN j
        ELSE NoThread

Timed == {"Sleep", "Transmit"}
Ready(t) == /\ Running(t) /\ WaitsFor(t) = NoThread
            /\ pc[t] \in Timed => pc[t] = "Sleep" /\ stop    \* it polls the flag

\* Time passes (a sleep ends, a packet is on air, an answer comes in) only
\* when no thread has anything left to do, if the threads are prompt.
TimePasses == Prompt => \A t \in Threads : ~Ready(t)

Crashed == \E t \in Threads : pc[t] = "Crashed"
At(t, l) == pc[t] = l /\ WaitsFor(t) = NoThread /\ ~Crashed
Acquire(m, t) == owner' = [owner EXCEPT ![m] = t]
Release(m) == owner' = [owner EXCEPT ![m] = NoThread]
\* Start worker w at label l while t goes on at label k.
Start(w, l, t, k) == pc' = [pc EXCEPT ![w] = l, ![t] = k]

IsBack(i) == i \in pending /\ \A j \in pending : i >= j
IsFront(i) == i \in pending /\ \A j \in pending : i <= j
PendingEmpty == ~attached \/ pending = {}    \* pendingQueuesEmpty()
IsEmpty == queue = <<>> /\ PendingEmpty        \* isEmpty()

-----------------------------------------------------------------------------
Init ==
    /\ queue = <<>> /\ pending = {} /\ currentID = 1
    /\ attached = FALSE /\ working = FALSE /\ pendingQueueID = 0
    /\ resendCounter = 0 /\ stop = FALSE /\ disposing = FALSE
    /\ owner = [m \in Mutexes |-> NoThread]
    /\ pc = [t \in Threads |-> "Idle"]
    /\ held = [t \in Threads |-> 0] /\ secondPop = FALSE
    /\ air = 0 /\ acks = 0 /\ delivered = {}
    /\ tries = [i \in Ids |-> 0] /\ overlooked = FALSE

-----------------------------------------------------------------------------
(* MAXPeer::setValue and MAXCentral::enqueuePendingQueues                  *)

\* pendingQueues->remove(valueKey, channel): the queues that set the same
\* parameter are superseded.
SetValueRemove ==
    /\ At("rpc", "Idle") /\ currentID \in Ids
    /\ pending' = {i \in pending : ParamOf[i] # ParamOf[currentID]}
    /\ Goto("rpc", "SetValuePush")
    /\ UNCHANGED <<queue, currentID, attached, working, pendingQueueID, control, owner,
                   held, secondPop, radio>>

SetValuePush ==
    /\ At("rpc", "SetValuePush")
    /\ pending' = pending \union {currentID}
    /\ currentID' = currentID + 1
    /\ Goto("rpc", IF At("reset", "Idle") THEN "Enqueue" ELSE "Idle")
    /\ UNCHANGED <<queue, attached, working, pendingQueueID, control, owner, held,
                   secondPop, radio>>

\* enqueuePendingQueues: the queue is given the pending queues only when it
\* has none.  pendingQueuesEmpty() takes no lock of the queue.
Enqueue ==
    /\ At("rpc", "Enqueue")
    /\ Goto("rpc", IF PendingEmpty THEN "Push" ELSE "Idle")
    /\ UNCHANGED <<shared, control, owner, held, secondPop, radio>>

\* push(std::shared_ptr<PendingQueues>&)
PushPendingQueues ==
    /\ At("rpc", "Push")
    /\ attached' = TRUE
    /\ Goto("rpc", IF queue = <<>> THEN "Scan" ELSE "Idle")
    /\ UNCHANGED <<queue, pending, currentID, working, pendingQueueID, control, owner,
                   held, secondPop, radio>>

-----------------------------------------------------------------------------
(* pushPendingQueue, by the RPC thread and by _pushPendingQueueThread       *)

Pushers == {"rpc", "pushPending"}

\* The pending queues have a mutex of their own: they may change between two
\* calls although _queueMutex is held from here to Front.
Scan(t) ==
    /\ At(t, "Scan")
    /\ IF disposing \/ PendingEmpty
         THEN Goto(t, End(t)) /\ UNCHANGED owner
         ELSE Goto(t, "Deref") /\ Acquire("queue", t)
    /\ overlooked' = (overlooked \/ (~disposing /\ PendingEmpty))
    /\ UNCHANGED <<shared, control, held, secondPop, air, acks, delivered, tries>>

\* The loop that drops empty queues calls front() twice and dereferences the
\* second answer.  A change seen by one of the other checks of emptiness up to
\* Front only makes the function return, as if Scan had come later.
Deref(t) ==
    /\ At(t, "Deref")
    /\ Goto(t, IF pending = {} THEN "Crashed" ELSE "Front")
    /\ UNCHANGED <<shared, control, owner, held, secondPop, radio>>

\* front() once more, then unlock; 0 is the null pointer.
Front(t) ==
    /\ At(t, "Front")
    /\ \/ pending = {} /\ held' = [held EXCEPT ![t] = 0]
       \/ \E i \in pending : IsFront(i) /\ held' = [held EXCEPT ![t] = i]
    /\ Release("queue")
    /\ Goto(t, "Check")
    /\ UNCHANGED <<shared, control, secondPop, radio>>

\* From here on the mutex is free.  A null pointer ends the function; otherwise
\* the packet is sent at once if nothing but a message is in front of it.
Check(t) ==
    /\ At(t, "Check")
    /\ IF held[t] = 0
         THEN Goto(t, End(t)) /\ UNCHANGED pendingQueueID
         ELSE /\ pendingQueueID' = held[t]
              /\ Goto(t, IF \/ queue = <<>>
                            \/ Len(queue) = 1 /\ Head(queue).type = "MESSAGE"
                         THEN "AddAndSend" ELSE "Add")
    /\ overlooked' = (overlooked \/ held[t] = 0)
    /\ UNCHANGED <<queue, pending, currentID, attached, working, control, owner, held,
                   secondPop, air, acks, delivered, tries>>

AddPacket(t) ==
    /\ At(t, "Add") \/ At(t, "AddAndSend")
    /\ queue' = Append(queue, Packet(held[t]))
    /\ IF pc[t] = "AddAndSend"
         THEN resendCounter' = 0 /\ Goto(t, "SendLock")
         ELSE UNCHANGED resendCounter /\ Goto(t, "AddMessage")
    /\ UNCHANGED <<pending, currentID, attached, working, pendingQueueID, stop, disposing,
                   owner, held, secondPop, radio>>

AddNoMessage(t) ==
    /\ At(t, "AddMessage")
    /\ Goto(t, "SetWorking")
    /\ UNCHANGED <<shared, control, owner, held, secondPop, radio>>
AddMessage(t) ==
    /\ At(t, "AddMessage")
    /\ queue' = Append(queue, Message(held[t]))
    /\ Goto(t, "SetWorking")
    /\ UNCHANGED <<pending, currentID, attached, working, pendingQueueID, control,
                   owner, held, secondPop, radio>>

SetWorking(t) ==
    /\ At(t, "SetWorking")
    /\ working' = TRUE
    /\ Goto(t, End(t))
    /\ UNCHANGED <<queue, pending, currentID, attached, pendingQueueID, control, owner,
                   held, secondPop, radio>>

-----------------------------------------------------------------------------
(* Starting the send thread: pushPendingQueue and nextQueueEntry            *)

Senders == {"listener", "rpc", "pushPending"}
AfterPop == IF secondPop THEN "Idle" ELSE "CheckMessage"
AfterStart(t) ==
    CASE t \in Pushers     -> "AddMessage"
      [] t = "listener"    -> AfterPop
      [] t = "startResend" -> "Done"

\* _sendThreadMutex.lock(); a disposed queue starts nothing any more.
SendLock(t) ==
    /\ At(t, "SendLock") /\ t \in Senders
    /\ IF disposing
         THEN Goto(t, IF t = "listener" THEN AfterPop ELSE End(t)) /\ UNCHANGED owner
         ELSE Goto(t, "SendJoin") /\ Acquire("send", t)
    /\ UNCHANGED <<shared, control, held, secondPop, radio>>

SendJoin(t) ==
    /\ At(t, "SendJoin") /\ t \in Senders
    /\ Start("send", "Send", t, "FrontRead")
    /\ held' = [held EXCEPT !["send"] = held[t]]
    /\ tries' = [tries EXCEPT ![held[t]] = 0]
    /\ Release("send")
    /\ UNCHANGED <<shared, control, secondPop, air, acks, delivered, overlooked>>

-----------------------------------------------------------------------------
(* startResendThread, by the senders and by _startResendThread              *)

\* Packets to a peer have a destination and force is never set: a resend
\* thread is started exactly when a packet is in front.
FrontRead(t) ==
    /\ At(t, "FrontRead")
    /\ Goto(t, IF ~disposing /\ queue # <<>> /\ Head(queue).type = "PACKET"
                 THEN "ResendLock" ELSE AfterStart(t))
    /\ UNCHANGED <<shared, control, owner, held, secondPop, radio>>

ResendLock(t) ==
    /\ At(t, "ResendLock")
    /\ stop' = TRUE
    /\ Acquire("resend", t)
    /\ Goto(t, "ResendJoin")
    /\ UNCHANGED <<shared, resendCounter, disposing, held, secondPop, radio>>

ResendJoin(t) ==
    /\ At(t, "ResendJoin")
    /\ stop' = FALSE
    /\ Start("resend", "Sleep", t, AfterStart(t))
    /\ Release("resend")
    /\ UNCHANGED <<shared, resendCounter, disposing, held, secondPop, radio>>

-----------------------------------------------------------------------------
(* send, on _sendThread                                                     *)

Send ==
    /\ At("send", "Send")
    /\ Goto("send", IF disposing THEN "Done" ELSE "Transmit")
    /\ UNCHANGED <<shared, control, owner, held, secondPop, radio>>

\* MAXCentral::sendPacket: the packet is lost, or the device receives it and
\* its acknowledgement is lost, or the acknowledgement is on its way.
Transmit ==
    /\ At("send", "Transmit") /\ TimePasses
    /\ tries' = [tries EXCEPT ![held["send"]] = @ + 1]
    /\ \/ UNCHANGED <<air, acks, delivered>>
       \/ delivered' = delivered \union {held["send"]} /\ UNCHANGED <<air, acks>>
       \/ /\ acks < MaxAcks
          /\ delivered' = delivered \union {held["send"]}
          /\ air' = air + 1 /\ acks' = acks + 1
    /\ Goto("send", "Done")
    /\ UNCHANGED <<shared, control, owner, held, secondPop, overlooked>>

-----------------------------------------------------------------------------
(* resend, on _resendThread                                                 *)

\* The sleep ends early when the stop flag is seen.
Wake ==
    /\ At("resend", "Sleep")
    /\ stop \/ (TimePasses /\ (Timely => air = 0 /\ pc["send"] # "Transmit"))
    /\ Goto("resend", IF stop THEN "Done" ELSE "ReadFront")
    /\ UNCHANGED <<shared, control, owner, held, secondPop, radio>>

\* A message in front has no packet: the function returns without unlocking.
ReadFront ==
    /\ At("resend", "ReadFront")
    /\ IF queue = <<>> \/ stop
         THEN Goto("resend", "Done") /\ UNCHANGED <<owner, held>>
         ELSE IF Head(queue).type = "MESSAGE"
         THEN Goto("resend", "Done") /\ Acquire("queue", "resend") /\ UNCHANGED held
         ELSE /\ held' = [held EXCEPT !["resend"] = Head(queue).id]
              /\ Goto("resend", "SendLock")
              /\ UNCHANGED owner
    /\ UNCHANGED <<shared, control, secondPop, radio>>

ResendSendLock ==
    /\ At("resend", "SendLock")
    /\ Acquire("send", "resend")
    /\ Goto("resend", "SendJoin")
    /\ UNCHANGED <<shared, control, held, secondPop, radio>>

ResendSendJoin ==
    /\ At("resend", "SendJoin")
    /\ IF stop \/ disposing
         THEN Goto("resend", "Done") /\ UNCHANGED held
         ELSE /\ Start("send", "Send", "resend", "Count")
              /\ held' = [held EXCEPT !["send"] = held["resend"]]
    /\ Release("send")
    /\ UNCHANGED <<shared, control, secondPop, radio>>

CountTo(limit, step) ==
    /\ At("resend", "Count")
    /\ IF stop
         THEN Goto("resend", "Done") /\ UNCHANGED resendCounter
         ELSE IF resendCounter < limit
         THEN resendCounter' = resendCounter + step /\ Goto("resend", "RestartLock")
         ELSE resendCounter' = 0 /\ Goto("resend", "Done")
    /\ UNCHANGED <<shared, stop, disposing, owner, held, secondPop, radio>>

CountOneMore == CountTo(Retries - 1, 1)
CountNothing == CountTo(Retries - 2, 0)
Count == CountTo(Retries - 2, 1)

RestartUnchecked ==
    /\ At("resend", "RestartLock")
    /\ Goto("resend", "RestartJoin") /\ Acquire("startResend", "resend")
    /\ UNCHANGED <<shared, control, held, secondPop, radio>>
RestartLock ==
    /\ At("resend", "RestartLock")
    /\ IF disposing
         THEN Goto("resend", "Done") /\ UNCHANGED owner
         ELSE Goto("resend", "RestartJoin") /\ Acquire("startResend", "resend")
    /\ UNCHANGED <<shared, control, held, secondPop, radio>>

RestartJoin ==
    /\ At("resend", "RestartJoin")
    /\ Start("startResend", "FrontRead", "resend", "Done")
    /\ Release("startResend")
    /\ UNCHANGED <<shared, control, held, secondPop, radio>>

-----------------------------------------------------------------------------
(* The listener: MAXMessage::checkAccess, MAXCentral::handleAck             *)

\* QueueManager::get finds the queue unless it is being reset.
ReceiveAck ==
    /\ At("listener", "Idle") /\ air > 0 /\ TimePasses
    /\ air' = air - 1
    /\ Goto("listener", IF At("reset", "Idle") THEN "CheckAccess" ELSE "Idle")
    /\ UNCHANGED <<shared, control, owner, held, secondPop, acks, delivered, tries, overlooked>>

\* front() of a queue that has only pending queues is undefined behaviour: the
\* type read is not PACKET, or the process dies.
CheckAccess ==
    /\ At("listener", "CheckAccess")
    /\ \/ Goto("listener", IF queue # <<>> /\ Head(queue).type = "PACKET"
                             THEN "Pop" ELSE "HandleAck")
       \/ queue = <<>> /\ ~IsEmpty /\ Goto("listener", "Crashed")
    /\ secondPop' = FALSE
    /\ UNCHANGED <<shared, control, owner, held, radio>>

\* The next message is the acknowledgement the packet waits for: access granted.
\* (A message of another type would put the packet back and be denied; only
\* acknowledgements are sent, queued and heard here, Pairing has the other types.)
CheckMessage ==
    /\ At("listener", "CheckMessage")
    /\ \/ Goto("listener", "HandleAck")
       \/ queue = <<>> /\ ~IsEmpty /\ Goto("listener", "Crashed")
    /\ UNCHANGED <<shared, control, owner, held, secondPop, radio>>

\* handleAck gets the queue again; it may have been reset meanwhile.
HandleAck ==
    /\ At("listener", "HandleAck")
    /\ Goto("listener", IF At("reset", "Idle") THEN "Pop" ELSE "Idle")
    /\ secondPop' = TRUE
    /\ UNCHANGED <<shared, control, owner, held, radio>>

\* pop: the resend thread is told to stop, if there is one.
Pop ==
    /\ At("listener", "Pop")
    /\ stop' = (stop \/ pc["resend"] # "Idle")
    /\ Goto("listener", "PopFront")
    /\ UNCHANGED <<shared, resendCounter, disposing, owner, held, secondPop, radio>>

PopFront ==
    /\ At("listener", "PopFront")
    /\ IF queue = <<>>
         THEN Goto("listener", AfterPop) /\ UNCHANGED queue
         ELSE queue' = Tail(queue) /\ Goto("listener", "NextEntry")
    /\ UNCHANGED <<pending, currentID, attached, working, pendingQueueID, control, owner,
                   held, secondPop, radio>>

\* pop(id): the finished pending queue is dropped if it is still in front.
FinishedAny == working /\ attached /\ pending # {}
Finished == working /\ attached /\ IsFront(pendingQueueID)

\* nextQueueEntry, first part, under the mutex.  The packet of the finished
\* pending queue leaves the pending queues here.
NextEntry ==
    /\ At("listener", "NextEntry")
    /\ LET rest == IF Finished THEN {i \in pending : ~IsFront(i)} ELSE pending
           more == attached /\ rest # {}
       IN  \/ /\ disposing
              /\ Goto("listener", AfterPop)
              /\ UNCHANGED <<pending, resendCounter, stop, owner, held>>
           \/ /\ ~disposing /\ queue = <<>> /\ more
              /\ pending' = rest
              /\ Goto("listener", "NextPushLock")
              /\ UNCHANGED <<resendCounter, stop, owner, held>>
           \/ /\ ~disposing /\ queue = <<>> /\ ~more
              /\ pending' = rest
              /\ stop' = TRUE
              /\ Acquire("queue", "listener")
              /\ Goto("listener", "NextReset")
              /\ UNCHANGED <<resendCounter, held>>
           \/ /\ ~disposing /\ queue # <<>> /\ Head(queue).type = "PACKET"
              /\ resendCounter' = 0
              /\ held' = [held EXCEPT !["listener"] = Head(queue).id]
              /\ Goto("listener", "SendLock")
              /\ UNCHANGED <<pending, stop, owner>>
           \/ /\ ~disposing /\ queue # <<>> /\ Head(queue).type = "MESSAGE"
              /\ Goto("listener", AfterPop)
              /\ UNCHANGED <<pending, resendCounter, stop, owner, held>>
    /\ UNCHANGED <<queue, currentID, attached, working, pendingQueueID, disposing,
                   secondPop, radio>>

\* "Queue is empty and there are no pending queues."
NextResetLocked ==
    /\ At("listener", "NextReset")
    /\ attached' = FALSE /\ working' = FALSE
    /\ Goto("listener", AfterPop)
    /\ UNCHANGED <<queue, pending, currentID, pendingQueueID, control, owner, held,
                   secondPop, radio>>
NextReset ==
    /\ At("listener", "NextReset")
    /\ attached' = FALSE /\ working' = FALSE
    /\ Release("queue")
    /\ Goto("listener", AfterPop)
    /\ UNCHANGED <<queue, pending, currentID, pendingQueueID, control, held, secondPop,
                   radio>>

NextPushNever ==
    /\ At("listener", "NextPushLock")
    /\ Goto("listener", AfterPop)
    /\ UNCHANGED <<shared, control, owner, held, secondPop, radio>>
NextPushLock ==
    /\ At("listener", "NextPushLock")
    /\ IF disposing
         THEN Goto("listener", AfterPop) /\ UNCHANGED owner
         ELSE Goto("listener", "NextPushJoin") /\ Acquire("pushPending", "listener")
    /\ UNCHANGED <<shared, control, held, secondPop, radio>>

NextPushJoin ==
    /\ At("listener", "NextPushJoin")
    /\ Start("pushPending", "Scan", "listener", AfterPop)
    /\ Release("pushPending")
    /\ UNCHANGED <<shared, control, held, secondPop, radio>>

-----------------------------------------------------------------------------
(* dispose, called by QueueManager::resetQueue after it erased the queue    *)

\* resetQueue erases a queue nobody else refers to: at once when it is empty,
\* otherwise after two seconds without a sign of life.
Unreferenced == pc["rpc"] \in {"Idle", "SetValuePush"} /\ pc["listener"] \in {"Idle", "HandleAck"}
Silent == Prompt => pc["resend"] # "Sleep" /\ pc["send"] # "Transmit" /\ air = 0

StartDispose ==
    /\ At("reset", "Idle") /\ Unreferenced /\ TimePasses
    /\ IsEmpty \/ Silent
    /\ disposing' = TRUE
    /\ held' = [held EXCEPT !["reset"] = 1]
    /\ Goto("reset", "DisposeLock")
    /\ UNCHANGED <<shared, resendCounter, stop, owner, secondPop, radio>>

DisposeLock ==
    /\ At("reset", "DisposeLock")
    /\ Acquire(DisposeOrder[held["reset"]], "reset")
    /\ stop' = (stop \/ DisposeOrder[held["reset"]] = "resend")
    /\ Goto("reset", "DisposeJoin")
    /\ UNCHANGED <<shared, resendCounter, disposing, held, secondPop, radio>>

DisposeJoin ==
    /\ At("reset", "DisposeJoin")
    /\ LET w == DisposeOrder[held["reset"]]
       IN  /\ pc' = [pc EXCEPT ![w] = "Idle",
                              !["reset"] = IF held["reset"] = 4 THEN "Clear" ELSE "DisposeLock"]
           /\ Release(w)
           /\ stop' = (stop /\ w # "resend")
    /\ held' = [held EXCEPT !["reset"] = @ + 1]
    /\ UNCHANGED <<shared, resendCounter, disposing, secondPop, radio>>

Clear ==
    /\ At("reset", "Clear")
    /\ queue' = <<>> /\ attached' = FALSE
    /\ Goto("reset", "Disposed")
    /\ UNCHANGED <<pending, currentID, working, pendingQueueID, control, owner, held,
                   secondPop, radio>>

-----------------------------------------------------------------------------
PushStep(t) == Scan(t) \/ Deref(t) \/ Front(t) \/ Check(t) \/ AddPacket(t)
               \/ AddMessage(t) \/ SetWorking(t)
StartStep(t) == SendLock(t) \/ SendJoin(t) \/ FrontRead(t) \/ ResendLock(t) \/ ResendJoin(t)

Rpc == SetValueRemove \/ SetValuePush \/ Enqueue \/ PushPendingQueues
       \/ PushStep("rpc") \/ StartStep("rpc")
Listener == ReceiveAck \/ CheckAccess \/ CheckMessage \/ HandleAck \/ Pop \/ PopFront
            \/ NextEntry \/ NextReset \/ NextPushLock \/ NextPushJoin \/ StartStep("listener")
PushPending == PushStep("pushPending") \/ StartStep("pushPending")
StartResend == FrontRead("startResend") \/ ResendLock("startResend") \/ ResendJoin("startResend")
SendThread == Send \/ Transmit
Resend == Wake \/ ReadFront \/ ResendSendLock \/ ResendSendJoin \/ Count
          \/ RestartLock \/ RestartJoin
Reset == StartDispose \/ DisposeLock \/ DisposeJoin \/ Clear

\* Disposed for good, or crashed: nothing of this queue goes on.
Stopped == \/ Crashed
           \/ pc["reset"] = "Disposed" /\ \A t \in Threads \ {"reset"} : ~Running(t)

Next == Rpc \/ Listener \/ PushPending \/ StartResend \/ SendThread \/ Resend \/ Reset
        \/ (Stopped /\ UNCHANGED vars)

Spec == Init /\ [][Next]_vars

\* Every thread that can go on does; the worker of QueueManager comes by every
\* 100 ms and disposes a queue that is due.
FairSpec ==
    /\ Spec
    /\ WF_vars(Rpc /\ pc["rpc"] # "Idle")
    /\ WF_vars(Listener)
    /\ WF_vars(PushPending)
    /\ WF_vars(StartResend)
    /\ WF_vars(SendThread)
    /\ WF_vars(Resend)
    /\ WF_vars(Reset)

-----------------------------------------------------------------------------
TypeOK ==
    /\ queue \in Seq(Entry) /\ pending \subseteq Ids /\ currentID \in 1..(Len(ParamOf) + 1)
    /\ attached \in BOOLEAN /\ working \in BOOLEAN /\ pendingQueueID \in 0..Len(ParamOf)
    /\ resendCounter \in 0..(Retries - 2) /\ stop \in BOOLEAN /\ disposing \in BOOLEAN
    /\ owner \in [Mutexes -> Threads \union {NoThread}]
    /\ pc \in [Threads -> Labels] /\ held \in [Threads -> Nat] /\ secondPop \in BOOLEAN
    /\ acks \in 0..MaxAcks /\ air \in 0..acks /\ delivered \subseteq Ids
    /\ tries \in [Ids -> Nat] /\ overlooked \in BOOLEAN

-----------------------------------------------------------------------------
(* Safety                                                                  *)

\* No thread returns with a mutex locked: every early return of PacketQueue
\* unlocks what it holds.
NoLeak == \A m \in Mutexes : owner[m] # NoThread => Running(owner[m])

\* front() is never called on an empty send queue, and the second front() of
\* pushPendingQueue is null only where a call of setValue has withdrawn the last
\* pending queue, not yet put its own, and that between the two looks of the
\* thread at the list: no other order of the threads ends the process.
NoCrash == Crashed => pc["pushPending"] = "Crashed" /\ pc["rpc"] = "SetValuePush"

\* When dispose returns, none of the queue's threads runs or will run again,
\* so the object may be destroyed.
DisposedQuiescent == pc["reset"] = "Disposed" => \A w \in Workers : pc[w] = "Idle"

\* A packet is transmitted at most "retries" times for one start.
AtMostRetries == \A i \in Ids : tries[i] <= Retries

\* Packets go on air in the order of the calls that queued them.
SentInOrder ==
    [][\A i \in Ids : tries'[i] > tries[i] =>
           \A j \in 1..(i - 1) : j \in pending => tries[j] > 0]_vars

\* QueueManager disposes a queue only when it has nothing to send, when its front
\* packet has been transmitted "retries" times without an answer, or when
\* pushPendingQueue came while a call had withdrawn the last pending queue: the
\* value put next is not started then.
GivenUpOnlyAfterRetries ==
    [][~disposing /\ disposing' =>
           IF queue = <<>> THEN PendingEmpty \/ overlooked
                           ELSE tries[Head(queue).id] = Retries]_vars

Abstract == INSTANCE Delivery WITH
                next <- currentID, waiting <- pending, received <- delivered

\* The queue with its seven threads, its locks and its retries implements
\* Delivery: first in, first out, a newer value of a parameter withdraws the
\* older one, and nothing leaves the peer that the device has not got.
Promise == Abstract!Spec

-----------------------------------------------------------------------------
(* Liveness                                                                *)

\* Every pending queue the packet queue knows of is worked off or superseded,
\* unless a packet up to it has been transmitted "retries" times in vain,
\* nextQueueEntry, having found none, is just resetting the list, or
\* pushPendingQueue met a call between its withdrawal and its push.
EventuallyServed ==
    \A i \in Ids : (i \in pending /\ attached /\ ~disposing) ~>
        \/ i \notin pending
        \/ \E j \in 1..i : tries[j] = Retries
        \/ pc["listener"] = "NextReset" \/ overlooked \/ Crashed

\* Neither the listener nor an RPC call hangs in the queue.
CallersReturn == \A t \in {"listener", "rpc"} : Running(t) ~> ~Running(t) \/ Crashed
=============================================================================
