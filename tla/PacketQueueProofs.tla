--------------------------- MODULE PacketQueueProofs ---------------------------
(* Proofs about PacketQueue for every number of calls, retries and           *)
(* acknowledgements, with prompt threads and timely answers or without.      *)
EXTENDS PacketQueue, TLAPS

-----------------------------------------------------------------------------
(* Type correctness                                                          *)

HoldLabels == {"Add", "AddAndSend", "AddMessage", "SendLock", "SendJoin", "Send", "Transmit"}
StartLabels == {"FrontRead", "ResendLock", "ResendJoin"}

\* A thread that is about to queue or to send a packet holds one.
HeldOK ==
    /\ \A t \in Threads : pc[t] \in HoldLabels => held[t] \in Ids
    /\ \A t \in Pushers : /\ pc[t] \in StartLabels => held[t] \in Ids
                          /\ held[t] \in Ids \union {0}
    /\ pc["rpc"] = "SetValuePush" => currentID \in Ids

TypeInv == TypeOK /\ HeldOK

LEMMA IdsNat == Ids \subseteq Nat /\ Len(ParamOf) \in Nat
  BY QueueAssumption DEF Ids

LEMMA QueueEntries ==
  ASSUME queue \in Seq(Entry)
  PROVE  /\ queue # <<>> => Head(queue).id \in Ids /\ Tail(queue) \in Seq(Entry)
         /\ \A i \in Ids : Append(queue, Packet(i)) \in Seq(Entry) /\ Append(queue, Message(i)) \in Seq(Entry)
         /\ <<>> \in Seq(Entry)
<1>1. queue # <<>> => Head(queue) \in Entry /\ Tail(queue) \in Seq(Entry)
  OBVIOUS
<1>2. \A i \in Ids : Packet(i) \in Entry /\ Message(i) \in Entry
  BY DEF Packet, Message, Entry
<1>3. \A e \in Entry : e.id \in Ids
  BY DEF Entry
<1> QED
  BY <1>1, <1>2, <1>3

LEMMA PcType ==
  ASSUME pc \in [Threads -> Labels], [Next]_vars
  PROVE  pc' \in [Threads -> Labels]
<1> USE DEF Goto, Start, End, AfterPop, AfterStart, Labels, Pushers, Senders
<1>1. CASE Rpc
  BY <1>1 DEF Rpc, PushStep, StartStep, SetValueRemove, SetValuePush, Enqueue,
        PushPendingQueues, Scan, Deref, Front, Check, AddPacket, AddMessage, SetWorking,
        SendLock, SendJoin, FrontRead, ResendLock, ResendJoin
<1>2. CASE Listener
  BY <1>2 DEF Listener, StartStep, ReceiveAck, CheckAccess, CheckMessage, HandleAck, Pop,
        PopFront, NextEntry, NextReset, NextPushLock, NextPushJoin, SendLock, SendJoin,
        FrontRead, ResendLock, ResendJoin
<1>3. CASE PushPending \/ StartResend
  BY <1>3 DEF PushPending, StartResend, PushStep, StartStep, Scan, Deref, Front, Check,
        AddPacket, AddMessage, SetWorking, SendLock, SendJoin, FrontRead, ResendLock,
        ResendJoin
<1>4. CASE SendThread \/ Resend
  BY <1>4 DEF SendThread, Resend, Send, Transmit, Wake, ReadFront, ResendSendLock,
        ResendSendJoin, Count, CountTo, RestartLock, RestartJoin
<1>5. CASE Reset
  BY <1>5 DEF Reset, StartDispose, DisposeLock, DisposeJoin, Clear
<1>6. CASE UNCHANGED vars
  BY <1>6 DEF vars
<1> QED
  BY <1>1, <1>2, <1>3, <1>4, <1>5, <1>6 DEF Next

LEMMA OwnerType ==
  ASSUME owner \in [Mutexes -> Threads \union {NoThread}], [Next]_vars
  PROVE  owner' \in [Mutexes -> Threads \union {NoThread}]
<1> USE DEF Acquire, Release, Pushers, Senders, Threads, Callers, Workers
<1>1. CASE Rpc
  BY <1>1 DEF Rpc, PushStep, StartStep, SetValueRemove, SetValuePush, Enqueue,
        PushPendingQueues, Scan, Deref, Front, Check, AddPacket, AddMessage, SetWorking,
        SendLock, SendJoin, FrontRead, ResendLock, ResendJoin
<1>2. CASE Listener
  BY <1>2 DEF Listener, StartStep, ReceiveAck, CheckAccess, CheckMessage, HandleAck, Pop,
        PopFront, NextEntry, NextReset, NextPushLock, NextPushJoin, SendLock, SendJoin,
        FrontRead, ResendLock, ResendJoin
<1>3. CASE PushPending \/ StartResend
  BY <1>3 DEF PushPending, StartResend, PushStep, StartStep, Scan, Deref, Front, Check,
        AddPacket, AddMessage, SetWorking, SendLock, SendJoin, FrontRead, ResendLock,
        ResendJoin
<1>4. CASE SendThread \/ Resend
  BY <1>4 DEF SendThread, Resend, Send, Transmit, Wake, ReadFront, ResendSendLock,
        ResendSendJoin, Count, CountTo, RestartLock, RestartJoin
<1>5. CASE Reset
  BY <1>5 DEF Reset, StartDispose, DisposeLock, DisposeJoin, Clear
<1>6. CASE UNCHANGED vars
  BY <1>6 DEF vars
<1> QED
  BY <1>1, <1>2, <1>3, <1>4, <1>5, <1>6 DEF Next

LEMMA PushHeld ==
  ASSUME held \in [Threads -> Nat], queue \in Seq(Entry), pending \subseteq Ids,
         NEW t \in Pushers, PushStep(t) \/ StartStep(t)
  PROVE  held' \in [Threads -> Nat]
<1> USE DEF Pushers, Threads, Callers, Workers
<1>1. CASE Front(t)
  BY <1>1, IdsNat DEF Front
<1>2. CASE SendJoin(t)
  BY <1>2 DEF SendJoin
<1>3. CASE Scan(t) \/ Deref(t) \/ Check(t) \/ AddPacket(t) \/ AddMessage(t) \/ SetWorking(t)
  BY <1>3 DEF Scan, Deref, Check, AddPacket, AddMessage, SetWorking
<1>4. CASE SendLock(t) \/ FrontRead(t) \/ ResendLock(t) \/ ResendJoin(t)
  BY <1>4 DEF SendLock, FrontRead, ResendLock, ResendJoin
<1> QED
  BY <1>1, <1>2, <1>3, <1>4 DEF PushStep, StartStep

LEMMA HeldType ==
  ASSUME held \in [Threads -> Nat], secondPop \in BOOLEAN, queue \in Seq(Entry),
         pending \subseteq Ids, [Next]_vars
  PROVE  held' \in [Threads -> Nat] /\ secondPop' \in BOOLEAN
<1> USE IdsNat, QueueEntries DEF Senders, Threads, Callers, Workers
<1>1. CASE Rpc \/ PushPending
  <2>1. held' \in [Threads -> Nat]
    <3>1. CASE PushStep("rpc") \/ StartStep("rpc") \/ PushPending
      BY <3>1, PushHeld DEF PushPending, Pushers
    <3>2. CASE SetValueRemove \/ SetValuePush \/ Enqueue \/ PushPendingQueues
      BY <3>2 DEF SetValueRemove, SetValuePush, Enqueue, PushPendingQueues
    <3> QED
      BY <1>1, <3>1, <3>2 DEF Rpc
  <2>2. secondPop' = secondPop
    BY <1>1 DEF Rpc, PushPending, PushStep, StartStep, SetValueRemove, SetValuePush,
          Enqueue, PushPendingQueues, Scan, Deref, Front, Check, AddPacket, AddMessage,
          SetWorking, SendLock, SendJoin, FrontRead, ResendLock, ResendJoin
  <2> QED
    BY <2>1, <2>2
<1>2. CASE Listener
  BY <1>2 DEF Listener, StartStep, ReceiveAck, CheckAccess, CheckMessage, HandleAck, Pop,
        PopFront, NextEntry, NextReset, NextPushLock, NextPushJoin, SendLock, SendJoin,
        FrontRead, ResendLock, ResendJoin
<1>3. CASE StartResend \/ SendThread
  BY <1>3 DEF StartResend, SendThread, FrontRead, ResendLock, ResendJoin, Send, Transmit
<1>4. CASE Resend
  BY <1>4 DEF Resend, Wake, ReadFront, ResendSendLock, ResendSendJoin, Count, CountTo,
        RestartLock, RestartJoin
<1>5. CASE Reset
  BY <1>5 DEF Reset, StartDispose, DisposeLock, DisposeJoin, Clear
<1>6. CASE UNCHANGED vars
  BY <1>6 DEF vars
<1> QED
  BY <1>1, <1>2, <1>3, <1>4, <1>5, <1>6 DEF Next

ListsOK ==
  /\ queue \in Seq(Entry) /\ pending \subseteq Ids /\ currentID \in 1..(Len(ParamOf) + 1)
  /\ attached \in BOOLEAN /\ working \in BOOLEAN /\ pendingQueueID \in 0..Len(ParamOf)

LEMMA PushLists ==
  ASSUME ListsOK, HeldOK, NEW t \in Pushers, PushStep(t) \/ StartStep(t)
  PROVE  ListsOK'
<1>a. t \in Threads
  BY DEF Pushers, Threads, Callers, Workers
<1> USE DEF ListsOK, shared
<1>1. CASE AddPacket(t)
  <2>1. held[t] \in Ids
    BY <1>1, <1>a DEF AddPacket, At, HeldOK, HoldLabels
  <2> QED
    BY <1>1, <2>1, QueueEntries DEF AddPacket
<1>2. CASE AddMessage(t)
  <2>1. held[t] \in Ids
    BY <1>2, <1>a DEF AddMessage, HeldOK, HoldLabels, At
  <2> QED
    BY <1>2, <2>1, QueueEntries DEF AddMessage
<1>3. CASE Check(t)
  <2>1. held[t] \in 0..Len(ParamOf)
    BY IdsNat DEF HeldOK, Ids
  <2> QED
    BY <1>3, <2>1 DEF Check
<1>4. CASE Scan(t) \/ Deref(t) \/ Front(t) \/ SetWorking(t)
  BY <1>4 DEF Scan, Deref, Front, SetWorking
<1>5. CASE StartStep(t)
  BY <1>5 DEF StartStep, SendLock, SendJoin, FrontRead, ResendLock, ResendJoin
<1> QED
  BY <1>1, <1>2, <1>3, <1>4, <1>5 DEF PushStep

LEMMA ListTypes ==
  ASSUME ListsOK, HeldOK, [Next]_vars
  PROVE  ListsOK'
<1> USE DEF ListsOK, shared
<1>1. CASE PushStep("rpc") \/ StartStep("rpc") \/ PushPending
  BY <1>1, PushLists DEF PushPending, Pushers
<1>2. CASE SetValueRemove
  BY <1>2 DEF SetValueRemove
<1>3. CASE SetValuePush
  <2>1. currentID \in Ids
    BY <1>3 DEF SetValuePush, HeldOK, At
  <2> QED
    BY <1>3, <2>1, IdsNat DEF SetValuePush, Ids
<1>4. CASE Enqueue \/ PushPendingQueues
  BY <1>4 DEF Enqueue, PushPendingQueues
<1>5. CASE Listener
  <2>1. CASE PopFront
    BY <2>1, QueueEntries DEF PopFront
  <2>2. CASE NextEntry
    BY <2>2 DEF NextEntry
  <2>3. CASE NextReset
    BY <2>3 DEF NextReset
  <2>4. CASE ReceiveAck \/ CheckAccess \/ CheckMessage \/ HandleAck \/ Pop \/ NextPushLock
             \/ NextPushJoin \/ StartStep("listener")
    BY <2>4 DEF ReceiveAck, CheckAccess, CheckMessage, HandleAck, Pop, NextPushLock,
          NextPushJoin, StartStep, SendLock, SendJoin, FrontRead, ResendLock, ResendJoin
  <2> QED
    BY <1>5, <2>1, <2>2, <2>3, <2>4 DEF Listener
<1>6. CASE StartResend \/ SendThread
  BY <1>6 DEF StartResend, SendThread, FrontRead, ResendLock, ResendJoin, Send, Transmit
<1>7. CASE Resend
  BY <1>7 DEF Resend, Wake, ReadFront, ResendSendLock, ResendSendJoin, Count, CountTo,
        RestartLock, RestartJoin
<1>8. CASE Reset
  BY <1>8, QueueEntries DEF Reset, StartDispose, DisposeLock, DisposeJoin, Clear
<1>9. CASE UNCHANGED vars
  BY <1>9 DEF vars
<1> QED
  BY <1>1, <1>2, <1>3, <1>4, <1>5, <1>6, <1>7, <1>8, <1>9 DEF Next, Rpc

ControlOK ==
  resendCounter \in 0..(Retries - 2) /\ stop \in BOOLEAN /\ disposing \in BOOLEAN

LEMMA ZeroCounts == 0 \in 0..(Retries - 2)
  BY QueueAssumption

LEMMA StartControl ==
  ASSUME ControlOK, NEW t \in Threads, PushStep(t) \/ StartStep(t)
  PROVE  ControlOK'
<1> USE DEF ControlOK, control
<1>1. CASE PushStep(t)
  BY <1>1, ZeroCounts DEF PushStep, Scan, Deref, Front, Check, AddPacket, AddMessage,
        SetWorking
<1>2. CASE StartStep(t)
  BY <1>2 DEF StartStep, SendLock, SendJoin, FrontRead, ResendLock, ResendJoin
<1> QED
  BY <1>1, <1>2

LEMMA ControlTypes ==
  ASSUME ControlOK, [Next]_vars
  PROVE  ControlOK'
<1> USE DEF ControlOK, control
<1>1. CASE Rpc \/ PushPending
  <2>1. CASE SetValueRemove \/ SetValuePush \/ Enqueue \/ PushPendingQueues
    BY <2>1 DEF SetValueRemove, SetValuePush, Enqueue, PushPendingQueues
  <2> QED
    BY <1>1, <2>1, StartControl DEF Rpc, PushPending, Threads, Callers, Workers
<1>2. CASE Listener
  <2>1. CASE NextEntry
    BY <2>1, ZeroCounts DEF NextEntry
  <2>2. CASE StartStep("listener")
    BY <2>2, StartControl DEF Threads, Callers
  <2>3. CASE ReceiveAck \/ CheckAccess \/ CheckMessage \/ HandleAck \/ Pop \/ PopFront
             \/ NextReset \/ NextPushLock \/ NextPushJoin
    BY <2>3 DEF ReceiveAck, CheckAccess, CheckMessage, HandleAck, Pop, PopFront, NextReset,
          NextPushLock, NextPushJoin
  <2> QED
    BY <1>2, <2>1, <2>2, <2>3 DEF Listener
<1>3. CASE StartResend \/ SendThread
  BY <1>3 DEF StartResend, SendThread, FrontRead, ResendLock, ResendJoin, Send, Transmit
<1>4. CASE Resend
  <2>1. CASE Count
    BY <2>1, ZeroCounts, QueueAssumption DEF Count, CountTo
  <2>2. CASE Wake \/ ReadFront \/ ResendSendLock \/ ResendSendJoin \/ RestartLock \/ RestartJoin
    BY <2>2 DEF Wake, ReadFront, ResendSendLock, ResendSendJoin, RestartLock, RestartJoin
  <2> QED
    BY <1>4, <2>1, <2>2 DEF Resend
<1>5. CASE Reset
  BY <1>5 DEF Reset, StartDispose, DisposeLock, DisposeJoin, Clear
<1>6. CASE UNCHANGED vars
  BY <1>6 DEF vars
<1> QED
  BY <1>1, <1>2, <1>3, <1>4, <1>5, <1>6 DEF Next

RadioOK ==
  /\ acks \in 0..MaxAcks /\ air \in 0..acks /\ delivered \subseteq Ids
  /\ tries \in [Ids -> Nat] /\ overlooked \in BOOLEAN

LEMMA StartRadio ==
  ASSUME RadioOK, NEW t \in Pushers \union {"listener", "startResend"},
         PushStep(t) \/ StartStep(t)
  PROVE  RadioOK'
<1> USE DEF RadioOK, radio
<1>1. CASE Scan(t)
  BY <1>1 DEF Scan
<1>2. CASE Check(t)
  BY <1>2 DEF Check
<1>3. CASE Deref(t) \/ Front(t) \/ AddPacket(t) \/ AddMessage(t) \/ SetWorking(t)
  BY <1>3 DEF Deref, Front, AddPacket, AddMessage, SetWorking
<1>4. CASE StartStep(t)
  BY <1>4 DEF StartStep, SendLock, SendJoin, FrontRead, ResendLock, ResendJoin
<1> QED
  BY <1>1, <1>2, <1>3, <1>4 DEF PushStep

LEMMA RadioTypes ==
  ASSUME RadioOK, pc["send"] = "Transmit" => held["send"] \in Ids, [Next]_vars
  PROVE  RadioOK'
<1>1. CASE PushStep("rpc") \/ StartStep("rpc") \/ PushPending \/ StartStep("listener")
           \/ StartResend
  BY <1>1, StartRadio DEF PushPending, StartResend, StartStep, Pushers
<1> USE DEF RadioOK, radio
<1>2. CASE SetValueRemove \/ SetValuePush \/ Enqueue \/ PushPendingQueues
  BY <1>2 DEF SetValueRemove, SetValuePush, Enqueue, PushPendingQueues
<1>3. CASE ReceiveAck
  BY <1>3, QueueAssumption DEF ReceiveAck
<1>4. CASE CheckAccess \/ CheckMessage \/ HandleAck \/ Pop \/ PopFront \/ NextEntry
           \/ NextReset \/ NextPushLock \/ NextPushJoin
  BY <1>4 DEF CheckAccess, CheckMessage, HandleAck, Pop, PopFront, NextEntry, NextReset,
        NextPushLock, NextPushJoin
<1>5. CASE SendThread
  BY <1>5, QueueAssumption DEF SendThread, Send, Transmit, At
<1>6. CASE Resend
  BY <1>6 DEF Resend, Wake, ReadFront, ResendSendLock, ResendSendJoin, Count, CountTo,
        RestartLock, RestartJoin
<1>7. CASE Reset
  BY <1>7 DEF Reset, StartDispose, DisposeLock, DisposeJoin, Clear
<1>8. CASE UNCHANGED vars
  BY <1>8 DEF vars
<1> QED
  BY <1>1, <1>2, <1>3, <1>4, <1>5, <1>6, <1>7, <1>8 DEF Next, Rpc, Listener

LEMMA HeldStep ==
  ASSUME pc \in [Threads -> Labels], held \in [Threads -> Nat], queue \in Seq(Entry), pending \subseteq Ids, HeldOK, [Next]_vars
  PROVE  HeldOK'
<1> USE QueueEntries DEF HeldOK, HoldLabels, StartLabels, At, Goto, Start, End, AfterPop, AfterStart,
            Threads, Callers, Workers, Pushers, Senders, IsFront, shared
<1>1. CASE Rpc
  BY <1>1 DEF Rpc, PushStep, StartStep, SetValueRemove, SetValuePush, Enqueue,
        PushPendingQueues, Scan, Deref, Front, Check, AddPacket, AddMessage, SetWorking,
        SendLock, SendJoin, FrontRead, ResendLock, ResendJoin
<1>2. CASE Listener
  <2>1. CASE StartStep("listener")
    BY <2>1 DEF StartStep, SendLock, SendJoin, FrontRead, ResendLock, ResendJoin
  <2>2. CASE NextEntry
    BY <2>2 DEF NextEntry
  <2>3. CASE ReceiveAck \/ CheckAccess \/ CheckMessage \/ HandleAck \/ Pop \/ PopFront
             \/ NextReset \/ NextPushLock \/ NextPushJoin
    BY <2>3 DEF ReceiveAck, CheckAccess, CheckMessage, HandleAck, Pop, PopFront, NextReset,
          NextPushLock, NextPushJoin
  <2> QED
    BY <1>2, <2>1, <2>2, <2>3 DEF Listener
<1>3. CASE PushPending \/ StartResend
  BY <1>3 DEF PushPending, StartResend, PushStep, StartStep, Scan, Deref, Front, Check,
        AddPacket, AddMessage, SetWorking, SendLock, SendJoin, FrontRead, ResendLock,
        ResendJoin
<1>4. CASE SendThread \/ Resend
  BY <1>4 DEF SendThread, Resend, Send, Transmit, Wake, ReadFront, ResendSendLock,
        ResendSendJoin, Count, CountTo, RestartLock, RestartJoin
<1>5. CASE Reset
  BY <1>5 DEF Reset, StartDispose, DisposeLock, DisposeJoin, Clear
<1>6. CASE UNCHANGED vars
  BY <1>6 DEF vars
<1> QED
  BY <1>1, <1>2, <1>3, <1>4, <1>5, <1>6 DEF Next

LEMMA InitTypes ==
  ASSUME Init
  PROVE  TypeInv
<1>1. HeldOK
  BY DEF Init, HeldOK, HoldLabels, StartLabels, Threads, Callers, Workers, Pushers
<1>2. ListsOK /\ ControlOK
  <2>1. <<>> \in Seq(Entry)
    OBVIOUS
  <2>2. 1 \in 1..(Len(ParamOf) + 1) /\ 0 \in 0..Len(ParamOf)
    BY IdsNat
  <2> QED
    BY <2>1, <2>2, ZeroCounts DEF Init, ListsOK, ControlOK
<1>3. /\ owner \in [Mutexes -> Threads \union {NoThread}] /\ pc \in [Threads -> Labels]
      /\ held \in [Threads -> Nat] /\ secondPop \in BOOLEAN
  BY DEF Init, Labels
<1>4. RadioOK
  <2>1. acks = 0 /\ air = 0 /\ delivered = {} /\ tries = [i \in Ids |-> 0] /\ overlooked = FALSE
    BY DEF Init
  <2>2. acks \in 0..MaxAcks /\ air \in 0..acks
    BY <2>1, QueueAssumption
  <2> QED
    BY <2>1, <2>2 DEF RadioOK
<1> QED
  BY <1>1, <1>2, <1>3, <1>4 DEF TypeInv, TypeOK, ListsOK, ControlOK, RadioOK

LEMMA TypeStep ==
  ASSUME TypeInv, [Next]_vars
  PROVE  TypeInv'
<1> USE DEF TypeInv, TypeOK
<1>1. HeldOK' /\ pc' \in [Threads -> Labels]
  BY HeldStep, PcType
<1>2. ListsOK' /\ ControlOK'
  BY ListTypes, ControlTypes DEF ListsOK, ControlOK
<1>3. /\ owner' \in [Mutexes -> Threads \union {NoThread}]
      /\ held' \in [Threads -> Nat] /\ secondPop' \in BOOLEAN
  BY OwnerType, HeldType
<1>4. RadioOK'
  BY RadioTypes DEF RadioOK, HeldOK, HoldLabels, Threads, Workers
<1> QED
  BY <1>1, <1>2, <1>3, <1>4 DEF ListsOK, ControlOK, RadioOK

LEMMA TypeInvariant == Spec => []TypeInv
  BY InitTypes, TypeStep, PTL DEF Spec

\* Every variable keeps its type: in particular the resend counter never
\* reaches the number of retries, so the comparison in resend() is decisive.
THEOREM TypeCorrect == Spec => []TypeOK
<1>1. TypeInv => TypeOK
  BY DEF TypeInv
<1> QED
  BY <1>1, TypeInvariant, PTL

-----------------------------------------------------------------------------
(* Disposal                                                                  *)

\* While the queue is disposed no caller is inside it, the workers joined so
\* far stay gone, and the resend thread, which is joined last, cannot restart
\* the first one: it would need the mutex dispose took to join it.
DisposeInv ==
  /\ pc["reset"] \in {"Idle", "DisposeLock", "DisposeJoin", "Clear", "Disposed"}
  /\ pc["reset"] # "Idle" =>
       /\ disposing
       /\ pc["listener"] \in {"Idle", "HandleAck"} /\ pc["rpc"] \in {"Idle", "SetValuePush"}
       /\ held["reset"] \in 1..5
       /\ held["reset"] = 5 <=> pc["reset"] \in {"Clear", "Disposed"}
       /\ held["reset"] > 1 => pc["startResend"] = "Idle" /\ pc["resend"] # "RestartJoin"
       /\ held["reset"] > 2 => pc["pushPending"] = "Idle"
       /\ held["reset"] > 3 => pc["send"] = "Idle"
       /\ held["reset"] > 4 => pc["resend"] = "Idle"
  /\ pc["resend"] = "RestartJoin" => owner["startResend"] = "resend"
  /\ pc["reset"] = "DisposeJoin" /\ held["reset"] = 1 => owner["startResend"] = "reset"

LEMMA RestartFree == At("resend", "RestartLock") => owner["startResend"] = NoThread
  BY DEF At, WaitsFor, MutexAt, NoThread

LEMMA DisposeFree ==
  ASSUME At("reset", "DisposeLock"), held["reset"] = 1
  PROVE  owner["startResend"] = NoThread
<1>1. MutexAt("reset", pc["reset"]) = "startResend"
  BY DEF At, MutexAt, DisposeOrder
<1> QED
  BY <1>1 DEF At, WaitsFor, NoThread

LEMMA InitDispose ==
  ASSUME Init
  PROVE  DisposeInv
  BY DEF Init, DisposeInv, Threads, Callers, Workers

LEMMA DisposeStep ==
  ASSUME TypeInv, DisposeInv, [Next]_vars
  PROVE  DisposeInv'
<1>a. /\ pc \in [Threads -> Labels] /\ held \in [Threads -> Nat]
      /\ owner \in [Mutexes -> Threads \union {NoThread}]
  BY DEF TypeInv, TypeOK
<1> USE <1>a DEF DisposeInv, Goto, Start, End, AfterPop, AfterStart, Acquire, Release, Pushers, Senders,
        Threads, Callers, Workers, Mutexes, control
<1>1. CASE SetValueRemove \/ SetValuePush \/ Enqueue \/ PushPendingQueues
  BY <1>1 DEF SetValueRemove, SetValuePush, Enqueue, PushPendingQueues, At
<1>2. ASSUME NEW t \in Pushers, PushStep(t) PROVE DisposeInv'
  <2>1. CASE Scan(t) \/ Deref(t)
    BY <1>2, <2>1 DEF Scan, Deref, At
  <2>2. CASE Front(t) \/ Check(t)
    BY <1>2, <2>2 DEF Front, Check, At
  <2>3. CASE AddPacket(t)
    BY <1>2, <2>3 DEF AddPacket, At
  <2>4. CASE AddMessage(t)
    BY <1>2, <2>4 DEF AddMessage, At
  <2>5. CASE SetWorking(t)
    BY <1>2, <2>5 DEF SetWorking, At
  <2> QED
    BY <1>2, <2>1, <2>2, <2>3, <2>4, <2>5 DEF PushStep
<1>3. ASSUME NEW t \in Senders, StartStep(t) PROVE DisposeInv'
  <2>1. CASE SendLock(t) \/ FrontRead(t)
    BY <1>3, <2>1 DEF SendLock, FrontRead, At
  <2>2. CASE SendJoin(t)
    BY <1>3, <2>2 DEF SendJoin, At
  <2>3. CASE ResendLock(t)
    BY <1>3, <2>3 DEF ResendLock, At
  <2>4. CASE ResendJoin(t)
    BY <1>3, <2>4 DEF ResendJoin, At
  <2> QED
    BY <1>3, <2>1, <2>2, <2>3, <2>4 DEF StartStep
<1>4. CASE StartResend
  BY <1>4 DEF StartResend, FrontRead, ResendLock, ResendJoin, At
<1>5. CASE ReceiveAck \/ CheckAccess \/ CheckMessage \/ HandleAck \/ Pop \/ PopFront
  <2>1. CASE ReceiveAck \/ CheckAccess \/ CheckMessage
    BY <2>1 DEF ReceiveAck, CheckAccess, CheckMessage, At
  <2>2. CASE HandleAck \/ Pop \/ PopFront
    BY <2>2 DEF HandleAck, Pop, PopFront, At
  <2> QED
    BY <1>5, <2>1, <2>2
<1>6. CASE NextEntry \/ NextReset \/ NextPushLock \/ NextPushJoin
  <2>1. CASE NextEntry \/ NextReset
    BY <2>1 DEF NextEntry, NextReset, At
  <2>2. CASE NextPushLock \/ NextPushJoin
    BY <2>2 DEF NextPushLock, NextPushJoin, At
  <2> QED
    BY <1>6, <2>1, <2>2
<1>7. CASE SendThread
  BY <1>7 DEF SendThread, Send, Transmit, At
<1>8. CASE Wake \/ ReadFront \/ ResendSendLock \/ ResendSendJoin \/ Count
  <2>1. CASE Wake \/ ReadFront
    BY <2>1 DEF Wake, ReadFront, At
  <2>2. CASE ResendSendLock \/ ResendSendJoin
    BY <2>2 DEF ResendSendLock, ResendSendJoin, At
  <2>3. CASE Count
    BY <2>3 DEF Count, CountTo, At
  <2> QED
    BY <1>8, <2>1, <2>2, <2>3
<1>9. CASE RestartLock \/ RestartJoin
  BY <1>9, RestartFree DEF RestartLock, RestartJoin, At, NoThread
<1>10. CASE StartDispose \/ Clear
  BY <1>10 DEF StartDispose, Clear, Unreferenced, At
<1>11. CASE DisposeLock
  BY <1>11, DisposeFree DEF DisposeLock, At, NoThread, DisposeOrder
<1>12. CASE DisposeJoin
  BY <1>12 DEF DisposeJoin, At, DisposeOrder
<1>13. CASE UNCHANGED vars
  BY <1>13 DEF vars
<1> QED
  BY <1>1, <1>2, <1>3, <1>4, <1>5, <1>6, <1>7, <1>8, <1>9, <1>10, <1>11, <1>12, <1>13
  DEF Next, Rpc, Listener, PushPending, Resend, Reset

\* When dispose has returned no worker of the queue runs or is ever started
\* again, whatever the interleaving: the queue may be destroyed.
THEOREM DisposeQuiesces == Spec => []DisposedQuiescent
<1>1. Init => DisposeInv
  BY InitDispose
<1>2. TypeInv /\ DisposeInv /\ [Next]_vars => DisposeInv'
  BY DisposeStep
<1>3. DisposeInv => DisposedQuiescent
  BY DEF DisposeInv, DisposedQuiescent, Workers
<1> QED
  BY <1>1, <1>2, <1>3, TypeInvariant, PTL DEF Spec

-----------------------------------------------------------------------------
(* What the queue is doing, when threads are prompt and answers timely       *)

\* A thread that has returned or was never started.
Rests(t) == pc[t] \in {"Idle", "Done"}
Busy == pc["send"] \in {"Send", "Transmit"}

\* No worker but a resend thread that has been told to stop.
Quiet == /\ Rests("send") /\ Rests("startResend")
         /\ Rests("resend") \/ (pc["resend"] = "Sleep" /\ stop)

Outside == pc["rpc"] \in {"Idle", "SetValuePush", "Enqueue", "Push"}
NoPusher == Outside /\ Rests("pushPending")
\* The pusher t is the only one.
Alone(t) == IF t = "rpc" THEN Rests("pushPending") ELSE Outside
Live == ~disposing /\ pc["reset"] = "Idle"

\* The order of calls: k is not behind any waiting call and not ahead of a
\* received one; all received ones are ahead of the waiting ones.
Turn(k) == /\ k \in Ids /\ k < currentID
           /\ \A j \in pending : k <= j
           /\ \A d \in delivered : d <= k
NewTurn(k) == Turn(k) /\ k \notin delivered
Ahead == \A d \in delivered : \A j \in pending : d < j

Front1 == <<Packet(pendingQueueID)>>
Front2 == <<Packet(pendingQueueID), Message(pendingQueueID)>>
Back1 == <<Message(pendingQueueID)>>

\* The queue is empty.
Free == Live /\ NoPusher /\ Quiet /\ queue = <<>> /\ air = 0
Waiting == Free /\ Ahead /\ pc["listener"] = "Idle" /\ (attached => overlooked)
Going == /\ Free /\ Ahead /\ attached /\ secondPop
         /\ pc["listener"] \in {"NextReset", "NextPushLock", "NextPushJoin"}
Popped == /\ Free /\ attached /\ secondPop /\ working /\ pc["listener"] = "NextEntry"
          /\ Turn(pendingQueueID) /\ pendingQueueID \in delivered

\* A pusher is at work.
Pushing(t) == /\ Live /\ Alone(t) /\ attached /\ pc["listener"] = "Idle"
              /\ Rests("startResend") /\ air = 0
Looking(t) == /\ Pushing(t) /\ Quiet /\ queue = <<>> /\ Ahead
              /\ pc[t] \in {"Scan", "Deref", "Front"}
              /\ pc[t] = "Deref" /\ pending = {} =>
                     t = "pushPending" /\ pc["rpc"] = "SetValuePush"
Found(t) == /\ Pushing(t) /\ Quiet /\ queue = <<>>
            /\ \/ pc[t] = "Check" /\ Ahead /\ (held[t] = 0 \/ NewTurn(held[t]))
               \/ pc[t] = "AddAndSend" /\ NewTurn(held[t]) /\ pendingQueueID = held[t]
Loaded(t) == /\ Pushing(t) /\ Quiet /\ queue = Front1 /\ resendCounter = 0
             /\ pendingQueueID = held[t] /\ NewTurn(pendingQueueID)
             /\ pc[t] \in {"SendLock", "SendJoin"}
Launched(t) == /\ Pushing(t) /\ resendCounter = 0 /\ Busy
               /\ pendingQueueID = held[t] /\ NewTurn(pendingQueueID)
               /\ held["send"] = pendingQueueID /\ tries[pendingQueueID] = 0
               /\ \/ /\ pc[t] \in {"FrontRead", "ResendLock", "ResendJoin"}
                     /\ queue = Front1
                     /\ Rests("resend") \/ (pc["resend"] = "Sleep" /\ stop)
                  \/ /\ pc[t] \in {"AddMessage", "SetWorking"}
                     /\ queue = (IF pc[t] = "AddMessage" THEN Front1 ELSE Front2)
                     /\ pc["resend"] = "Sleep" /\ ~stop

\* A packet is on air, or was and may be repeated.
Sending == /\ Live /\ NoPusher /\ attached /\ working /\ pc["listener"] = "Idle"
           /\ queue = Front2 /\ Turn(pendingQueueID)
           /\ Busy => held["send"] = pendingQueueID
           /\ Busy \/ Rests("send")
           /\ air \in {0, 1} /\ (air = 1 => Rests("send") /\ pendingQueueID \in delivered)
Sent(n) == tries[pendingQueueID] = (IF Busy THEN n ELSE n + 1)
Sleeping == /\ Sending /\ pc["resend"] = "Sleep" /\ Rests("startResend") /\ ~stop
            /\ Sent(resendCounter)
Repeating == /\ Sending /\ pc["resend"] \in {"ReadFront", "SendLock", "SendJoin"}
             /\ Rests("startResend") /\ ~stop /\ Rests("send") /\ air = 0
             /\ Sent(resendCounter)
             /\ pc["resend"] # "ReadFront" => held["resend"] = pendingQueueID
Counting == /\ Sending /\ pc["resend"] = "Count" /\ Rests("startResend") /\ ~stop /\ Busy
            /\ Sent(resendCounter + 1)
Restarting == /\ Sending /\ pc["resend"] \in {"RestartLock", "RestartJoin"}
              /\ Rests("startResend") /\ ~stop /\ Busy /\ Sent(resendCounter)
Rearming == /\ Sending /\ Rests("resend") /\ Busy /\ Sent(resendCounter)
            /\ pc["startResend"] \in {"FrontRead", "ResendLock", "ResendJoin"}
Last == /\ Sending /\ Rests("resend") /\ Rests("startResend") /\ Sent(Retries - 1)

\* The acknowledgement is being handled: the packet is popped, then the message.
Answered == /\ Live /\ NoPusher /\ attached /\ working /\ air = 0
            /\ Turn(pendingQueueID) /\ pendingQueueID \in delivered
            /\ Rests("send") /\ Rests("startResend")
            /\ Rests("resend") \/ pc["resend"] = "Sleep"
FirstPop == /\ Answered /\ queue = Front2
            /\ pc["listener"] \in {"CheckAccess", "Pop", "PopFront"}
            /\ pc["listener"] # "CheckAccess" => ~secondPop
            /\ pc["listener"] = "PopFront" => Quiet
SecondPop == /\ Answered /\ queue = Back1 /\ Quiet
             /\ \/ pc["listener"] \in {"NextEntry", "CheckMessage", "HandleAck"} /\ ~secondPop
                \/ pc["listener"] \in {"Pop", "PopFront"} /\ secondPop

\* The queue is disposed, or the process has died.
Gone == /\ disposing /\ pc["reset"] \in {"DisposeLock", "DisposeJoin", "Clear", "Disposed"}
        /\ pc["rpc"] \in {"Idle", "SetValuePush"} /\ pc["listener"] = "Idle" /\ air = 0
        /\ \A w \in Workers : Rests(w)
Dead == pc["pushPending"] = "Crashed" /\ pc["rpc"] = "SetValuePush"

Phase == \/ Waiting \/ Going \/ Popped
         \/ \E t \in Pushers : Looking(t) \/ Found(t) \/ Loaded(t) \/ Launched(t)
         \/ Sleeping \/ Repeating \/ Counting \/ Restarting \/ Rearming \/ Last
         \/ FirstPop \/ SecondPop \/ Gone \/ Dead

\* Where the owner of a mutex is.
HoldsAt(m, t) ==
    \/ m = "queue" /\ pc[t] \in {"Deref", "Front", "Crashed", "NextReset"}
    \/ m = "send" /\ pc[t] = "SendJoin"
    \/ m = "resend" /\ pc[t] = "ResendJoin"
    \/ m = "startResend" /\ pc[t] = "RestartJoin"
    \/ m = "pushPending" /\ pc[t] = "NextPushJoin"
    \/ t = "reset" /\ pc[t] = "DisposeJoin" /\ m = DisposeOrder[held[t]]
Owners == \A m \in Mutexes : owner[m] # NoThread => HoldsAt(m, owner[m])

\* A call that has put its value finds it in the list; one that hands in the
\* list does so because the queue has none.
Calls == /\ pc["rpc"] = "Enqueue" => \E i \in pending : i \notin delivered
         /\ pc["rpc"] = "Push" => ~attached
Known == \A i \in pending \union delivered : i < currentID
Tried == \A i \in Ids : tries[i] <= Retries

IInv == TypeInv /\ DisposeInv /\ Phase /\ Owners /\ Calls /\ Known /\ Tried

-----------------------------------------------------------------------------
(* Where the queue is, seen from a thread                                    *)

LEMMA Sets ==
  /\ Threads = {"listener", "rpc", "reset", "send", "resend", "startResend", "pushPending"}
  /\ Mutexes = {"queue", "resend", "send", "startResend", "pushPending"}
  /\ Workers = {"send", "resend", "startResend", "pushPending"}
  /\ \A t \in Threads : t # NoThread
  BY DEF Threads, Callers, Workers, Mutexes, NoThread

LEMMA PusherPhase ==
  ASSUME Phase, ~Crashed, NEW t \in Pushers,
         pc[t] \notin {"Idle", "Done", "SetValuePush", "Enqueue", "Push"}
  PROVE  Looking(t) \/ Found(t) \/ Loaded(t) \/ Launched(t)
<1>1. pc["pushPending"] # "Crashed"
  BY Sets DEF Crashed
<1>2. ~NoPusher /\ ~Gone /\ ~Dead
  BY <1>1, Sets DEF NoPusher, Outside, Rests, Gone, Dead, Pushers
<1>3. ASSUME NEW u \in Pushers, Pushing(u) PROVE u = t
  BY <1>3 DEF Pushing, Alone, Outside, Rests, Pushers
<1>4. ASSUME NEW u \in Pushers, Looking(u) \/ Found(u) \/ Loaded(u) \/ Launched(u)
      PROVE  u = t
  BY <1>3, <1>4 DEF Looking, Found, Loaded, Launched
<1>5. ~(Waiting \/ Going \/ Popped \/ FirstPop \/ SecondPop)
  BY <1>2 DEF Waiting, Going, Popped, Free, FirstPop, SecondPop, Answered
<1>6. ~(Sleeping \/ Repeating \/ Counting \/ Restarting \/ Rearming \/ Last)
  BY <1>2 DEF Sleeping, Repeating, Counting, Restarting, Rearming, Last, Sending
<1> QED
  BY <1>2, <1>4, <1>5, <1>6 DEF Phase

LEMMA PushingIdle ==
  ASSUME NEW t, Looking(t) \/ Found(t) \/ Loaded(t) \/ Launched(t)
  PROVE  Pushing(t) /\ pc["listener"] = "Idle" /\ pc["reset"] = "Idle" /\ Rests("startResend")
  BY DEF Looking, Found, Loaded, Launched, Pushing, Live

LEMMA SendingIdle ==
  ASSUME Sleeping \/ Repeating \/ Counting \/ Restarting \/ Rearming \/ Last
  PROVE  Sending /\ pc["listener"] = "Idle" /\ pc["reset"] = "Idle"
  BY DEF Sleeping, Repeating, Counting, Restarting, Rearming, Last, Sending, Live

LEMMA ListenerPhase ==
  ASSUME Phase, ~Crashed, pc["listener"] # "Idle"
  PROVE  Going \/ Popped \/ FirstPop \/ SecondPop
<1>1. ~Dead
  BY Sets DEF Crashed, Dead
<1> QED
  BY <1>1, PushingIdle, SendingIdle DEF Phase, Waiting, Gone

LEMMA ResetPhase ==
  ASSUME Phase, ~Crashed, pc["reset"] # "Idle"
  PROVE  Gone
<1>1. ~Dead
  BY Sets DEF Crashed, Dead
<1> QED
  BY <1>1, PushingIdle, SendingIdle
  DEF Phase, Waiting, Going, Popped, Free, FirstPop, SecondPop, Answered, Live

LEMMA StartResendPhase ==
  ASSUME Phase, ~Crashed, ~Rests("startResend")
  PROVE  Rearming
<1>1. ~Dead
  BY Sets DEF Crashed, Dead
<1>2. ~Gone
  BY Sets DEF Gone
<1> QED
  BY <1>1, <1>2, PushingIdle
  DEF Phase, Waiting, Going, Popped, Free, Quiet, FirstPop, SecondPop, Answered, Sleeping,
      Repeating, Counting, Restarting, Last

LEMMA ResendPhase ==
  ASSUME Phase, ~Crashed
  PROVE  /\ pc["resend"] \in {"ReadFront", "SendLock", "SendJoin"} => Repeating
         /\ pc["resend"] = "Count" => Counting
         /\ pc["resend"] \in {"RestartLock", "RestartJoin"} => Restarting
<1> SUFFICES ASSUME ~Rests("resend"), pc["resend"] # "Sleep"
             PROVE  Repeating \/ Counting \/ Restarting
  BY DEF Rests, Repeating, Counting, Restarting
<1>1. ~Dead
  BY Sets DEF Crashed, Dead
<1>2. ~Gone
  BY Sets DEF Gone
<1> QED
  BY <1>1, <1>2
  DEF Phase, Waiting, Going, Popped, Free, Quiet, FirstPop, SecondPop, Answered, Looking,
      Found, Loaded, Launched, Sleeping, Rearming, Last

LEMMA BusyPhase ==
  ASSUME Phase, ~Crashed, Busy
  PROVE  \/ \E t \in Pushers : Launched(t)
         \/ Sleeping \/ Counting \/ Restarting \/ Rearming \/ Last
<1>1. ~Dead
  BY Sets DEF Crashed, Dead
<1>2. ~Rests("send")
  BY DEF Busy, Rests
<1>3. ~Gone
  BY <1>2, Sets DEF Gone
<1> QED
  BY <1>1, <1>2, <1>3
  DEF Phase, Waiting, Going, Popped, Free, Quiet, FirstPop, SecondPop, Answered, Looking,
      Found, Loaded, Repeating

-----------------------------------------------------------------------------
(* Mutexes                                                                   *)

LEMMA FreeMutex ==
  ASSUME TypeInv, Owners, NEW m \in Mutexes, \A u \in Threads : ~HoldsAt(m, u)
  PROVE  owner[m] = NoThread
  BY DEF Owners, TypeInv, TypeOK

\* What keeps a mutex with its owner.
LEMMA OwnersKept ==
  ASSUME TypeInv, Owners, UNCHANGED owner, UNCHANGED held["reset"], NEW t \in Threads,
         \A u \in Threads \ {t} : pc'[u] = pc[u],
         \A m \in Mutexes : ~HoldsAt(m, t)
  PROVE  Owners'
<1>1. ASSUME NEW m \in Mutexes, owner'[m] # NoThread PROVE HoldsAt(m, owner[m])'
  <2> DEFINE u == owner[m]
  <2>1. u \in Threads /\ HoldsAt(m, u)
    BY <1>1 DEF Owners, TypeInv, TypeOK
  <2>2. u # t /\ pc'[u] = pc[u]
    BY <2>1
  <2>3. HoldsAt(m, u)'
    BY <2>1, <2>2 DEF HoldsAt
  <2> QED
    BY <2>3
<1> QED
  BY <1>1 DEF Owners

LEMMA OwnersTaken ==
  ASSUME TypeInv, Owners, UNCHANGED held["reset"], NEW t \in Threads, NEW n \in Mutexes,
         Acquire(n, t), \A u \in Threads \ {t} : pc'[u] = pc[u],
         \A m \in Mutexes : ~HoldsAt(m, t), HoldsAt(n, t)'
  PROVE  Owners'
<1>1. ASSUME NEW m \in Mutexes, owner'[m] # NoThread PROVE HoldsAt(m, owner[m])'
  <2>1. CASE m = n
    BY <2>1 DEF Acquire, TypeInv, TypeOK
  <2>2. CASE m # n
    <3> DEFINE u == owner[m]
    <3>1. owner'[m] = u /\ u \in Threads /\ HoldsAt(m, u)
      BY <1>1, <2>2 DEF Acquire, Owners, TypeInv, TypeOK
    <3>2. u # t /\ pc'[u] = pc[u]
      BY <3>1
    <3>3. HoldsAt(m, u)'
      BY <3>1, <3>2 DEF HoldsAt
    <3> QED
      BY <3>1, <3>3
  <2> QED
    BY <2>1, <2>2
<1> QED
  BY <1>1 DEF Owners

\* t gives back the only mutex it holds; a worker it starts holds none.
LEMMA OwnersGiven ==
  ASSUME TypeInv, Owners, NEW t \in Threads, NEW w \in Threads, NEW n \in Mutexes, Release(n),
         t # "reset" => UNCHANGED held["reset"],
         \A u \in Threads \ {t, w} : pc'[u] = pc[u],
         w # t => \A m \in Mutexes : ~HoldsAt(m, w),
         \A m \in Mutexes : HoldsAt(m, t) => m = n
  PROVE  Owners'
<1>1. ASSUME NEW m \in Mutexes, owner'[m] # NoThread PROVE HoldsAt(m, owner[m])'
  <2> DEFINE u == owner[m]
  <2>1. m # n /\ owner'[m] = u /\ u \in Threads /\ HoldsAt(m, u)
    BY <1>1 DEF Release, Owners, TypeInv, TypeOK
  <2>2. u # t /\ u # w /\ pc'[u] = pc[u]
    BY <2>1
  <2>3. HoldsAt(m, u)'
    BY <2>1, <2>2 DEF HoldsAt
  <2> QED
    BY <2>1, <2>3
<1> QED
  BY <1>1 DEF Owners

LEMMA OwnersPush ==
  ASSUME TypeInv, Owners, NEW t \in Pushers, PushStep(t)
  PROVE  Owners'
<1>1. pc \in [Threads -> Labels] /\ held \in [Threads -> Nat] /\ t \in Threads /\ t # "reset"
  BY DEF TypeInv, TypeOK, Pushers, Threads, Callers, Workers
<1>2. CASE Scan(t)
  <2>1. pc[t] = "Scan" /\ \A u \in Threads \ {t} : pc'[u] = pc[u]
    BY <1>1, <1>2 DEF Scan, At, Goto
  <2>2. CASE disposing \/ PendingEmpty
    BY <1>1, <1>2, <2>1, <2>2, OwnersKept DEF Scan, HoldsAt
  <2>3. CASE ~(disposing \/ PendingEmpty)
    <3>1. Acquire("queue", t) /\ pc'[t] = "Deref"
      BY <1>1, <1>2, <2>3 DEF Scan, Goto
    <3> QED
      BY <1>1, <1>2, <2>1, <3>1, OwnersTaken, Sets DEF Scan, HoldsAt
  <2> QED
    BY <2>2, <2>3
<1>3. CASE Deref(t)
  <2>1. ASSUME NEW m \in Mutexes, owner'[m] # NoThread PROVE HoldsAt(m, owner[m])'
    BY <1>1, <1>3, <2>1 DEF Deref, At, Goto, Owners, HoldsAt, TypeInv, TypeOK
  <2> QED
    BY <2>1 DEF Owners
<1>4. CASE Front(t)
  <2>1. \A m \in Mutexes : HoldsAt(m, t) => m = "queue"
    BY <1>1, <1>4 DEF Front, At, HoldsAt
  <2>2. \A u \in Threads \ {t} : pc'[u] = pc[u]
    BY <1>1, <1>4 DEF Front, Goto
  <2>3. Release("queue") /\ UNCHANGED held["reset"]
    BY <1>1, <1>4, Sets DEF Front
  <2> QED
    BY <1>1, <2>1, <2>2, <2>3, OwnersGiven, Sets
<1>5. CASE Check(t) \/ AddPacket(t) \/ AddMessage(t) \/ SetWorking(t)
  <2>1. /\ \A u \in Threads \ {t} : pc'[u] = pc[u]
        /\ UNCHANGED owner /\ UNCHANGED held
        /\ pc[t] \in {"Check", "Add", "AddAndSend", "AddMessage", "SetWorking"}
    BY <1>1, <1>5 DEF Check, AddPacket, AddMessage, SetWorking, At, Goto
  <2> QED
    BY <1>1, <2>1, OwnersKept DEF HoldsAt
<1> QED
  BY <1>2, <1>3, <1>4, <1>5 DEF PushStep

LEMMA OwnersStart ==
  ASSUME TypeInv, Owners, NEW t \in Senders \union {"startResend"},
         \/ t # "startResend" /\ (SendLock(t) \/ SendJoin(t))
         \/ FrontRead(t) \/ ResendLock(t) \/ ResendJoin(t)
  PROVE  Owners'
<1>1. pc \in [Threads -> Labels] /\ held \in [Threads -> Nat] /\ t \in Threads
      /\ t \notin {"reset", "send", "resend"}
  BY DEF TypeInv, TypeOK, Senders, Threads, Callers, Workers
<1>2. CASE (SendLock(t) /\ disposing) \/ FrontRead(t)
  <2>1. /\ \A u \in Threads \ {t} : pc'[u] = pc[u]
        /\ UNCHANGED owner /\ UNCHANGED held /\ pc[t] \in {"SendLock", "FrontRead"}
    BY <1>1, <1>2 DEF SendLock, FrontRead, At, Goto
  <2> QED
    BY <1>1, <2>1, OwnersKept DEF HoldsAt
<1>3. CASE SendLock(t) /\ ~disposing
  <2>1. /\ \A u \in Threads \ {t} : pc'[u] = pc[u]
        /\ Acquire("send", t) /\ UNCHANGED held /\ pc[t] = "SendLock" /\ pc'[t] = "SendJoin"
    BY <1>1, <1>3 DEF SendLock, At, Goto
  <2> QED
    BY <1>1, <2>1, OwnersTaken, Sets DEF HoldsAt
<1>4. CASE SendJoin(t)
  <2>1. /\ \A u \in Threads \ {t, "send"} : pc'[u] = pc[u]
        /\ Release("send") /\ UNCHANGED held["reset"] /\ pc[t] = "SendJoin"
        /\ ~Running("send")
    BY <1>1, <1>4, Sets DEF SendJoin, At, Start, WaitsFor, MutexAt, JoinAt, NoThread
  <2>2. \A m \in Mutexes : ~HoldsAt(m, "send")
    BY <2>1 DEF HoldsAt, Running
  <2>3. \A m \in Mutexes : HoldsAt(m, t) => m = "send"
    BY <1>1, <2>1 DEF HoldsAt
  <2> QED
    BY <1>1, <2>1, <2>2, <2>3, OwnersGiven, Sets
<1>5. CASE ResendLock(t)
  <2>1. /\ \A u \in Threads \ {t} : pc'[u] = pc[u]
        /\ Acquire("resend", t) /\ UNCHANGED held /\ pc[t] = "ResendLock" /\ pc'[t] = "ResendJoin"
    BY <1>1, <1>5 DEF ResendLock, At, Goto
  <2> QED
    BY <1>1, <2>1, OwnersTaken, Sets DEF HoldsAt
<1>6. CASE ResendJoin(t)
  <2>1. /\ \A u \in Threads \ {t, "resend"} : pc'[u] = pc[u]
        /\ Release("resend") /\ UNCHANGED held["reset"] /\ pc[t] = "ResendJoin"
        /\ ~Running("resend")
    BY <1>1, <1>6, Sets DEF ResendJoin, At, Start, WaitsFor, MutexAt, JoinAt, NoThread
  <2>2. \A m \in Mutexes : ~HoldsAt(m, "resend")
    BY <2>1 DEF HoldsAt, Running
  <2>3. \A m \in Mutexes : HoldsAt(m, t) => m = "resend"
    BY <1>1, <2>1 DEF HoldsAt
  <2> QED
    BY <1>1, <2>1, <2>2, <2>3, OwnersGiven, Sets
<1> QED
  BY <1>2, <1>3, <1>4, <1>5, <1>6

LEMMA OwnersListener ==
  ASSUME TypeInv, Owners, Listener, ~StartStep("listener")
  PROVE  Owners'
<1>1. pc \in [Threads -> Labels] /\ held \in [Threads -> Nat]
  BY DEF TypeInv, TypeOK
<1>2. CASE ReceiveAck \/ CheckAccess \/ CheckMessage \/ HandleAck \/ Pop \/ PopFront
  <2>1. /\ \A u \in Threads \ {"listener"} : pc'[u] = pc[u]
        /\ UNCHANGED owner /\ UNCHANGED held
        /\ pc["listener"] \in {"Idle", "CheckAccess", "CheckMessage", "HandleAck", "Pop", "PopFront"}
    BY <1>1, <1>2 DEF ReceiveAck, CheckAccess, CheckMessage, HandleAck, Pop, PopFront, At, Goto
  <2> QED
    BY <1>1, <2>1, OwnersKept, Sets DEF HoldsAt
<1>3. CASE NextEntry
  <2>1. /\ \A u \in Threads \ {"listener"} : pc'[u] = pc[u]
        /\ UNCHANGED held["reset"] /\ pc["listener"] = "NextEntry"
        /\ \/ UNCHANGED owner
           \/ Acquire("queue", "listener") /\ pc'["listener"] = "NextReset"
    BY <1>1, <1>3, Sets DEF NextEntry, At, Goto, Acquire
  <2> QED
    BY <1>1, <2>1, OwnersKept, OwnersTaken, Sets DEF HoldsAt
<1>4. CASE NextReset
  <2>1. /\ \A u \in Threads \ {"listener"} : pc'[u] = pc[u]
        /\ Release("queue") /\ UNCHANGED held["reset"] /\ pc["listener"] = "NextReset"
    BY <1>1, <1>4 DEF NextReset, At, Goto
  <2>2. \A m \in Mutexes : HoldsAt(m, "listener") => m = "queue"
    BY <2>1 DEF HoldsAt
  <2> QED
    BY <2>1, <2>2, OwnersGiven, Sets
<1>5. CASE NextPushLock
  <2>1. /\ \A u \in Threads \ {"listener"} : pc'[u] = pc[u]
        /\ UNCHANGED held["reset"] /\ pc["listener"] = "NextPushLock"
        /\ \/ UNCHANGED owner
           \/ Acquire("pushPending", "listener") /\ pc'["listener"] = "NextPushJoin"
    BY <1>1, <1>5, Sets DEF NextPushLock, At, Goto, Acquire
  <2> QED
    BY <1>1, <2>1, OwnersKept, OwnersTaken, Sets DEF HoldsAt
<1>6. CASE NextPushJoin
  <2>1. /\ \A u \in Threads \ {"listener", "pushPending"} : pc'[u] = pc[u]
        /\ Release("pushPending") /\ UNCHANGED held["reset"] /\ pc["listener"] = "NextPushJoin"
        /\ ~Running("pushPending")
    BY <1>1, <1>6, Sets DEF NextPushJoin, At, Start, WaitsFor, MutexAt, JoinAt, NoThread
  <2>2. \A m \in Mutexes : ~HoldsAt(m, "pushPending")
    BY <2>1 DEF HoldsAt, Running
  <2>3. \A m \in Mutexes : HoldsAt(m, "listener") => m = "pushPending"
    BY <2>1 DEF HoldsAt
  <2> QED
    BY <2>1, <2>2, <2>3, OwnersGiven, Sets
<1> QED
  BY <1>2, <1>3, <1>4, <1>5, <1>6 DEF Listener

\* The resend thread does not find a message in front: Phase sees to that.
LEMMA OwnersWorkers ==
  ASSUME TypeInv, Owners, Phase, SendThread \/ Resend
  PROVE  Owners'
<1>1. pc \in [Threads -> Labels] /\ held \in [Threads -> Nat]
  BY DEF TypeInv, TypeOK
<1>2. CASE SendThread
  <2>1. /\ \A u \in Threads \ {"send"} : pc'[u] = pc[u]
        /\ UNCHANGED owner /\ UNCHANGED held /\ pc["send"] \in {"Send", "Transmit"}
    BY <1>1, <1>2 DEF SendThread, Send, Transmit, At, Goto
  <2> QED
    BY <2>1, OwnersKept, Sets DEF HoldsAt
<1>3. CASE Wake \/ ReadFront \/ Count
  <2>1. CASE Wake \/ Count
    <3>1. /\ \A u \in Threads \ {"resend"} : pc'[u] = pc[u]
          /\ UNCHANGED owner /\ UNCHANGED held /\ pc["resend"] \in {"Sleep", "Count"}
      BY <1>1, <2>1 DEF Wake, Count, CountTo, At, Goto
    <3> QED
      BY <3>1, OwnersKept, Sets DEF HoldsAt
  <2>2. CASE ReadFront
    <3>1. Repeating
      BY <2>2, ResendPhase DEF ReadFront, At
    <3>2. queue = Front2 /\ Head(queue).type = "PACKET"
      BY <3>1 DEF Repeating, Sending, Front2, Packet
    <3>3. /\ \A u \in Threads \ {"resend"} : pc'[u] = pc[u]
          /\ UNCHANGED owner /\ UNCHANGED held["reset"] /\ pc["resend"] = "ReadFront"
      BY <1>1, <2>2, <3>2, Sets DEF ReadFront, At, Goto
    <3> QED
      BY <3>3, OwnersKept, Sets DEF HoldsAt
  <2> QED
    BY <1>3, <2>1, <2>2
<1>4. CASE ResendSendLock
  <2>1. /\ \A u \in Threads \ {"resend"} : pc'[u] = pc[u]
        /\ UNCHANGED held /\ pc["resend"] = "SendLock"
        /\ Acquire("send", "resend") /\ pc'["resend"] = "SendJoin"
    BY <1>1, <1>4, Sets DEF ResendSendLock, At, Goto
  <2> QED
    BY <2>1, OwnersTaken, Sets DEF HoldsAt
<1>5. CASE ResendSendJoin
  <2>1. /\ \A u \in Threads \ {"resend", "send"} : pc'[u] = pc[u]
        /\ Release("send") /\ UNCHANGED held["reset"] /\ pc["resend"] = "SendJoin"
        /\ ~Running("send")
    BY <1>1, <1>5, Sets DEF ResendSendJoin, At, Goto, Start, WaitsFor, MutexAt, JoinAt, NoThread
  <2>2. \A m \in Mutexes : ~HoldsAt(m, "send")
    BY <2>1 DEF HoldsAt, Running
  <2>3. \A m \in Mutexes : HoldsAt(m, "resend") => m = "send"
    BY <2>1 DEF HoldsAt
  <2> QED
    BY <2>1, <2>2, <2>3, OwnersGiven, Sets
<1>6. CASE RestartLock
  <2>1. /\ \A u \in Threads \ {"resend"} : pc'[u] = pc[u]
        /\ UNCHANGED held /\ pc["resend"] = "RestartLock"
        /\ \/ UNCHANGED owner
           \/ Acquire("startResend", "resend") /\ pc'["resend"] = "RestartJoin"
    BY <1>1, <1>6, Sets DEF RestartLock, At, Goto, Acquire
  <2> QED
    BY <2>1, OwnersKept, OwnersTaken, Sets DEF HoldsAt
<1>7. CASE RestartJoin
  <2>1. /\ \A u \in Threads \ {"resend", "startResend"} : pc'[u] = pc[u]
        /\ Release("startResend") /\ UNCHANGED held["reset"] /\ pc["resend"] = "RestartJoin"
        /\ ~Running("startResend")
    BY <1>1, <1>7, Sets DEF RestartJoin, At, Start, WaitsFor, MutexAt, JoinAt, NoThread
  <2>2. \A m \in Mutexes : ~HoldsAt(m, "startResend")
    BY <2>1 DEF HoldsAt, Running
  <2>3. \A m \in Mutexes : HoldsAt(m, "resend") => m = "startResend"
    BY <2>1 DEF HoldsAt
  <2> QED
    BY <2>1, <2>2, <2>3, OwnersGiven, Sets
<1> QED
  BY <1>2, <1>3, <1>4, <1>5, <1>6, <1>7 DEF Resend

LEMMA OwnersReset ==
  ASSUME TypeInv, Owners, DisposeInv, Reset
  PROVE  Owners'
<1>1. pc \in [Threads -> Labels] /\ held \in [Threads -> Nat]
  BY DEF TypeInv, TypeOK
<1>2. CASE StartDispose \/ Clear
  <2>1. ASSUME NEW m \in Mutexes, owner'[m] # NoThread PROVE HoldsAt(m, owner[m])'
    BY <1>1, <1>2, <2>1 DEF StartDispose, Clear, At, Goto, Owners, HoldsAt, TypeInv, TypeOK
  <2> QED
    BY <2>1 DEF Owners
<1>3. CASE DisposeLock
  <2> DEFINE n == DisposeOrder[held["reset"]]
  <2>1. pc["reset"] = "DisposeLock" /\ held["reset"] \in 1..4
    BY <1>3 DEF DisposeLock, DisposeInv, At
  <2>2. n \in Mutexes
    BY <2>1, Sets DEF DisposeOrder
  <2>3. Acquire(n, "reset") /\ UNCHANGED held /\ pc' = [pc EXCEPT !["reset"] = "DisposeJoin"]
    BY <1>3 DEF DisposeLock, Goto
  <2> HIDE DEF n
  <2>4. HoldsAt(n, "reset")'
    BY <1>1, <2>3, Sets DEF n, HoldsAt
  <2>5. PICK x \in Mutexes : x = n
    BY <2>2
  <2>6. /\ \A u \in Threads \ {"reset"} : pc'[u] = pc[u]
        /\ \A m \in Mutexes : ~HoldsAt(m, "reset")
    BY <1>1, <2>1, <2>3 DEF HoldsAt
  <2>7. HoldsAt(x, "reset")'
    BY <1>1, <2>3, <2>5, Sets DEF n, HoldsAt
  <2> QED
    BY <2>3, <2>5, <2>6, <2>7, OwnersTaken, Sets
<1>4. CASE DisposeJoin
  <2> DEFINE n == DisposeOrder[held["reset"]]
  <2>1. pc["reset"] = "DisposeJoin" /\ held["reset"] \in 1..4
    BY <1>4 DEF DisposeJoin, DisposeInv, At
  <2>2. n \in {"send", "resend", "startResend", "pushPending"}
    BY <2>1 DEF DisposeOrder
  <2>3. ~Running(n)
    BY <1>4, <2>1, <2>2, Sets DEF DisposeJoin, At, WaitsFor, MutexAt, JoinAt, NoThread
  <2>4. /\ \A u \in Threads \ {"reset", n} : pc'[u] = pc[u]
        /\ Release(n)
    BY <1>1, <1>4 DEF DisposeJoin
  <2>5. \A m \in Mutexes : ~HoldsAt(m, n)
    BY <2>2, <2>3 DEF HoldsAt, Running
  <2>6. \A m \in Mutexes : HoldsAt(m, "reset") => m = n
    BY <2>1 DEF HoldsAt
  <2> HIDE DEF n
  <2>7. PICK x \in {"send", "resend", "startResend", "pushPending"} : x = n
    BY <2>2
  <2> QED
    BY <2>4, <2>5, <2>6, <2>7, OwnersGiven, Sets
<1> QED
  BY <1>2, <1>3, <1>4 DEF Reset

LEMMA OwnersStep ==
  ASSUME TypeInv, Owners, DisposeInv, Phase, [Next]_vars
  PROVE  Owners'
<1>1. CASE SetValueRemove \/ SetValuePush \/ Enqueue \/ PushPendingQueues
  <2>1. pc \in [Threads -> Labels]
    BY DEF TypeInv, TypeOK
  <2>2. /\ \A u \in Threads \ {"rpc"} : pc'[u] = pc[u]
        /\ UNCHANGED owner /\ UNCHANGED held
        /\ pc["rpc"] \in {"Idle", "SetValuePush", "Enqueue", "Push"}
    BY <1>1, <2>1 DEF SetValueRemove, SetValuePush, Enqueue, PushPendingQueues, At, Goto
  <2> QED
    BY <2>2, OwnersKept, Sets DEF HoldsAt
<1>2. ASSUME NEW t \in Pushers, PushStep(t) PROVE Owners'
  BY <1>2, OwnersPush
<1>3. ASSUME NEW t \in Senders, StartStep(t) PROVE Owners'
  BY <1>3, OwnersStart DEF StartStep, Senders
<1>4. CASE StartResend
  BY <1>4, OwnersStart DEF StartResend
<1>5. CASE Listener
  BY <1>3, <1>5, OwnersListener DEF Senders
<1>6. CASE SendThread \/ Resend
  BY <1>6, OwnersWorkers
<1>7. CASE Reset
  BY <1>7, OwnersReset
<1>8. CASE UNCHANGED vars
  BY <1>8 DEF vars, Owners, HoldsAt
<1> QED
  BY <1>1, <1>2, <1>3, <1>4, <1>5, <1>6, <1>7, <1>8
  DEF Next, Rpc, PushPending, Pushers, Senders

-----------------------------------------------------------------------------
(* When no thread has anything left to do                                    *)

LEMMA Waits ==
  ASSUME NEW t
  PROVE  /\ \A l \in {"PopFront", "NextEntry", "FrontRead", "Scan", "AddAndSend", "AddMessage",
                      "ReadFront"} : MutexAt(t, l) = "queue"
         /\ \A l \in {"Pop", "ResendLock"} : MutexAt(t, l) = "resend"
         /\ MutexAt(t, "SendLock") = "send"
         /\ MutexAt(t, "RestartLock") = "startResend"
         /\ MutexAt(t, "NextPushLock") = "pushPending"
         /\ \A l \in {"SendJoin", "ResendJoin", "RestartJoin", "NextPushJoin", "Deref", "Front",
                      "Check", "SetWorking", "Send", "Count", "CheckAccess", "CheckMessage",
                      "HandleAck", "NextReset", "SetValuePush", "Enqueue"} :
                MutexAt(t, l) = NoThread
         /\ JoinAt(t, "SendJoin") = "send" /\ JoinAt(t, "ResendJoin") = "resend"
         /\ JoinAt(t, "RestartJoin") = "startResend"
         /\ JoinAt(t, "NextPushJoin") = "pushPending"
         /\ \A l \in {"Deref", "Front", "Check", "SetWorking", "Send", "Count", "CheckAccess",
                      "CheckMessage", "HandleAck", "NextReset", "SetValuePush", "Enqueue"} :
                JoinAt(t, l) = NoThread
  BY DEF MutexAt, JoinAt, NoThread

\* A thread that acquires a free mutex, joins a thread at rest or does neither.
LEMMA ReadyThread ==
  ASSUME NEW t, Running(t), pc[t] \notin Timed,
         \/ MutexAt(t, pc[t]) # NoThread /\ owner[MutexAt(t, pc[t])] = NoThread
         \/ MutexAt(t, pc[t]) = NoThread /\ JoinAt(t, pc[t]) = NoThread
         \/ MutexAt(t, pc[t]) = NoThread /\ Rests(JoinAt(t, pc[t]))
  PROVE  Ready(t)
  BY DEF Ready, WaitsFor, Running, Rests

LEMMA Unheld ==
  ASSUME TypeInv, Owners, pc["reset"] # "DisposeJoin"
  PROVE  /\ (\A u \in Threads : pc[u] \notin {"Deref", "Front", "Crashed", "NextReset"})
              => owner["queue"] = NoThread
         /\ (\A u \in Threads : pc[u] # "SendJoin") => owner["send"] = NoThread
         /\ (\A u \in Threads : pc[u] # "ResendJoin") => owner["resend"] = NoThread
         /\ (\A u \in Threads : pc[u] # "RestartJoin") => owner["startResend"] = NoThread
         /\ (\A u \in Threads : pc[u] # "NextPushJoin") => owner["pushPending"] = NoThread
  BY FreeMutex, Sets DEF HoldsAt

LEMMA PushingReady ==
  ASSUME TypeInv, Owners, NEW t \in Pushers, Looking(t) \/ Found(t) \/ Loaded(t) \/ Launched(t)
  PROVE  \E u \in Threads : Ready(u)
<1>1. /\ t \in Threads /\ pc["reset"] = "Idle" /\ pc["listener"] = "Idle"
      /\ Rests("startResend") /\ Alone(t)
  BY PushingIdle, Sets DEF Pushers, Pushing
<1>2. \A u \in Pushers \ {t} : pc[u] \in {"Idle", "Done", "SetValuePush", "Enqueue", "Push"}
  BY <1>1 DEF Pushers, Alone, Rests, Outside
<1> USE <1>1, <1>2, Waits, Sets DEF Pushers, Rests, Timed
<1>3. CASE Looking(t) \/ Found(t)
  <2>1. /\ Rests("send") /\ (Rests("resend") \/ pc["resend"] = "Sleep")
        /\ pc[t] \in {"Scan", "Deref", "Front", "Check", "AddAndSend"}
    BY <1>3 DEF Looking, Found, Quiet
  <2>2. pc[t] \in {"Scan", "AddAndSend"} => owner["queue"] = NoThread
    BY <2>1, Unheld
  <2>3. Ready(t)
    BY <2>1, <2>2, ReadyThread DEF Running, NoThread
  <2> QED
    BY <2>3
<1>4. CASE Loaded(t)
  <2>1. /\ Rests("send") /\ (Rests("resend") \/ pc["resend"] = "Sleep")
        /\ pc[t] \in {"SendLock", "SendJoin"}
    BY <1>4 DEF Loaded, Quiet
  <2>2. pc[t] = "SendLock" => owner["send"] = NoThread
    BY <2>1, Unheld
  <2>3. Ready(t)
    BY <2>1, <2>2, ReadyThread DEF Running, NoThread
  <2> QED
    BY <2>3
<1>5. CASE Launched(t)
  <2>1. /\ pc["send"] \in {"Send", "Transmit"} /\ (Rests("resend") \/ pc["resend"] = "Sleep")
        /\ pc[t] \in {"FrontRead", "ResendLock", "ResendJoin", "AddMessage", "SetWorking"}
    BY <1>5 DEF Launched, Busy
  <2>2. /\ pc[t] \in {"FrontRead", "AddMessage"} => owner["queue"] = NoThread
        /\ pc[t] = "ResendLock" => owner["resend"] = NoThread
    BY <2>1, Unheld
  <2>3. CASE pc[t] # "ResendJoin" \/ Rests("resend")
    <3>1. Ready(t)
      BY <2>1, <2>2, <2>3, ReadyThread DEF Running, NoThread
    <3> QED
      BY <3>1
  <2>4. CASE pc[t] = "ResendJoin" /\ ~Rests("resend")
    <3>1. pc["resend"] = "Sleep" /\ stop
      BY <1>5, <2>4 DEF Launched
    <3>2. Ready("resend")
      BY <3>1 DEF Ready, Running, WaitsFor, MutexAt, JoinAt, NoThread
    <3> QED
      BY <3>2
  <2> QED
    BY <2>3, <2>4
<1> QED
  BY <1>3, <1>4, <1>5

LEMMA ListenerReady ==
  ASSUME TypeInv, Owners, Going \/ Popped \/ FirstPop \/ SecondPop
  PROVE  Ready("listener")
<1> USE Waits, Sets DEF Rests, Timed
<1>1. /\ pc["reset"] = "Idle" /\ NoPusher /\ Rests("send") /\ Rests("startResend")
      /\ Rests("resend") \/ pc["resend"] = "Sleep"
  BY DEF Going, Popped, FirstPop, SecondPop, Free, Answered, Quiet, Live
<1>2. pc["listener"] \in {"NextReset", "NextPushLock", "NextPushJoin", "NextEntry", "CheckAccess",
                          "Pop", "PopFront", "CheckMessage", "HandleAck"}
  BY DEF Going, Popped, FirstPop, SecondPop
<1>3. /\ pc["listener"] = "NextPushLock" => owner["pushPending"] = NoThread
      /\ pc["listener"] \in {"NextEntry", "PopFront"} => owner["queue"] = NoThread
      /\ pc["listener"] = "Pop" => owner["resend"] = NoThread
  BY <1>1, <1>2, Unheld DEF NoPusher, Outside
<1> QED
  BY <1>1, <1>2, <1>3, ReadyThread DEF Running, NoThread, NoPusher

LEMMA ResendReady ==
  ASSUME TypeInv, Owners, Repeating \/ Counting \/ Restarting \/ Rearming
  PROVE  \E u \in Threads : Ready(u)
<1> USE Waits, Sets DEF Rests, Timed
<1>1. /\ pc["reset"] = "Idle" /\ NoPusher /\ pc["listener"] = "Idle"
  BY SendingIdle DEF Sending
<1>2. CASE Repeating
  <2>1. /\ Rests("send") /\ Rests("startResend")
        /\ pc["resend"] \in {"ReadFront", "SendLock", "SendJoin"}
    BY <1>2 DEF Repeating
  <2>2. /\ pc["resend"] = "ReadFront" => owner["queue"] = NoThread
        /\ pc["resend"] = "SendLock" => owner["send"] = NoThread
    BY <1>1, <2>1, Unheld DEF NoPusher, Outside
  <2>3. Ready("resend")
    BY <2>1, <2>2, ReadyThread DEF Running, NoThread
  <2> QED
    BY <2>3
<1>3. CASE Counting
  <2>1. Ready("resend")
    BY <1>3, ReadyThread DEF Counting, Running, NoThread
  <2> QED
    BY <2>1
<1>4. CASE Restarting
  <2>1. /\ pc["send"] \in {"Send", "Transmit"} /\ Rests("startResend")
        /\ pc["resend"] \in {"RestartLock", "RestartJoin"}
    BY <1>4 DEF Restarting, Busy
  <2>2. pc["resend"] = "RestartLock" => owner["startResend"] = NoThread
    BY <1>1, <2>1, Unheld DEF NoPusher, Outside
  <2>3. Ready("resend")
    BY <2>1, <2>2, ReadyThread DEF Running, NoThread
  <2> QED
    BY <2>3
<1>5. CASE Rearming
  <2>1. /\ pc["send"] \in {"Send", "Transmit"} /\ Rests("resend")
        /\ pc["startResend"] \in {"FrontRead", "ResendLock", "ResendJoin"}
    BY <1>5 DEF Rearming, Busy
  <2>2. /\ pc["startResend"] = "FrontRead" => owner["queue"] = NoThread
        /\ pc["startResend"] = "ResendLock" => owner["resend"] = NoThread
    BY <1>1, <2>1, Unheld DEF NoPusher, Outside
  <2>3. Ready("startResend")
    BY <2>1, <2>2, ReadyThread DEF Running, NoThread
  <2> QED
    BY <2>3
<1> QED
  BY <1>2, <1>3, <1>4, <1>5

\* Time passes only while a list waits for a call, a packet is on air, or its
\* answer may still come.
LEMMA Calm ==
  ASSUME Prompt, TypeInv, Owners, Phase, ~Crashed, TimePasses
  PROVE  /\ Waiting \/ Sleeping \/ Last \/ Gone
         /\ pc["rpc"] # "Enqueue" /\ pc["send"] # "Send"
         /\ ~(pc["resend"] = "Sleep" /\ stop)
<1>1. \A u \in Threads : ~Ready(u)
  BY DEF TimePasses
<1>2. ~Dead
  BY Sets DEF Crashed, Dead
<1>3. \A t \in Pushers : ~(Looking(t) \/ Found(t) \/ Loaded(t) \/ Launched(t))
  BY <1>1, PushingReady
<1>4. ~(Going \/ Popped \/ FirstPop \/ SecondPop)
  BY <1>1, ListenerReady, Sets
<1>5. ~(Repeating \/ Counting \/ Restarting \/ Rearming)
  BY <1>1, ResendReady
<1>6. pc["rpc"] # "Enqueue" /\ pc["send"] # "Send"
  BY <1>1, Waits, ReadyThread, Sets DEF Running, Timed, NoThread
<1>7. ~(pc["resend"] = "Sleep" /\ stop)
  BY <1>1, Sets DEF Ready, Running, WaitsFor, MutexAt, JoinAt, NoThread
<1> QED
  BY <1>2, <1>3, <1>4, <1>5, <1>6, <1>7 DEF Phase

-----------------------------------------------------------------------------
(* The numbers of the calls and of the transmissions                         *)

LEMMA ListEffects ==
  ASSUME TypeInv, [Next]_vars
  PROVE  \/ UNCHANGED <<pending, currentID, delivered>>
         \/ SetValueRemove \/ SetValuePush \/ NextEntry \/ Transmit
<1>1. CASE PushStep("rpc") \/ StartStep("rpc") \/ PushPending \/ StartStep("listener") \/ StartResend
  BY <1>1 DEF PushPending, StartResend, PushStep, StartStep, Scan, Deref, Front, Check,
        AddPacket, AddMessage, SetWorking, SendLock, SendJoin, FrontRead, ResendLock,
        ResendJoin, shared, radio
<1>2. CASE Enqueue \/ PushPendingQueues
  BY <1>2 DEF Enqueue, PushPendingQueues, shared, radio
<1>3. CASE ReceiveAck \/ CheckAccess \/ CheckMessage \/ HandleAck \/ Pop \/ PopFront
           \/ NextReset \/ NextPushLock \/ NextPushJoin
  BY <1>3 DEF ReceiveAck, CheckAccess, CheckMessage, HandleAck, Pop, PopFront, NextReset,
        NextPushLock, NextPushJoin, shared, radio
<1>4. CASE Send \/ Resend
  BY <1>4 DEF Send, Resend, Wake, ReadFront, ResendSendLock, ResendSendJoin, Count, CountTo,
        RestartLock, RestartJoin, shared, radio
<1>5. CASE Reset
  BY <1>5 DEF Reset, StartDispose, DisposeLock, DisposeJoin, Clear, shared, radio
<1>6. CASE UNCHANGED vars
  BY <1>6 DEF vars, shared, radio
<1> QED
  BY <1>1, <1>2, <1>3, <1>4, <1>5, <1>6 DEF Next, Rpc, Listener, SendThread

LEMMA CallerMoves ==
  ASSUME TypeInv, [Next]_vars, ~SetValuePush, ~Enqueue, ~SetValueRemove
  PROVE  pc'["rpc"] = pc["rpc"] \/ pc'["rpc"] \notin {"Enqueue", "Push"}
<1>0. pc \in [Threads -> Labels]
  BY DEF TypeInv, TypeOK
<1> USE <1>0, Sets DEF Goto, Start, End
<1>1. CASE PushPendingQueues
  BY <1>1 DEF PushPendingQueues
<1>2. ASSUME NEW t \in Pushers, PushStep(t)
      PROVE  pc'["rpc"] = pc["rpc"] \/ pc'["rpc"] \notin {"Enqueue", "Push"}
  BY <1>2 DEF Pushers, PushStep, Scan, Deref, Front, Check, AddPacket, AddMessage, SetWorking
<1>3. ASSUME NEW t \in Senders, StartStep(t)
      PROVE  pc'["rpc"] = pc["rpc"] \/ pc'["rpc"] \notin {"Enqueue", "Push"}
  BY <1>3 DEF Senders, Pushers, StartStep, SendLock, SendJoin, FrontRead, ResendLock, ResendJoin,
        AfterStart, AfterPop
<1>4. CASE Listener /\ ~StartStep("listener")
  BY <1>4 DEF Listener, ReceiveAck, CheckAccess, CheckMessage, HandleAck, Pop, PopFront,
        NextEntry, NextReset, NextPushLock, NextPushJoin
<1>5. CASE StartResend \/ SendThread \/ Resend
  BY <1>5 DEF StartResend, FrontRead, ResendLock, ResendJoin, SendThread, Send, Transmit, Resend,
        Wake, ReadFront, ResendSendLock, ResendSendJoin, Count, CountTo, RestartLock, RestartJoin
<1>6. CASE Reset
  BY <1>6 DEF Reset, StartDispose, DisposeLock, DisposeJoin, Clear, DisposeOrder, DisposeInv
<1>7. CASE UNCHANGED vars
  BY <1>7 DEF vars
<1> QED
  BY <1>1, <1>2, <1>3, <1>4, <1>5, <1>6, <1>7 DEF Next, Rpc, PushPending, Pushers, Senders

LEMMA Attaches ==
  ASSUME [Next]_vars, ~PushPendingQueues
  PROVE  UNCHANGED attached \/ attached' = FALSE
<1> USE DEF shared
<1>1. CASE Rpc \/ PushPending \/ StartResend
  BY <1>1 DEF Rpc, PushPending, StartResend, SetValueRemove, SetValuePush, Enqueue, PushStep,
        StartStep, Scan, Deref, Front, Check, AddPacket, AddMessage, SetWorking, SendLock,
        SendJoin, FrontRead, ResendLock, ResendJoin
<1>2. CASE Listener
  BY <1>2 DEF Listener, ReceiveAck, CheckAccess, CheckMessage, HandleAck, Pop, PopFront,
        NextEntry, NextReset, NextPushLock, NextPushJoin, StartStep, SendLock, SendJoin,
        FrontRead, ResendLock, ResendJoin
<1>3. CASE SendThread \/ Resend \/ Reset
  BY <1>3 DEF SendThread, Send, Transmit, Resend, Wake, ReadFront, ResendSendLock,
        ResendSendJoin, Count, CountTo, RestartLock, RestartJoin, Reset, StartDispose,
        DisposeLock, DisposeJoin, Clear
<1>4. CASE UNCHANGED vars
  BY <1>4 DEF vars
<1> QED
  BY <1>1, <1>2, <1>3, <1>4 DEF Next

LEMMA TriesChange ==
  ASSUME [Next]_vars
  PROVE  UNCHANGED tries \/ Transmit \/ \E t \in Senders : SendJoin(t)
<1> USE DEF radio
<1>1. CASE Rpc \/ PushPending \/ StartResend
  BY <1>1 DEF Rpc, PushPending, StartResend, SetValueRemove, SetValuePush, Enqueue,
        PushPendingQueues, PushStep, StartStep, Scan, Deref, Front, Check, AddPacket, AddMessage,
        SetWorking, SendLock, FrontRead, ResendLock, ResendJoin, Senders
<1>2. CASE Listener
  BY <1>2 DEF Listener, ReceiveAck, CheckAccess, CheckMessage, HandleAck, Pop, PopFront,
        NextEntry, NextReset, NextPushLock, NextPushJoin, StartStep, SendLock,
        FrontRead, ResendLock, ResendJoin, Senders
<1>3. CASE SendThread \/ Resend \/ Reset
  BY <1>3 DEF SendThread, Send, Resend, Wake, ReadFront, ResendSendLock,
        ResendSendJoin, Count, CountTo, RestartLock, RestartJoin, Reset, StartDispose,
        DisposeLock, DisposeJoin, Clear
<1>4. CASE UNCHANGED vars
  BY <1>4 DEF vars
<1> QED
  BY <1>1, <1>2, <1>3, <1>4 DEF Next

\* The packet on air is that of the call at work.
LEMMA OnAir ==
  ASSUME Phase, ~Crashed, Busy
  PROVE  held["send"] = pendingQueueID /\ Turn(pendingQueueID)
  BY BusyPhase DEF Launched, NewTurn, Sleeping, Counting, Restarting, Rearming, Last, Sending

LEMMA TransmitPhase ==
  ASSUME Prompt, TypeInv, Owners, Phase, Transmit
  PROVE  (Sleeping \/ Last) /\ Busy /\ pc["rpc"] # "Enqueue"
<1>1. Busy /\ ~Crashed /\ TimePasses
  BY DEF Transmit, At, Busy
<1> QED
  BY <1>1, Calm, Sets DEF Waiting, Free, Quiet, Gone, Busy, Rests

\* What the end of a call leaves of the list.
LEMMA Rest ==
  ASSUME IInv, NextEntry
  PROVE  /\ pending' \subseteq pending
         /\ \A i \in pending \ pending' : i = pendingQueueID /\ i \in delivered /\ IsFront(i)
         /\ Popped \/ pending' = pending
<1>1. pc["listener"] = "NextEntry" /\ ~Crashed
  BY DEF NextEntry, At
<1>2. Popped \/ SecondPop
  BY <1>1, ListenerPhase DEF IInv, Going, FirstPop
<1>3. CASE SecondPop
  <2>1. queue # <<>>
    BY <1>3 DEF SecondPop, Back1
  <2> QED
    BY <2>1 DEF NextEntry
<1>4. CASE Popped
  <2>1. pending \subseteq Nat /\ pendingQueueID \in delivered
    BY <1>4, IdsNat DEF IInv, TypeInv, TypeOK, Popped
  <2>2. Finished => \A i \in pending : IsFront(i) => i = pendingQueueID
    BY <2>1 DEF Finished, IsFront
  <2>3. \/ pending' = pending
        \/ Finished /\ pending' = {i \in pending : ~IsFront(i)}
    BY DEF NextEntry
  <2> QED
    BY <1>4, <2>1, <2>2, <2>3
<1> QED
  BY <1>2, <1>3, <1>4

LEMMA KnownStep ==
  ASSUME Prompt, IInv, [Next]_vars
  PROVE  Known'
<1>1. currentID \in Nat /\ pending \subseteq Nat /\ delivered \subseteq Nat
  BY IdsNat DEF IInv, TypeInv, TypeOK
<1> USE <1>1 DEF IInv, Known
<1>2. CASE UNCHANGED <<pending, currentID, delivered>>
  BY <1>2
<1>3. CASE SetValueRemove
  BY <1>3 DEF SetValueRemove, radio
<1>4. CASE SetValuePush
  BY <1>4 DEF SetValuePush, radio
<1>5. CASE NextEntry
  BY <1>5, Rest DEF NextEntry, radio
<1>6. CASE Transmit
  <2>1. held["send"] < currentID
    BY <1>6, OnAir, TransmitPhase DEF Turn, Transmit, At
  <2> QED
    BY <1>6, <2>1 DEF Transmit, shared
<1> QED
  BY <1>2, <1>3, <1>4, <1>5, <1>6, ListEffects

LEMMA CallsStep ==
  ASSUME Prompt, IInv, [Next]_vars
  PROVE  Calls'
<1>0. pc \in [Threads -> Labels] /\ currentID \in Nat /\ delivered \subseteq Nat
  BY IdsNat DEF IInv, TypeInv, TypeOK
<1>1. CASE SetValueRemove
  BY <1>0, <1>1, Sets DEF SetValueRemove, Goto, Calls
<1>2. CASE SetValuePush
  <2>1. currentID \in pending' /\ currentID \notin delivered'
    BY <1>0, <1>2 DEF SetValuePush, radio, IInv, Known
  <2> QED
    BY <1>0, <1>2, <2>1, Sets DEF SetValuePush, Goto, Calls
<1>3. CASE Enqueue
  BY <1>0, <1>3, Sets DEF Enqueue, Goto, At, Calls, IInv, PendingEmpty, shared, radio
<1>4. CASE PushPendingQueues
  BY <1>0, <1>4, Sets DEF PushPendingQueues, Goto, Calls
<1>5. CASE NextEntry
  <2>1. pc'["rpc"] = pc["rpc"] /\ UNCHANGED <<attached, delivered>>
    BY <1>0, <1>5, Sets DEF NextEntry, Goto, radio
  <2>2. \A i \in pending : i \notin delivered => i \in pending'
    BY <1>5, Rest
  <2> QED
    BY <2>1, <2>2 DEF Calls, IInv
<1>6. CASE Transmit
  <2>1. pc'["rpc"] = pc["rpc"] /\ UNCHANGED attached
    BY <1>0, <1>6, Sets DEF Transmit, Goto, shared
  <2> QED
    BY <1>6, <2>1, TransmitPhase DEF Calls, IInv
<1>7. CASE /\ UNCHANGED <<pending, currentID, delivered>>
           /\ ~SetValueRemove /\ ~SetValuePush /\ ~Enqueue /\ ~PushPendingQueues
  <2>1. pc'["rpc"] = pc["rpc"] \/ pc'["rpc"] \notin {"Enqueue", "Push"}
    BY <1>0, <1>7, CallerMoves DEF IInv
  <2>2. UNCHANGED attached \/ attached' = FALSE
    BY <1>7, Attaches
  <2> QED
    BY <1>7, <2>1, <2>2 DEF Calls, IInv
<1> QED
  BY <1>1, <1>2, <1>3, <1>4, <1>5, <1>6, <1>7, ListEffects DEF IInv

LEMMA TriedStep ==
  ASSUME Prompt, IInv, [Next]_vars
  PROVE  Tried'
<1>0. tries \in [Ids -> Nat] /\ resendCounter \in 0..(Retries - 2) /\ Retries \in Nat \ {0, 1}
  BY QueueAssumption DEF IInv, TypeInv, TypeOK
<1>1. CASE Transmit
  <2>1. /\ Sleeping \/ Last
        /\ Busy /\ ~Crashed
    BY <1>1, TransmitPhase DEF IInv, Transmit, At
  <2>2. held["send"] = pendingQueueID
    BY <2>1, OnAir DEF IInv
  <2>3. tries[pendingQueueID] < Retries
    BY <1>0, <2>1 DEF Sleeping, Last, Sent
  <2> QED
    BY <1>0, <1>1, <2>2, <2>3 DEF Transmit, Tried, IInv
<1>2. ASSUME NEW t \in Senders, SendJoin(t) PROVE Tried'
  BY <1>0, <1>2 DEF SendJoin, Tried, IInv
<1>3. CASE UNCHANGED tries
  BY <1>3 DEF Tried, IInv
<1> QED
  BY <1>1, <1>2, <1>3, TriesChange

-----------------------------------------------------------------------------
(* The phases, step by step: the calls                                       *)

\* A call outside the queue does not disturb it.
LEMMA CallPhase ==
  ASSUME IInv, ~Crashed, Outside, Outside', \A u \in Threads \ {"rpc"} : pc'[u] = pc[u],
         UNCHANGED <<queue, attached, working, pendingQueueID, control, owner, held, secondPop,
                     radio>>,
         pending' \subseteq pending \union {currentID}, currentID' \in Nat, currentID <= currentID',
         pending' = {} => \/ pc'["rpc"] = "SetValuePush"
                          \/ pending = {} /\ pc["rpc"] # "SetValuePush",
         pc["rpc"] \in {"Idle", "SetValuePush"} /\ pc["reset"] # "Idle"
             => pc'["rpc"] \in {"Idle", "SetValuePush"}
  PROVE  Phase'
<1>a. /\ pending \subseteq Nat /\ delivered \subseteq Nat /\ currentID \in Nat /\ Ids \subseteq Nat
      /\ pendingQueueID \in Nat /\ held \in [Threads -> Nat]
  BY IdsNat DEF IInv, TypeInv, TypeOK
<1>b. /\ \A u \in Threads \ {"rpc"} : Rests(u)' = Rests(u)
      /\ Busy' = Busy /\ Quiet' = Quiet /\ Live' = Live /\ Front1' = Front1 /\ Front2' = Front2
      /\ Back1' = Back1
  BY Sets DEF Rests, Busy, Quiet, Live, Front1, Front2, Back1, control
<1>c. \A k \in Nat : Turn(k) => Turn(k)'
  BY <1>a DEF Turn, radio
<1>d. \A k \in Nat : NewTurn(k) => NewTurn(k)'
  BY <1>c DEF NewTurn, radio
<1>e. Ahead => Ahead'
  BY <1>a DEF Ahead, IInv, Known, radio
<1>f. NoPusher => NoPusher'
  BY <1>b, Sets DEF NoPusher
<1>g. Free => Free'
  BY <1>b, <1>f DEF Free, radio
<1>h. Sending => Sending'
  BY <1>a, <1>b, <1>c, <1>f, Sets DEF Sending, radio
<1>i. Answered => Answered'
  BY <1>a, <1>b, <1>c, <1>f, Sets DEF Answered, radio
<1>j. \A n \in Nat : Sent(n) => Sent(n)'
  BY <1>b DEF Sent, radio
<1>k. resendCounter \in Nat /\ resendCounter + 1 \in Nat /\ Retries - 1 \in Nat
  BY QueueAssumption DEF IInv, TypeInv, TypeOK
<1>1. CASE Waiting \/ Going \/ Popped
  BY <1>1, <1>a, <1>c, <1>e, <1>g, Sets DEF Phase, Waiting, Going, Popped, radio
<1>2. ASSUME NEW t \in Pushers, Looking(t) \/ Found(t) \/ Loaded(t) \/ Launched(t)
      PROVE  Phase'
  <2>1. t = "pushPending"
    <3>1. pc[t] \notin {"Idle", "SetValuePush", "Enqueue", "Push"}
      BY <1>2 DEF Looking, Found, Loaded, Launched
    <3> QED
      BY <3>1 DEF Outside, Pushers
  <2>2. Pushing(t)' /\ pc'[t] = pc[t] /\ held'[t] = held[t] /\ held[t] \in Nat
    BY <1>2, <2>1, <1>a, <1>b, PushingIdle, Sets DEF Pushing, Alone, radio
  <2>3. CASE Looking(t)
    <3>1. Looking(t)'
      BY <2>1, <2>2, <2>3, <1>b, <1>e DEF Looking
    <3> QED
      BY <3>1, <1>2 DEF Phase
  <2>4. CASE Found(t)
    <3>1. Found(t)'
      BY <2>2, <2>4, <1>b, <1>d, <1>e DEF Found
    <3> QED
      BY <3>1, <1>2 DEF Phase
  <2>5. CASE Loaded(t)
    <3>1. Loaded(t)'
      BY <2>2, <2>5, <1>a, <1>b, <1>d DEF Loaded, control
    <3> QED
      BY <3>1, <1>2 DEF Phase
  <2>6. CASE Launched(t)
    <3>1. Launched(t)'
      BY <2>2, <2>6, <1>a, <1>b, <1>d, Sets DEF Launched, control, radio
    <3> QED
      BY <3>1, <1>2 DEF Phase
  <2> QED
    BY <1>2, <2>3, <2>4, <2>5, <2>6
<1>3. CASE Sleeping \/ Repeating \/ Counting \/ Restarting \/ Rearming \/ Last
  <2>1. CASE Sleeping
    BY <2>1, <1>b, <1>h, <1>j, <1>k, Sets DEF Phase, Sleeping, control
  <2>2. CASE Repeating
    BY <2>2, <1>b, <1>h, <1>j, <1>k, Sets DEF Phase, Repeating, control, radio
  <2>3. CASE Counting
    BY <2>3, <1>b, <1>h, <1>j, <1>k, Sets DEF Phase, Counting, control
  <2>4. CASE Restarting
    BY <2>4, <1>b, <1>h, <1>j, <1>k, Sets DEF Phase, Restarting, control
  <2>5. CASE Rearming
    BY <2>5, <1>b, <1>h, <1>j, <1>k, Sets DEF Phase, Rearming, control
  <2>6. CASE Last
    BY <2>6, <1>b, <1>h, <1>j, <1>k, Sets DEF Phase, Last
  <2> QED
    BY <1>3, <2>1, <2>2, <2>3, <2>4, <2>5, <2>6
<1>4. CASE FirstPop \/ SecondPop
  BY <1>4, <1>b, <1>i, Sets DEF Phase, FirstPop, SecondPop
<1>5. CASE Gone
  BY <1>5, <1>b, Sets DEF Phase, Gone, control, radio
<1>6. ~Dead
  BY Sets DEF Dead, Crashed
<1> QED
  BY <1>1, <1>2, <1>3, <1>4, <1>5, <1>6 DEF IInv, Phase

LEMMA CallStep ==
  ASSUME IInv, SetValueRemove \/ SetValuePush \/ Enqueue
  PROVE  Phase'
<1>a. pc \in [Threads -> Labels] /\ currentID \in Nat /\ pending \subseteq Nat /\ ~Crashed
  BY IdsNat DEF IInv, TypeInv, TypeOK, SetValueRemove, SetValuePush, Enqueue, At
<1>1. CASE SetValueRemove
  <2>1. /\ pc["rpc"] = "Idle" /\ pc'["rpc"] = "SetValuePush"
        /\ \A u \in Threads \ {"rpc"} : pc'[u] = pc[u]
        /\ pending' \subseteq pending /\ UNCHANGED currentID
    BY <1>1, <1>a, Sets DEF SetValueRemove, At, Goto
  <2> QED
    BY <1>1, <1>a, <2>1, CallPhase DEF SetValueRemove, Outside
<1>2. CASE SetValuePush
  <2>1. /\ pc["rpc"] = "SetValuePush" /\ pc'["rpc"] \in {"Idle", "Enqueue"}
        /\ pc["reset"] # "Idle" => pc'["rpc"] = "Idle"
        /\ \A u \in Threads \ {"rpc"} : pc'[u] = pc[u]
        /\ pending' = pending \union {currentID} /\ currentID' = currentID + 1
    BY <1>2, <1>a, Sets DEF SetValuePush, At, Goto
  <2> QED
    BY <1>2, <1>a, <2>1, CallPhase DEF SetValuePush, Outside
<1>3. CASE Enqueue
  <2>1. /\ pc["rpc"] = "Enqueue" /\ pc'["rpc"] \in {"Idle", "Push"}
        /\ \A u \in Threads \ {"rpc"} : pc'[u] = pc[u]
        /\ UNCHANGED <<pending, currentID>>
    BY <1>3, <1>a, Sets DEF Enqueue, At, Goto, shared
  <2> QED
    BY <1>3, <1>a, <2>1, CallPhase DEF Enqueue, Outside, shared
<1> QED
  BY <1>1, <1>2, <1>3

\* The list is handed in where the queue has none: where it waits for one.
LEMMA HandIn ==
  ASSUME IInv, PushPendingQueues
  PROVE  Phase'
<1>a. pc \in [Threads -> Labels]
  BY DEF IInv, TypeInv, TypeOK
<1>1. pc["rpc"] = "Push" /\ ~Crashed /\ ~attached
  BY DEF PushPendingQueues, At, IInv, Calls
<1>2. \A t \in Pushers : ~(Looking(t) \/ Found(t) \/ Loaded(t) \/ Launched(t))
  BY <1>1, PushingIdle DEF Pushing
<1>3. ~(Sleeping \/ Repeating \/ Counting \/ Restarting \/ Rearming \/ Last)
  BY <1>1, SendingIdle DEF Sending
<1>4. ~(Going \/ Popped \/ FirstPop \/ SecondPop \/ Gone \/ Dead)
  BY <1>1 DEF Going, Popped, FirstPop, SecondPop, Answered, Gone, Dead
<1>5. Waiting
  BY <1>2, <1>3, <1>4 DEF IInv, Phase
<1>6. pc'["rpc"] = "Scan" /\ \A u \in Threads \ {"rpc"} : pc'[u] = pc[u]
  BY <1>5, <1>a, Sets DEF PushPendingQueues, Goto, Waiting, Free
<1>7. Looking("rpc")'
  BY <1>5, <1>6, Sets
  DEF PushPendingQueues, Waiting, Free, Looking, Pushing, Alone, Live, Quiet, Rests, NoPusher,
      Ahead, control, radio
<1> QED
  BY <1>7 DEF Phase, Pushers

-----------------------------------------------------------------------------
(* The phases, step by step: starting a pending queue                        *)

LEMMA PusherAt ==
  ASSUME IInv, ~Crashed, NEW t \in Pushers
  PROVE  /\ pc[t] \in {"Scan", "Deref", "Front"} => Looking(t)
         /\ pc[t] \in {"Check", "AddAndSend"} => Found(t)
         /\ pc[t] \in {"SendLock", "SendJoin"} => Loaded(t)
         /\ pc[t] \in {"FrontRead", "ResendLock", "ResendJoin", "AddMessage", "SetWorking"}
                => Launched(t)
         /\ pc[t] # "Add"
<1> SUFFICES ASSUME pc[t] \notin {"Idle", "Done", "SetValuePush", "Enqueue", "Push"}
             PROVE  \/ Looking(t) /\ pc[t] \in {"Scan", "Deref", "Front"}
                    \/ Found(t) /\ pc[t] \in {"Check", "AddAndSend"}
                    \/ Loaded(t) /\ pc[t] \in {"SendLock", "SendJoin"}
                    \/ Launched(t) /\ pc[t] \in {"FrontRead", "ResendLock", "ResendJoin",
                                                 "AddMessage", "SetWorking"}
  OBVIOUS
<1>1. Looking(t) \/ Found(t) \/ Loaded(t) \/ Launched(t)
  BY PusherPhase DEF IInv
<1>2. /\ Looking(t) => pc[t] \in {"Scan", "Deref", "Front"}
      /\ Found(t) => pc[t] \in {"Check", "AddAndSend"}
      /\ Loaded(t) => pc[t] \in {"SendLock", "SendJoin"}
      /\ Launched(t) => pc[t] \in {"FrontRead", "ResendLock", "ResendJoin", "AddMessage",
                                   "SetWorking"}
  BY DEF Looking, Found, Loaded, Launched
<1> QED
  BY <1>1, <1>2

\* What a step of a pusher that goes on leaves alone.
LEMMA PushingKept ==
  ASSUME NEW t \in Pushers, Pushing(t), \A u \in Threads \ {t, "send", "resend"} : pc'[u] = pc[u],
         UNCHANGED <<disposing, attached, air>>
  PROVE  Pushing(t)'
  BY Sets DEF Pushing, Live, Alone, Outside, Rests, Pushers

LEMMA QuietKept ==
  ASSUME NEW t \in Pushers \union {"listener"}, Quiet, UNCHANGED stop,
         \A u \in Threads \ {t} : pc'[u] = pc[u]
  PROVE  Quiet'
  BY Sets DEF Quiet, Rests, Pushers

\* A pusher that returns leaves an empty queue without a pusher.
LEMMA PushEnds ==
  ASSUME pc \in [Threads -> Labels], NEW t \in Pushers, Pushing(t), Quiet, queue = <<>>,
         Goto(t, End(t)), UNCHANGED <<queue, attached, control, air>>
  PROVE  Free' /\ pc'["listener"] = "Idle"
<1>1. /\ pc'[t] = (IF t = "rpc" THEN "Idle" ELSE "Done")
      /\ \A u \in Threads \ {t} : pc'[u] = pc[u]
  BY Sets DEF Goto, End, Pushers
<1>2. Quiet'
  BY <1>1, QuietKept DEF control
<1>3. NoPusher'
  BY <1>1, Sets DEF Pushing, Alone, NoPusher, Outside, Rests, Pushers
<1> QED
  BY <1>1, <1>2, <1>3, Sets DEF Free, Pushing, Live, Pushers, control

LEMMA LookSteps ==
  ASSUME IInv, NEW t \in Pushers, Scan(t) \/ Deref(t) \/ Front(t)
  PROVE  Phase'
<1>a. /\ pc \in [Threads -> Labels] /\ held \in [Threads -> Nat] /\ t \in Threads
      /\ pending \subseteq Ids /\ delivered \subseteq Nat /\ ~Crashed
  BY Sets, IdsNat DEF IInv, TypeInv, TypeOK, Pushers, Scan, Deref, Front, At
<1>b. Looking(t)
  BY <1>a, PusherAt DEF Scan, Deref, Front, At
<1>c. Pushing(t) /\ Quiet /\ queue = <<>> /\ Ahead
  BY <1>b DEF Looking
<1>1. CASE Scan(t) /\ PendingEmpty
  <2>1. Free' /\ pc'["listener"] = "Idle"
    BY <1>1, <1>a, <1>c, PushEnds DEF Scan, shared
  <2>2. overlooked'
    BY <1>1, <1>c DEF Scan, Pushing, Live
  <2> QED
    BY <1>1, <1>c, <2>1, <2>2 DEF Scan, Phase, Waiting, Ahead, shared
<1>2. CASE Scan(t) /\ ~PendingEmpty
  <2>1. /\ pc'[t] = "Deref" /\ \A u \in Threads \ {t} : pc'[u] = pc[u]
        /\ pending' # {}
    BY <1>2, <1>a, <1>c DEF Scan, Goto, Pushing, Live, PendingEmpty, shared
  <2>2. Pushing(t)' /\ Quiet'
    BY <1>2, <1>c, <2>1, PushingKept, QuietKept DEF Scan, shared, control
  <2>3. Looking(t)'
    BY <1>2, <1>c, <2>1, <2>2 DEF Looking, Scan, Ahead, shared
  <2> QED
    BY <2>3 DEF Phase
<1>3. CASE Deref(t) /\ pending = {}
  <2>1. t = "pushPending" /\ pc["rpc"] = "SetValuePush"
    BY <1>3, <1>b DEF Looking, Deref, At
  <2>2. Dead'
    BY <1>3, <1>a, <2>1, Sets DEF Deref, Goto, Dead
  <2> QED
    BY <2>2 DEF Phase
<1>4. CASE Deref(t) /\ pending # {}
  <2>1. pc'[t] = "Front" /\ \A u \in Threads \ {t} : pc'[u] = pc[u]
    BY <1>4, <1>a DEF Deref, Goto
  <2>2. Pushing(t)' /\ Quiet'
    BY <1>4, <1>c, <2>1, PushingKept, QuietKept DEF Deref, shared, control, radio
  <2>3. Looking(t)'
    BY <1>4, <1>c, <2>1, <2>2 DEF Looking, Deref, Ahead, shared, radio
  <2> QED
    BY <2>3 DEF Phase
<1>5. CASE Front(t)
  <2>1. pc'[t] = "Check" /\ \A u \in Threads \ {t} : pc'[u] = pc[u]
    BY <1>5, <1>a DEF Front, Goto
  <2>2. Pushing(t)' /\ Quiet'
    BY <1>5, <1>c, <2>1, PushingKept, QuietKept DEF Front, shared, control, radio
  <2>3. held'[t] = 0 \/ IsFront(held'[t])
    BY <1>5, <1>a DEF Front
  <2>4. ASSUME NEW i \in Ids, IsFront(i) PROVE NewTurn(i)'
    BY <1>5, <1>a, <1>c, <2>4, IdsNat DEF Front, IsFront, NewTurn, Turn, Ahead, IInv, Known, shared, radio
  <2>5. held'[t] = 0 \/ NewTurn(held[t])'
    <3>1. PICK h : h = held'[t]
      OBVIOUS
    <3>2. h = 0 \/ (h \in Ids /\ IsFront(h))
      BY <3>1, <2>3, <1>a DEF IsFront
    <3>3. h = 0 \/ NewTurn(h)'
      BY <3>2, <2>4
    <3> QED
      BY <3>1, <3>3 DEF NewTurn, Turn
  <2>6. Found(t)'
    BY <1>5, <1>c, <2>1, <2>2, <2>5 DEF Found, Front, Ahead, shared, radio
  <2> QED
    BY <2>6 DEF Phase
<1> QED
  BY <1>1, <1>2, <1>3, <1>4, <1>5

LEMMA FoundSteps ==
  ASSUME IInv, NEW t \in Pushers, Check(t) \/ AddPacket(t)
  PROVE  Phase'
<1>a. /\ pc \in [Threads -> Labels] /\ held \in [Threads -> Nat] /\ t \in Threads
      /\ ~Crashed /\ 0 \notin Ids
  BY Sets DEF IInv, TypeInv, TypeOK, Pushers, Check, AddPacket, At, Ids
<1>b. Found(t)
  BY <1>a, PusherAt DEF Check, AddPacket, At
<1>c. Pushing(t) /\ Quiet /\ queue = <<>>
  BY <1>b DEF Found
<1>1. CASE Check(t) /\ held[t] = 0
  <2>1. Ahead
    BY <1>1, <1>b DEF Found, Check, At
  <2>2. Free' /\ pc'["listener"] = "Idle"
    BY <1>1, <1>a, <1>c, PushEnds DEF Check
  <2>3. overlooked'
    BY <1>1 DEF Check
  <2> QED
    BY <1>1, <2>1, <2>2, <2>3 DEF Check, Phase, Waiting, Ahead
<1>2. CASE Check(t) /\ held[t] # 0
  <2>1. /\ pc'[t] = "AddAndSend" /\ \A u \in Threads \ {t} : pc'[u] = pc[u]
        /\ pendingQueueID' = held'[t] /\ held'[t] = held[t]
    BY <1>2, <1>a, <1>c DEF Check, Goto
  <2>2. Pushing(t)' /\ Quiet'
    BY <1>2, <1>c, <2>1, PushingKept, QuietKept DEF Check, control
  <2>3. NewTurn(held[t])
    BY <1>2, <1>b DEF Found, Check, At
  <2>4. NewTurn(held[t])'
    BY <1>2, <2>1, <2>3 DEF NewTurn, Turn, Check
  <2>5. Found(t)'
    BY <1>2, <1>c, <2>1, <2>2, <2>4 DEF Found, Check
  <2> QED
    BY <2>5 DEF Phase
<1>3. CASE AddPacket(t)
  <2>1. pc[t] = "AddAndSend" /\ NewTurn(held[t]) /\ pendingQueueID = held[t]
    BY <1>3, <1>a, <1>b DEF Found, AddPacket, At
  <2>2. /\ pc'[t] = "SendLock" /\ \A u \in Threads \ {t} : pc'[u] = pc[u]
        /\ resendCounter' = 0 /\ queue' = <<Packet(held[t])>>
        /\ UNCHANGED <<held, pendingQueueID>>
    BY <1>3, <1>a, <1>c, <2>1 DEF AddPacket, Goto
  <2>3. Pushing(t)' /\ Quiet'
    BY <1>3, <1>c, <2>2, PushingKept, QuietKept DEF AddPacket, radio
  <2>4. NewTurn(pendingQueueID)'
    BY <1>3, <2>1 DEF NewTurn, Turn, AddPacket, radio
  <2>5. Loaded(t)'
    BY <2>1, <2>2, <2>3, <2>4 DEF Loaded, Front1, Packet
  <2> QED
    BY <2>5 DEF Phase
<1> QED
  BY <1>1, <1>2, <1>3

LEMMA LoadedSteps ==
  ASSUME IInv, NEW t \in Pushers, SendLock(t) \/ SendJoin(t)
  PROVE  Phase'
<1>a. /\ pc \in [Threads -> Labels] /\ held \in [Threads -> Nat] /\ t \in Threads
      /\ ~Crashed /\ t \notin {"send", "resend"} /\ tries \in [Ids -> Nat]
  BY Sets DEF IInv, TypeInv, TypeOK, Pushers, SendLock, SendJoin, At
<1>b. Loaded(t)
  BY <1>a, PusherAt DEF SendLock, SendJoin, At
<1>c. Pushing(t) /\ Quiet /\ NewTurn(pendingQueueID) /\ pendingQueueID \in Ids
  BY <1>b DEF Loaded, NewTurn, Turn
<1>d. NewTurn(pendingQueueID)'
  BY <1>c DEF NewTurn, Turn, SendLock, SendJoin, shared, radio
<1>1. CASE SendLock(t)
  <2>1. pc'[t] = "SendJoin" /\ \A u \in Threads \ {t} : pc'[u] = pc[u]
    BY <1>1, <1>a, <1>c DEF SendLock, Goto, Pushing, Live
  <2>2. Pushing(t)' /\ Quiet'
    BY <1>1, <1>c, <2>1, PushingKept, QuietKept DEF SendLock, shared, control, radio
  <2>3. Loaded(t)'
    BY <1>1, <1>b, <1>d, <2>1, <2>2 DEF Loaded, SendLock, Front1, shared, control
  <2> QED
    BY <2>3 DEF Phase
<1>2. CASE SendJoin(t)
  <2>1. /\ pc'[t] = "FrontRead" /\ pc'["send"] = "Send"
        /\ \A u \in Threads \ {t, "send"} : pc'[u] = pc[u]
        /\ held'["send"] = held[t] /\ held'[t] = held[t]
    BY <1>2, <1>a, Sets DEF SendJoin, Start
  <2>2. Pushing(t)'
    BY <1>2, <1>c, <2>1, PushingKept DEF SendJoin, shared, control
  <2>3. Rests("resend")' \/ (pc'["resend"] = "Sleep" /\ stop')
    BY <1>2, <1>a, <1>c, <2>1, Sets DEF Quiet, Rests, SendJoin, control
  <2>4. tries'[pendingQueueID] = 0
    BY <1>2, <1>a, <1>b, <1>c DEF SendJoin, Loaded
  <2>5. Launched(t)'
    BY <1>2, <1>b, <1>d, <2>1, <2>2, <2>3, <2>4
    DEF Launched, Loaded, SendJoin, Busy, Front1, shared, control
  <2> QED
    BY <2>5 DEF Phase
<1> QED
  BY <1>1, <1>2

LEMMA Appended ==
  ASSUME NEW a, NEW b
  PROVE  Append(<<a>>, b) = <<a, b>>
<1> DEFINE f == Append(<<a>>, b)
           g == <<a, b>>
<1>1. <<a>> \in Seq({a, b}) /\ Len(<<a>>) = 1
  OBVIOUS
<1>2. f \in Seq({a, b}) /\ Len(f) = 2 /\ f[1] = a /\ f[2] = b
  BY <1>1
<1>3. g \in Seq({a, b}) /\ Len(g) = 2 /\ g[1] = a /\ g[2] = b
  OBVIOUS
<1> HIDE DEF f, g
<1>4. \A i \in 1..2 : f[i] = g[i]
  <2>1. \A i \in 1..2 : i = 1 \/ i = 2
    OBVIOUS
  <2> QED
    BY <1>2, <1>3, <2>1
<1>5. DOMAIN f = 1..2 /\ DOMAIN g = 1..2
  BY <1>2, <1>3
<1>6. f = g
  BY <1>2, <1>3, <1>4, <1>5
<1> QED
  BY <1>6 DEF f, g

LEMMA LaunchedSteps ==
  ASSUME IInv, NEW t \in Pushers,
         FrontRead(t) \/ ResendLock(t) \/ ResendJoin(t) \/ AddMessage(t) \/ SetWorking(t)
  PROVE  Phase'
<1>a. /\ pc \in [Threads -> Labels] /\ held \in [Threads -> Nat] /\ t \in Threads
      /\ ~Crashed /\ t \notin {"send", "resend", "startResend", "listener"}
  BY Sets DEF IInv, TypeInv, TypeOK, Pushers, FrontRead, ResendLock, ResendJoin, AddMessage,
              SetWorking, At
<1>b. Launched(t)
  BY <1>a, PusherAt DEF FrontRead, ResendLock, ResendJoin, AddMessage, SetWorking, At
<1>c. /\ Pushing(t) /\ NewTurn(pendingQueueID) /\ Busy /\ pendingQueueID = held[t]
      /\ held["send"] = pendingQueueID /\ tries[pendingQueueID] = 0 /\ resendCounter = 0
  BY <1>b DEF Launched
<1>d. NewTurn(pendingQueueID)'
  BY <1>c DEF NewTurn, Turn, FrontRead, ResendLock, ResendJoin, AddMessage, SetWorking, shared, radio
<1>e. UNCHANGED <<pendingQueueID, held, tries, resendCounter, disposing, attached, air>>
  BY DEF FrontRead, ResendLock, ResendJoin, AddMessage, SetWorking, shared, control, radio
<1>1. CASE FrontRead(t) \/ ResendLock(t)
  <2>1. queue = Front1 /\ (Rests("resend") \/ (pc["resend"] = "Sleep" /\ stop))
    BY <1>1, <1>b DEF Launched, FrontRead, ResendLock, At
  <2>2. queue # <<>> /\ Head(queue).type = "PACKET" /\ ~disposing
    BY <2>1, <1>c DEF Front1, Packet, Pushing, Live
  <2>3. /\ pc'[t] \in {"ResendLock", "ResendJoin"}
        /\ \A u \in Threads \ {t} : pc'[u] = pc[u]
        /\ queue' = queue /\ (stop => stop')
    BY <1>1, <1>a, <2>2 DEF FrontRead, ResendLock, Goto, shared, control
  <2>4. Pushing(t)' /\ Busy'
    BY <1>a, <1>c, <1>e, <2>3, PushingKept, Sets DEF Busy
  <2>5. Rests("resend")' \/ (pc'["resend"] = "Sleep" /\ stop')
    BY <1>a, <2>1, <2>3, Sets DEF Rests
  <2>6. Launched(t)'
    BY <1>c, <1>d, <1>e, <2>1, <2>3, <2>4, <2>5 DEF Launched, Front1
  <2> QED
    BY <2>6 DEF Phase
<1>2. CASE ResendJoin(t)
  <2>1. queue = Front1
    BY <1>2, <1>b DEF Launched, ResendJoin, At
  <2>2. /\ pc'[t] = "AddMessage" /\ pc'["resend"] = "Sleep" /\ ~stop'
        /\ \A u \in Threads \ {t, "resend"} : pc'[u] = pc[u]
        /\ queue' = queue
    BY <1>2, <1>a, Sets DEF ResendJoin, Start, AfterStart, shared
  <2>3. Pushing(t)' /\ Busy'
    BY <1>a, <1>c, <1>e, <2>2, PushingKept, Sets DEF Busy
  <2>4. Launched(t)'
    BY <1>c, <1>d, <1>e, <2>1, <2>2, <2>3 DEF Launched, Front1
  <2> QED
    BY <2>4 DEF Phase
<1>3. CASE AddMessage(t)
  <2>1. queue = Front1 /\ pc["resend"] = "Sleep" /\ ~stop
    BY <1>3, <1>b DEF Launched, AddMessage, At
  <2>2. /\ pc'[t] = "SetWorking" /\ stop' = stop
        /\ \A u \in Threads \ {t} : pc'[u] = pc[u]
        /\ queue' = Append(queue, Message(held[t]))
    BY <1>3, <1>a DEF AddMessage, Goto, control
  <2>3. queue' = Front2'
    <3>1. Append(<<Packet(held[t])>>, Message(held[t])) = <<Packet(held[t]), Message(held[t])>>
      BY Appended
    <3>2. Front1 = <<Packet(held[t])>> /\ Front2' = <<Packet(held[t]), Message(held[t])>>
      BY <1>c, <1>e DEF Front1, Front2, Packet, Message
    <3> QED
      BY <2>1, <2>2, <3>1, <3>2
  <2>4. Pushing(t)' /\ Busy' /\ pc'["resend"] = "Sleep"
    BY <1>a, <1>c, <1>e, <2>1, <2>2, PushingKept, Sets DEF Busy
  <2>5. Launched(t)'
    BY <1>c, <1>d, <1>e, <2>1, <2>2, <2>3, <2>4 DEF Launched
  <2> QED
    BY <2>5 DEF Phase
<1>4. CASE SetWorking(t)
  <2>1. queue = Front2 /\ pc["resend"] = "Sleep" /\ ~stop
    BY <1>4, <1>b DEF Launched, SetWorking, At
  <2>2. /\ pc'[t] = (IF t = "rpc" THEN "Idle" ELSE "Done") /\ stop' = stop
        /\ \A u \in Threads \ {t} : pc'[u] = pc[u]
        /\ queue' = queue /\ working'
    BY <1>4, <1>a, Sets DEF SetWorking, Goto, End, Pushers, control
  <2>3. NoPusher' /\ Live' /\ pc'["listener"] = "Idle" /\ Rests("startResend")'
        /\ pc'["send"] = pc["send"] /\ pc'["resend"] = "Sleep"
    BY <1>a, <1>c, <1>e, <2>1, <2>2, Sets
    DEF Pushing, Live, Alone, NoPusher, Outside, Rests, Pushers
  <2>4. Sending'
    BY <1>c, <1>d, <1>e, <2>1, <2>2, <2>3 DEF Sending, Pushing, NewTurn, Front2, Busy
  <2>5. Sleeping'
    BY <1>c, <1>e, <2>1, <2>2, <2>3, <2>4 DEF Sleeping, Sent, Busy
  <2> QED
    BY <2>5 DEF Phase
<1> QED
  BY <1>1, <1>2, <1>3, <1>4

-----------------------------------------------------------------------------
(* The phases, step by step: sending, repeating, answers                     *)

\* What a step of a worker leaves alone.
LEMMA SendingKept ==
  ASSUME Sending, \A u \in Callers \union {"pushPending"} : pc'[u] = pc[u],
         UNCHANGED <<shared, disposing>>, Turn(pendingQueueID)',
         Busy' => held'["send"] = pendingQueueID, Busy' \/ Rests("send")', air' \in {0, 1},
         air' = 1 => Rests("send")' /\ pendingQueueID \in delivered'
  PROVE  Sending'
<1>1. NoPusher' /\ Live' /\ pc'["listener"] = "Idle"
  BY DEF Callers, Sending, NoPusher, Outside, Rests, Live
<1>2. queue' = Front2'
  BY DEF Sending, Front2, shared
<1> QED
  BY <1>1, <1>2 DEF Sending, shared

LEMMA TurnKept ==
  ASSUME NEW k, Turn(k), UNCHANGED <<pending, currentID, delivered>>
  PROVE  Turn(k)' /\ (NewTurn(k) => NewTurn(k)')
  BY DEF Turn, NewTurn

LEMMA SendStep ==
  ASSUME IInv, Send
  PROVE  Phase'
<1>a. /\ pc \in [Threads -> Labels] /\ ~Crashed /\ pc["send"] = "Send" /\ Busy /\ ~Rests("send")
  BY DEF IInv, TypeInv, TypeOK, Send, At, Busy, Rests
<1>b. UNCHANGED <<shared, control, held, radio>>
  BY DEF Send
<1>c. PICK k : k = pendingQueueID
  OBVIOUS
<1>1. ASSUME NEW t \in Pushers, Launched(t) PROVE Phase'
  <2>1. ~disposing /\ Pushing(t) /\ NewTurn(k) /\ t # "send" /\ t \in Threads
    BY <1>1, <1>c, Sets DEF Launched, Pushing, Live, Pushers
  <2>2. pc'["send"] = "Transmit" /\ \A u \in Threads \ {"send"} : pc'[u] = pc[u]
    BY <1>a, <2>1, Sets DEF Send, Goto
  <2>3. Pushing(t)' /\ Busy' /\ pc'[t] = pc[t] /\ pc'["resend"] = pc["resend"]
    BY <1>b, <2>1, <2>2, PushingKept, Sets DEF Busy, shared, control, radio
  <2>4. NewTurn(pendingQueueID)'
    BY <1>b, <1>c, <2>1 DEF NewTurn, Turn, shared, radio
  <2>5. Launched(t)'
    BY <1>1, <1>b, <2>3, <2>4 DEF Launched, Rests, Front1, Front2, shared, control, radio
  <2> QED
    BY <2>5 DEF Phase
<1>2. CASE Sleeping \/ Counting \/ Restarting \/ Rearming \/ Last
  <2>1. Sending /\ ~disposing /\ air = 0
    BY <1>2, <1>a, SendingIdle DEF Sending, Live
  <2>2. pc'["send"] = "Transmit" /\ \A u \in Threads \ {"send"} : pc'[u] = pc[u]
    BY <1>a, <2>1, Sets DEF Send, Goto
  <2>3. Turn(pendingQueueID)' /\ Busy'
    BY <1>b, <2>1, <2>2 DEF Sending, Turn, Busy, shared, radio
  <2>4. Sending'
    BY <1>a, <1>b, <2>1, <2>2, <2>3, SendingKept, Sets DEF Sending, Callers, control, radio
  <2>5. /\ Rests("resend")' = Rests("resend") /\ Rests("startResend")' = Rests("startResend")
        /\ \A u \in {"resend", "startResend"} : pc'[u] = pc[u]
    BY <2>2, Sets DEF Rests
  <2>6. \A n \in Nat : Sent(n) => Sent(n)'
    BY <1>a, <1>b, <2>3 DEF Sent, shared, radio
  <2>7. resendCounter \in Nat /\ resendCounter + 1 \in Nat /\ Retries - 1 \in Nat
    BY QueueAssumption DEF IInv, TypeInv, TypeOK
  <2>8. CASE Sleeping
    BY <2>8, <1>b, <2>4, <2>5, <2>6, <2>7 DEF Phase, Sleeping, control
  <2>9. CASE Counting
    BY <2>9, <1>b, <2>3, <2>4, <2>5, <2>6, <2>7 DEF Phase, Counting, control
  <2>10. CASE Restarting
    BY <2>10, <1>b, <2>3, <2>4, <2>5, <2>6, <2>7 DEF Phase, Restarting, control
  <2>11. CASE Rearming
    BY <2>11, <1>b, <2>3, <2>4, <2>5, <2>6, <2>7 DEF Phase, Rearming, control
  <2>12. CASE Last
    BY <2>12, <1>b, <2>4, <2>5, <2>6, <2>7 DEF Phase, Last
  <2> QED
    BY <1>2, <2>8, <2>9, <2>10, <2>11, <2>12
<1> QED
  BY <1>1, <1>2, <1>a, BusyPhase DEF IInv

\* The packet arrives or is lost; it is counted in either case.
LEMMA TransmitStep ==
  ASSUME Prompt, IInv, Transmit
  PROVE  Phase'
<1>a. /\ pc \in [Threads -> Labels] /\ ~Crashed /\ tries \in [Ids -> Nat] /\ Busy
      /\ resendCounter \in Nat /\ Retries - 1 \in Nat /\ Retries \in Nat
  BY QueueAssumption DEF IInv, TypeInv, TypeOK, Transmit, At, Busy
<1>b. (Sleeping \/ Last) /\ held["send"] = pendingQueueID /\ Turn(pendingQueueID)
  BY <1>a, TransmitPhase, OnAir DEF IInv
<1>c. Sending /\ air = 0 /\ pendingQueueID \in Ids
  BY <1>a, <1>b, SendingIdle DEF Sending, Turn, Busy, Rests
<1>d. UNCHANGED <<shared, control, held>>
  BY DEF Transmit
<1>1. pc'["send"] = "Done" /\ \A u \in Threads \ {"send"} : pc'[u] = pc[u]
  BY <1>a, Sets DEF Transmit, Goto
<1>2. /\ tries'[pendingQueueID] = tries[pendingQueueID] + 1
      /\ delivered' \subseteq delivered \union {pendingQueueID}
      /\ air' \in {0, 1} /\ (air' = 1 => pendingQueueID \in delivered')
  BY <1>a, <1>b, <1>c DEF Transmit
<1>3. Turn(pendingQueueID)'
  BY <1>b, <1>d, <1>2, IdsNat DEF Turn, shared
<1>4. ~Busy' /\ Rests("send")' /\ Rests("resend")' = Rests("resend") /\ Rests("startResend")' = Rests("startResend")
      /\ pc'["resend"] = pc["resend"]
  BY <1>1, Sets DEF Busy, Rests
<1>5. Sending'
  BY <1>c, <1>d, <1>1, <1>2, <1>3, <1>4, SendingKept, Sets DEF Callers, control
<1>6. \A n \in Nat : Sent(n) => Sent(n)'
  BY <1>a, <1>d, <1>2, <1>4 DEF Sent, shared
<1>7. CASE Sleeping
  BY <1>7, <1>a, <1>d, <1>4, <1>5, <1>6 DEF Phase, Sleeping, control
<1>8. CASE Last
  BY <1>8, <1>a, <1>4, <1>5, <1>6 DEF Phase, Last
<1> QED
  BY <1>b, <1>7, <1>8

\* The resend thread that was told to stop ends; whatever goes on is not disturbed.
LEMMA WakeStopped ==
  ASSUME IInv, Wake, stop
  PROVE  Phase'
<1>a. /\ pc \in [Threads -> Labels] /\ ~Crashed /\ pc["resend"] = "Sleep" /\ ~Rests("resend")
  BY DEF IInv, TypeInv, TypeOK, Wake, At, Rests
<1>b. pc'["resend"] = "Done" /\ \A u \in Threads \ {"resend"} : pc'[u] = pc[u]
  BY <1>a, Sets DEF Wake, Goto
<1>c. UNCHANGED <<shared, control, owner, held, secondPop, radio>>
  BY DEF Wake
<1>d. /\ \A u \in Threads \ {"resend"} : Rests(u)' = Rests(u)
      /\ Rests("resend")' /\ Busy' = Busy /\ (Quiet => Quiet') /\ Live' = Live
      /\ Front1' = Front1 /\ Front2' = Front2 /\ Back1' = Back1 /\ (NoPusher => NoPusher')
  BY <1>b, <1>c, Sets
  DEF Rests, Busy, Quiet, Live, Front1, Front2, Back1, NoPusher, Outside, shared, control
<1>e. /\ \A k : Turn(k) => Turn(k)'
      /\ \A k : NewTurn(k) => NewTurn(k)'
      /\ Ahead => Ahead'
  BY <1>c DEF Turn, NewTurn, Ahead, shared, radio
<1>1. CASE Waiting \/ Going \/ Popped
  <2>1. Free => Free'
    BY <1>c, <1>d DEF Free, shared, radio
  <2> QED
    BY <1>1, <2>1, <1>b, <1>c, <1>e, Sets DEF Phase, Waiting, Going, Popped, shared, radio
<1>2. ASSUME NEW t \in Pushers, Looking(t) \/ Found(t) \/ Loaded(t) \/ Launched(t)
      PROVE  Phase'
  <2>1. Pushing(t)' /\ pc'[t] = pc[t] /\ t \in Threads /\ t # "resend"
    BY <1>2, <1>b, <1>c, PushingIdle, PushingKept, Sets DEF Pushers, shared, control, radio
  <2>2. CASE Looking(t)
    <3>1. Looking(t)'
      BY <2>1, <2>2, <1>b, <1>c, <1>d, <1>e, Sets DEF Looking, shared
    <3> QED
      BY <3>1 DEF Phase
  <2>3. CASE Found(t)
    <3>1. Found(t)'
      BY <2>1, <2>3, <1>c, <1>d, <1>e DEF Found, NewTurn, Turn, shared, radio
    <3> QED
      BY <3>1 DEF Phase
  <2>4. CASE Loaded(t)
    <3>1. Loaded(t)'
      BY <2>1, <2>4, <1>c, <1>d, <1>e DEF Loaded, NewTurn, Turn, shared, control, radio
    <3> QED
      BY <3>1 DEF Phase
  <2>5. CASE Launched(t)
    <3>1. Launched(t)'
      BY <2>1, <2>5, <1>a, <1>c, <1>d, <1>e DEF Launched, NewTurn, Turn, shared, control, radio
    <3> QED
      BY <3>1 DEF Phase
  <2> QED
    BY <1>2, <2>2, <2>3, <2>4, <2>5
<1>3. ~(Sleeping \/ Repeating \/ Counting \/ Restarting \/ Rearming \/ Last)
  BY <1>a DEF Sleeping, Repeating, Counting, Restarting, Rearming, Last
<1>4. CASE FirstPop \/ SecondPop
  <2>1. Answered => Answered'
    BY <1>c, <1>d, Sets DEF Answered, Turn, shared, radio
  <2> QED
    BY <1>4, <2>1, <1>b, <1>c, <1>d, Sets DEF Phase, FirstPop, SecondPop, shared
<1>5. ~Gone /\ ~Dead
  BY <1>a, Sets DEF Gone, Dead, Crashed
<1> QED
  BY <1>1, <1>2, <1>3, <1>4, <1>5 DEF IInv, Phase

\* The resend thread wakes when the device has not answered in time.
LEMMA WakeStep ==
  ASSUME Prompt, Timely, IInv, Wake
  PROVE  Phase'
<1>a. /\ pc \in [Threads -> Labels] /\ ~Crashed /\ pc["resend"] = "Sleep"
  BY DEF IInv, TypeInv, TypeOK, Wake, At
<1> SUFFICES ASSUME ~stop PROVE Phase'
  BY WakeStopped
<1>1. TimePasses /\ air = 0 /\ pc["send"] # "Transmit"
  BY DEF Wake
<1>2. Sleeping /\ pc["send"] # "Send"
  BY <1>1, <1>a, Calm, Sets DEF IInv, Waiting, Free, Quiet, Last, Gone, Rests
<1>3. pc'["resend"] = "ReadFront" /\ \A u \in Threads \ {"resend"} : pc'[u] = pc[u]
  BY <1>a, Sets DEF Wake, Goto
<1>4. UNCHANGED <<shared, control, held, radio>>
  BY DEF Wake
<1>5. Sending /\ ~Busy /\ Rests("send") /\ Rests("startResend") /\ Sent(resendCounter)
  BY <1>1, <1>2 DEF Sleeping, Sending, Busy
<1>6. ~Busy' /\ Rests("send")' /\ Rests("startResend")'
  BY <1>3, <1>5, Sets DEF Busy, Rests
<1>7. Sending'
  BY <1>1, <1>3, <1>4, <1>5, <1>6, SendingKept, Sets
  DEF Sending, Turn, Callers, shared, control, radio
<1>8. Repeating'
  BY <1>1, <1>3, <1>4, <1>5, <1>6, <1>7 DEF Repeating, Sent, shared, control, radio
<1> QED
  BY <1>8 DEF Phase

LEMMA RepeatSteps ==
  ASSUME IInv, ReadFront \/ ResendSendLock \/ ResendSendJoin
  PROVE  Phase'
<1>a. /\ pc \in [Threads -> Labels] /\ held \in [Threads -> Nat] /\ ~Crashed
      /\ resendCounter \in Nat
  BY DEF IInv, TypeInv, TypeOK, ReadFront, ResendSendLock, ResendSendJoin, At
<1>b. Repeating
  BY <1>a, ResendPhase DEF IInv, ReadFront, ResendSendLock, ResendSendJoin, At
<1>c. /\ Sending /\ ~Busy /\ Rests("send") /\ Rests("startResend") /\ ~stop /\ ~disposing
      /\ air = 0 /\ queue = Front2 /\ tries[pendingQueueID] = resendCounter + 1
  BY <1>b DEF Repeating, Sending, Live, Sent, Busy, Rests
<1>d. UNCHANGED <<shared, control, radio>>
  BY DEF ReadFront, ResendSendLock, ResendSendJoin
<1>e. Turn(pendingQueueID)'
  BY <1>c, <1>d DEF Sending, Turn, shared, radio
<1>1. CASE ReadFront
  <2>1. queue # <<>> /\ Head(queue) = Packet(pendingQueueID)
    BY <1>c DEF Front2
  <2>2. Head(queue).type = "PACKET" /\ Head(queue).id = pendingQueueID
    BY <2>1 DEF Packet
  <2>3. /\ pc'["resend"] = "SendLock" /\ \A u \in Threads \ {"resend"} : pc'[u] = pc[u]
        /\ held'["resend"] = pendingQueueID
    BY <1>1, <1>a, <1>c, <2>1, <2>2, Sets DEF ReadFront, Goto
  <2>4. ~Busy' /\ Rests("send")' /\ Rests("startResend")'
    BY <1>c, <2>3, Sets DEF Busy, Rests
  <2>5. Sending'
    BY <1>c, <1>d, <1>e, <2>3, <2>4, SendingKept, Sets DEF Callers, shared, control, radio
  <2>6. Repeating'
    BY <1>c, <1>d, <2>3, <2>4, <2>5 DEF Repeating, Sent, shared, control, radio
  <2> QED
    BY <2>6 DEF Phase
<1>2. CASE ResendSendLock
  <2>1. /\ pc'["resend"] = "SendJoin" /\ \A u \in Threads \ {"resend"} : pc'[u] = pc[u]
        /\ held'["resend"] = pendingQueueID
    BY <1>2, <1>a, <1>b, Sets DEF ResendSendLock, Goto, At, Repeating
  <2>2. ~Busy' /\ Rests("send")' /\ Rests("startResend")'
    BY <1>c, <2>1, Sets DEF Busy, Rests
  <2>3. Sending'
    BY <1>c, <1>d, <1>e, <2>1, <2>2, SendingKept, Sets DEF Callers, shared, control, radio
  <2>4. Repeating'
    BY <1>c, <1>d, <2>1, <2>2, <2>3 DEF Repeating, Sent, shared, control, radio
  <2> QED
    BY <2>4 DEF Phase
<1>3. CASE ResendSendJoin
  <2>1. /\ pc'["resend"] = "Count" /\ pc'["send"] = "Send"
        /\ \A u \in Threads \ {"resend", "send"} : pc'[u] = pc[u]
        /\ held'["send"] = pendingQueueID
    BY <1>3, <1>a, <1>b, <1>c, Sets DEF ResendSendJoin, Start, At, Repeating
  <2>2. Busy' /\ Rests("startResend")'
    BY <1>c, <2>1, Sets DEF Busy, Rests
  <2>3. Sending'
    BY <1>c, <1>d, <1>e, <2>1, <2>2, SendingKept, Sets DEF Callers, shared, control, radio
  <2>4. Counting'
    BY <1>a, <1>c, <1>d, <2>1, <2>2, <2>3 DEF Counting, Sent, shared, control, radio
  <2> QED
    BY <2>4 DEF Phase
<1> QED
  BY <1>1, <1>2, <1>3

LEMMA CountSteps ==
  ASSUME IInv, Count \/ RestartLock \/ RestartJoin
  PROVE  Phase'
<1>a. /\ pc \in [Threads -> Labels] /\ held \in [Threads -> Nat] /\ ~Crashed
      /\ resendCounter \in 0..(Retries - 2) /\ Retries \in Nat
  BY QueueAssumption DEF IInv, TypeInv, TypeOK, Count, CountTo, RestartLock, RestartJoin, At
<1>b. UNCHANGED <<shared, stop, disposing, held, radio>>
  BY DEF Count, CountTo, RestartLock, RestartJoin, control
<1>c. (Counting \/ Restarting) => Sending /\ Busy /\ Rests("startResend") /\ ~stop /\ ~disposing
  BY DEF Counting, Restarting, Sending, Live
<1>1. CASE Count
  <2>1. Counting
    BY <1>1, <1>a, ResendPhase DEF IInv, Count, CountTo, At
  <2>2. tries[pendingQueueID] = resendCounter + 1
    BY <2>1 DEF Counting, Sent
  <2>3. \A u \in Threads \ {"resend"} : pc'[u] = pc[u]
    BY <1>1, <1>a DEF Count, CountTo, Goto
  <2>4. Busy' /\ Rests("startResend")'
    BY <1>c, <2>1, <2>3, Sets DEF Busy, Rests
  <2>5. Sending'
    BY <1>b, <1>c, <2>1, <2>3, <2>4, SendingKept, Sets DEF Sending, Turn, Callers, Busy, Rests, shared, radio
  <2>6. CASE resendCounter < Retries - 2
    <3>1. pc'["resend"] = "RestartLock" /\ resendCounter' = resendCounter + 1
      BY <1>1, <1>a, <1>c, <2>1, <2>6, Sets DEF Count, CountTo, Goto
    <3>2. Restarting'
      BY <1>b, <1>c, <2>1, <2>2, <2>4, <2>5, <3>1 DEF Restarting, Sent, shared, radio
    <3> QED
      BY <3>2 DEF Phase
  <2>7. CASE ~(resendCounter < Retries - 2)
    <3>1. pc'["resend"] = "Done" /\ resendCounter + 1 = Retries - 1
      BY <1>1, <1>a, <1>c, <2>1, <2>7, Sets DEF Count, CountTo, Goto
    <3>2. Last'
      BY <1>b, <2>2, <2>4, <2>5, <3>1 DEF Last, Sent, Rests, shared, radio
    <3> QED
      BY <3>2 DEF Phase
  <2> QED
    BY <2>6, <2>7
<1>2. CASE RestartLock \/ RestartJoin
  <2>1. Restarting
    BY <1>2, <1>a, ResendPhase DEF IInv, RestartLock, RestartJoin, At
  <2>2. tries[pendingQueueID] = resendCounter /\ resendCounter' = resendCounter
    BY <1>2, <2>1 DEF Restarting, Sent, RestartLock, RestartJoin, control
  <2>3. /\ \A u \in Threads \ {"resend", "startResend"} : pc'[u] = pc[u]
        /\ \/ pc'["resend"] = "RestartJoin" /\ pc'["startResend"] = pc["startResend"]
           \/ pc'["resend"] = "Done" /\ pc'["startResend"] = "FrontRead"
    BY <1>2, <1>a, <1>c, <2>1, Sets DEF RestartLock, RestartJoin, Goto, Start
  <2>4. Busy'
    BY <1>c, <2>1, <2>3, Sets DEF Busy
  <2>5. Sending'
    BY <1>b, <1>c, <2>1, <2>3, <2>4, SendingKept, Sets DEF Sending, Turn, Callers, Busy, Rests, shared, radio
  <2>6. Restarting' \/ Rearming'
    BY <1>b, <1>c, <2>1, <2>2, <2>3, <2>4, <2>5 DEF Restarting, Rearming, Sent, Rests, shared, radio
  <2> QED
    BY <2>6 DEF Phase
<1> QED
  BY <1>1, <1>2

LEMMA StartResendStep ==
  ASSUME IInv, StartResend
  PROVE  Phase'
<1>a. /\ pc \in [Threads -> Labels] /\ ~Crashed /\ resendCounter \in Nat
      /\ pc["startResend"] \in {"FrontRead", "ResendLock", "ResendJoin"}
  BY DEF IInv, TypeInv, TypeOK, StartResend, FrontRead, ResendLock, ResendJoin, At
<1>b. Rearming
  BY <1>a, StartResendPhase DEF IInv, Rests
<1>c. /\ Sending /\ Busy /\ Rests("resend") /\ ~disposing /\ air = 0 /\ queue = Front2
      /\ tries[pendingQueueID] = resendCounter
  BY <1>b DEF Rearming, Sending, Live, Sent, Busy, Rests
<1>d. UNCHANGED <<shared, resendCounter, disposing, held, radio>>
  BY DEF StartResend, FrontRead, ResendLock, ResendJoin, control
<1>e. queue # <<>> /\ Head(queue).type = "PACKET"
  BY <1>c DEF Front2, Packet
<1>1. /\ \A u \in Threads \ {"startResend", "resend"} : pc'[u] = pc[u]
      /\ \/ /\ pc'["startResend"] \in {"ResendLock", "ResendJoin"}
            /\ pc'["resend"] = pc["resend"]
         \/ pc'["startResend"] = "Done" /\ pc'["resend"] = "Sleep" /\ ~stop'
  BY <1>a, <1>c, <1>e, Sets DEF StartResend, FrontRead, ResendLock, ResendJoin, Goto, Start, AfterStart, Pushers
<1>2. Busy'
  BY <1>c, <1>1, Sets DEF Busy
<1>3. Sending'
  BY <1>c, <1>d, <1>1, <1>2, SendingKept, Sets DEF Sending, Turn, Callers, shared, radio
<1>4. Rearming' \/ Sleeping'
  BY <1>c, <1>d, <1>1, <1>2, <1>3 DEF Rearming, Sleeping, Sent, Rests, shared, radio
<1> QED
  BY <1>4 DEF Phase

-----------------------------------------------------------------------------
(* The phases, step by step: the listener and the disposal                   *)

LEMMA AnsweredKept ==
  ASSUME Answered, \A u \in Threads \ {"listener"} : pc'[u] = pc[u],
         UNCHANGED <<pending, currentID, attached, working, pendingQueueID, disposing, radio>>
  PROVE  Answered'
  BY Sets DEF Answered, Live, NoPusher, Outside, Rests, Turn, radio

LEMMA ReceiveStep ==
  ASSUME Prompt, IInv, ReceiveAck
  PROVE  Phase'
<1>a. /\ pc \in [Threads -> Labels] /\ ~Crashed /\ TimePasses /\ air > 0 /\ air' = air - 1
      /\ air \in Nat
  BY QueueAssumption DEF IInv, TypeInv, TypeOK, ReceiveAck, At
<1>b. UNCHANGED <<shared, control, held, secondPop, acks, delivered, tries>>
  BY DEF ReceiveAck
<1>1. Sleeping \/ Last
  BY <1>a, Calm DEF IInv, Waiting, Free, Gone
<1>2. Sending /\ pc["reset"] = "Idle" /\ air = 1 /\ Rests("send") /\ pendingQueueID \in delivered
  BY <1>a, <1>1, SendingIdle DEF Sending
<1>3. /\ Rests("startResend") /\ (Rests("resend") \/ pc["resend"] = "Sleep")
      /\ Turn(pendingQueueID) /\ NoPusher /\ Live /\ attached /\ working /\ queue = Front2
  BY <1>1, <1>2 DEF Sleeping, Last, Sending
<1>4. At("reset", "Idle")
  BY <1>a, <1>2 DEF At, WaitsFor, MutexAt, JoinAt, NoThread
<1>5. pc'["listener"] = "CheckAccess" /\ \A u \in Threads \ {"listener"} : pc'[u] = pc[u]
  BY <1>a, <1>4, Sets DEF ReceiveAck, Goto
<1>6. Answered'
  BY <1>a, <1>b, <1>2, <1>3, <1>5, Sets
  DEF Answered, Live, NoPusher, Outside, Rests, Turn, shared, control
<1>7. FirstPop'
  BY <1>b, <1>3, <1>5, <1>6 DEF FirstPop, Front2, shared
<1> QED
  BY <1>7 DEF Phase

LEMMA FirstPopSteps ==
  ASSUME IInv, ~Crashed, FirstPop, CheckAccess \/ Pop \/ PopFront
  PROVE  Phase'
<1>a. /\ pc \in [Threads -> Labels] /\ Answered /\ queue = Front2
      /\ UNCHANGED <<pending, currentID, attached, working, pendingQueueID, disposing, radio>>
  BY DEF IInv, TypeInv, TypeOK, FirstPop, CheckAccess, Pop, PopFront, shared, control
<1>b. queue # <<>> /\ Head(queue).type = "PACKET" /\ Tail(queue) = Back1
  BY <1>a DEF Front2, Packet, Back1
<1>1. CASE CheckAccess
  <2>1. /\ pc'["listener"] = "Pop" /\ \A u \in Threads \ {"listener"} : pc'[u] = pc[u]
        /\ ~secondPop' /\ queue' = queue
    BY <1>1, <1>a, <1>b, Sets DEF CheckAccess, Goto, shared
  <2>2. FirstPop'
    BY <1>a, <2>1, AnsweredKept DEF FirstPop, Front2
  <2> QED
    BY <2>2 DEF Phase
<1>2. CASE Pop
  <2>1. /\ pc'["listener"] = "PopFront" /\ \A u \in Threads \ {"listener"} : pc'[u] = pc[u]
        /\ ~secondPop' /\ queue' = queue /\ stop' = (stop \/ pc["resend"] # "Idle")
    BY <1>2, <1>a, Sets DEF Pop, Goto, At, FirstPop, shared
  <2>2. Quiet'
    BY <1>a, <2>1, Sets DEF Answered, Quiet, Rests
  <2>3. FirstPop'
    BY <1>a, <2>1, <2>2, AnsweredKept DEF FirstPop, Front2
  <2> QED
    BY <2>3 DEF Phase
<1>3. CASE PopFront
  <2>1. /\ pc'["listener"] = "NextEntry" /\ \A u \in Threads \ {"listener"} : pc'[u] = pc[u]
        /\ ~secondPop' /\ queue' = Back1 /\ UNCHANGED stop
    BY <1>3, <1>a, <1>b, Sets DEF PopFront, Goto, At, FirstPop, control
  <2>2. Quiet'
    BY <1>3, <2>1, QuietKept DEF FirstPop, PopFront, At
  <2>3. SecondPop'
    BY <1>a, <2>1, <2>2, AnsweredKept DEF SecondPop, Back1
  <2> QED
    BY <2>3 DEF Phase
<1> QED
  BY <1>1, <1>2, <1>3

LEMMA SecondPopSteps ==
  ASSUME IInv, ~Crashed, SecondPop, NextEntry \/ CheckMessage \/ HandleAck \/ Pop \/ PopFront
  PROVE  Phase'
<1>a. /\ pc \in [Threads -> Labels] /\ Answered /\ queue = Back1 /\ Quiet
      /\ pc["reset"] = "Idle" /\ ~disposing
  BY DEF IInv, TypeInv, TypeOK, SecondPop, Answered, Live
<1>b. queue # <<>> /\ Head(queue).type = "MESSAGE" /\ Tail(queue) = <<>>
  BY <1>a DEF Message, Back1
<1>1. CASE NextEntry
  <2>1. /\ pc'["listener"] = "CheckMessage" /\ \A u \in Threads \ {"listener"} : pc'[u] = pc[u]
        /\ ~secondPop /\ UNCHANGED <<pending, stop>>
    BY <1>1, <1>a, <1>b, Sets DEF NextEntry, Goto, AfterPop, At, SecondPop
  <2>2. UNCHANGED <<queue, currentID, attached, working, pendingQueueID, disposing, secondPop, radio>>
    BY <1>1 DEF NextEntry
  <2>3. SecondPop'
    BY <1>a, <2>1, <2>2, AnsweredKept, QuietKept DEF SecondPop, Back1
  <2> QED
    BY <2>3 DEF Phase
<1>2. CASE CheckMessage
  <2>1. /\ pc'["listener"] = "HandleAck" /\ \A u \in Threads \ {"listener"} : pc'[u] = pc[u]
        /\ ~secondPop /\ UNCHANGED <<shared, control, secondPop, radio>>
    BY <1>2, <1>a, <1>b, Sets DEF CheckMessage, Goto, At, SecondPop
  <2>2. SecondPop'
    BY <1>a, <2>1, AnsweredKept, QuietKept DEF SecondPop, Back1, shared, control
  <2> QED
    BY <2>2 DEF Phase
<1>3. CASE HandleAck
  <2>1. At("reset", "Idle")
    BY <1>a DEF At, WaitsFor, MutexAt, JoinAt, NoThread
  <2>2. /\ pc'["listener"] = "Pop" /\ \A u \in Threads \ {"listener"} : pc'[u] = pc[u]
        /\ secondPop' /\ UNCHANGED <<shared, control, radio>>
    BY <1>3, <1>a, <2>1, Sets DEF HandleAck, Goto
  <2>3. SecondPop'
    BY <1>a, <2>2, AnsweredKept, QuietKept DEF SecondPop, Back1, shared, control
  <2> QED
    BY <2>3 DEF Phase
<1>4. CASE Pop
  <2>1. /\ pc'["listener"] = "PopFront" /\ \A u \in Threads \ {"listener"} : pc'[u] = pc[u]
        /\ secondPop' /\ UNCHANGED <<shared, disposing, radio>>
        /\ stop' = (stop \/ pc["resend"] # "Idle")
    BY <1>4, <1>a, Sets DEF Pop, Goto, At, SecondPop
  <2>2. Quiet'
    BY <1>a, <2>1, Sets DEF Quiet, Rests
  <2>3. SecondPop'
    BY <1>a, <2>1, <2>2, AnsweredKept DEF SecondPop, Back1, shared
  <2> QED
    BY <2>3 DEF Phase
<1>5. CASE PopFront
  <2>1. /\ pc'["listener"] = "NextEntry" /\ \A u \in Threads \ {"listener"} : pc'[u] = pc[u]
        /\ secondPop' /\ queue' = <<>>
        /\ UNCHANGED <<pending, currentID, attached, working, pendingQueueID, control, radio>>
    BY <1>5, <1>a, <1>b, Sets DEF PopFront, Goto, At, SecondPop
  <2>2. Answered' /\ Quiet'
    BY <1>a, <2>1, AnsweredKept, QuietKept DEF control
  <2>3. Popped'
    BY <2>1, <2>2 DEF Popped, Free, Answered
  <2> QED
    BY <2>3 DEF Phase
<1> QED
  BY <1>1, <1>2, <1>3, <1>4, <1>5

\* The end of a pending queue: what is left of the list is ahead of no packet
\* the device has got.
LEMMA PoppedStep ==
  ASSUME IInv, Popped, NextEntry
  PROVE  Phase'
<1>a. /\ pc \in [Threads -> Labels] /\ pending \subseteq Nat /\ delivered \subseteq Nat
      /\ ~disposing /\ queue = <<>> /\ Quiet /\ NoPusher /\ pendingQueueID \in Nat
  BY IdsNat DEF IInv, TypeInv, TypeOK, Popped, Free, Live
<1>1. /\ pc'["listener"] \in {"NextPushLock", "NextReset"}
      /\ \A u \in Threads \ {"listener"} : pc'[u] = pc[u]
      /\ stop => stop'
      /\ pending' = IF Finished THEN {i \in pending : ~IsFront(i)} ELSE pending
  BY <1>a, Sets DEF NextEntry, Goto
<1>2. UNCHANGED <<queue, currentID, attached, working, pendingQueueID, disposing, secondPop, radio>>
  BY DEF NextEntry
<1>3. Ahead'
  <2>1. pendingQueueID \notin pending'
    BY <1>a, <1>1 DEF Popped, Turn, Finished, IsFront
  <2>2. \A j \in pending' : j \in Nat /\ pendingQueueID < j
    BY <1>a, <1>1, <2>1 DEF Popped, Turn
  <2>3. \A d \in delivered : d <= pendingQueueID
    BY DEF Popped, Turn
  <2> QED
    BY <1>a, <1>2, <2>2, <2>3 DEF Ahead, radio
<1>4. Free'
  BY <1>1, <1>2, Sets DEF Popped, Free, Live, NoPusher, Outside, Rests, Quiet, radio
<1>5. Going'
  BY <1>1, <1>2, <1>3, <1>4 DEF Going, Popped
<1> QED
  BY <1>5 DEF Phase

LEMMA GoingSteps ==
  ASSUME IInv, Going, NextReset \/ NextPushLock \/ NextPushJoin
  PROVE  Phase'
<1>a. /\ pc \in [Threads -> Labels] /\ ~disposing /\ secondPop /\ attached /\ Free /\ Ahead
  BY DEF IInv, TypeInv, TypeOK, Going, Free, Live
<1>1. CASE NextReset
  <2>1. /\ pc'["listener"] = "Idle" /\ \A u \in Threads \ {"listener"} : pc'[u] = pc[u]
        /\ ~attached' /\ UNCHANGED <<queue, pending, control, radio>>
    BY <1>1, <1>a, Sets DEF NextReset, Goto, AfterPop
  <2>2. Waiting'
    BY <1>a, <2>1, Sets
    DEF Waiting, Free, Live, NoPusher, Outside, Rests, Quiet, Ahead, control, radio
  <2> QED
    BY <2>2 DEF Phase
<1>2. CASE NextPushLock
  <2>1. /\ pc'["listener"] = "NextPushJoin" /\ \A u \in Threads \ {"listener"} : pc'[u] = pc[u]
        /\ UNCHANGED <<shared, secondPop, control, radio>>
    BY <1>2, <1>a, Sets DEF NextPushLock, Goto
  <2>2. Going'
    BY <1>a, <2>1, Sets
    DEF Going, Free, Live, NoPusher, Outside, Rests, Quiet, Ahead, shared, control, radio
  <2> QED
    BY <2>2 DEF Phase
<1>3. CASE NextPushJoin
  <2>1. /\ pc'["listener"] = "Idle" /\ pc'["pushPending"] = "Scan"
        /\ \A u \in Threads \ {"listener", "pushPending"} : pc'[u] = pc[u]
        /\ UNCHANGED <<shared, control, radio>>
    BY <1>3, <1>a, Sets DEF NextPushJoin, Start, AfterPop
  <2>2. Looking("pushPending")'
    BY <1>a, <2>1, Sets
    DEF Looking, Pushing, Alone, Free, Live, NoPusher, Outside, Rests, Quiet, Ahead, shared,
        control, radio
  <2> QED
    BY <2>2 DEF Phase, Pushers
<1> QED
  BY <1>1, <1>2, <1>3

LEMMA ListenerStep ==
  ASSUME Prompt, IInv, Listener
  PROVE  Phase'
<1>1. CASE ReceiveAck
  BY <1>1, ReceiveStep
<1>2. CASE ~ReceiveAck
  <2>1. /\ ~Crashed
        /\ pc["listener"] \in {"CheckAccess", "CheckMessage", "HandleAck", "Pop", "PopFront",
             "NextEntry", "NextReset", "NextPushLock", "NextPushJoin", "SendLock", "SendJoin",
             "FrontRead", "ResendLock", "ResendJoin"}
    BY <1>2 DEF Listener, StartStep, CheckAccess, CheckMessage, HandleAck, Pop, PopFront,
          NextEntry, NextReset, NextPushLock, NextPushJoin, SendLock, SendJoin, FrontRead,
          ResendLock, ResendJoin, At
  <2>2. Going \/ Popped \/ FirstPop \/ SecondPop
    BY <2>1, ListenerPhase DEF IInv
  <2>3. CASE Going
    <3>1. NextReset \/ NextPushLock \/ NextPushJoin
      BY <1>2, <2>3 DEF Listener, Going, StartStep, CheckAccess, CheckMessage, HandleAck, Pop,
            PopFront, NextEntry, SendLock, SendJoin, FrontRead, ResendLock, ResendJoin, At
    <3> QED
      BY <2>3, <3>1, GoingSteps
  <2>4. CASE Popped
    <3>1. NextEntry
      BY <1>2, <2>4 DEF Listener, Popped, StartStep, CheckAccess, CheckMessage, HandleAck, Pop,
            PopFront, NextReset, NextPushLock, NextPushJoin, SendLock, SendJoin, FrontRead,
            ResendLock, ResendJoin, At
    <3> QED
      BY <2>4, <3>1, PoppedStep
  <2>5. CASE FirstPop
    <3>1. CheckAccess \/ Pop \/ PopFront
      BY <1>2, <2>5 DEF Listener, FirstPop, StartStep, CheckMessage, HandleAck, NextEntry,
            NextReset, NextPushLock, NextPushJoin, SendLock, SendJoin, FrontRead, ResendLock,
            ResendJoin, At
    <3> QED
      BY <2>1, <2>5, <3>1, FirstPopSteps
  <2>6. CASE SecondPop
    <3>1. NextEntry \/ CheckMessage \/ HandleAck \/ Pop \/ PopFront
      BY <1>2, <2>6 DEF Listener, SecondPop, StartStep, CheckAccess, NextReset, NextPushLock,
            NextPushJoin, SendLock, SendJoin, FrontRead, ResendLock, ResendJoin, At
    <3> QED
      BY <2>1, <2>6, <3>1, SecondPopSteps
  <2> QED
    BY <2>2, <2>3, <2>4, <2>5, <2>6
<1> QED
  BY <1>1, <1>2

\* Where the disposal finds the queue: without anything to send, or with a
\* packet that was sent often enough.
LEMMA DisposePhase ==
  ASSUME Prompt, IInv, StartDispose
  PROVE  /\ Waiting \/ Last
         /\ \A w \in Workers : Rests(w)
         /\ pc["listener"] = "Idle" /\ air = 0 /\ ~disposing
<1>a. ~Crashed /\ TimePasses /\ pc["reset"] = "Idle"
  BY DEF StartDispose, At
<1>b. /\ Waiting \/ Sleeping \/ Last \/ Gone
      /\ pc["send"] # "Send" /\ ~(pc["resend"] = "Sleep" /\ stop)
  BY <1>a, Calm DEF IInv
<1>1. ~Gone
  BY <1>a DEF Gone
<1>2. CASE Waiting
  BY <1>2, <1>b, Sets DEF Waiting, Free, Quiet, Rests, NoPusher, Live
<1>3. CASE Sleeping \/ Last
  <2>1. Sending /\ pc["listener"] = "Idle" /\ queue # <<>> /\ ~disposing
    BY <1>3, SendingIdle DEF Sending, Front2, Live
  <2>2. Silent
    BY <2>1 DEF StartDispose, IsEmpty
  <2>3. pc["resend"] # "Sleep" /\ pc["send"] # "Transmit" /\ air = 0
    BY <2>2 DEF Silent
  <2>4. Last
    BY <1>3, <2>3 DEF Sleeping
  <2>5. Rests("send")
    BY <1>b, <2>1, <2>3 DEF Sending, Busy
  <2>6. Rests("resend") /\ Rests("startResend") /\ Rests("pushPending")
    BY <2>1, <2>4 DEF Last, Sending, NoPusher
  <2> QED
    BY <2>1, <2>3, <2>4, <2>5, <2>6, Sets
<1> QED
  BY <1>b, <1>1, <1>2, <1>3

LEMMA ResetStep ==
  ASSUME Prompt, IInv, Reset
  PROVE  Phase'
<1>a. pc \in [Threads -> Labels] /\ held \in [Threads -> Nat] /\ ~Crashed
  BY DEF IInv, TypeInv, TypeOK, Reset, StartDispose, DisposeLock, DisposeJoin, Clear, At
<1>1. CASE StartDispose
  <2>1. /\ \A w \in Workers : Rests(w)
        /\ pc["listener"] = "Idle" /\ air = 0
    BY <1>1, DisposePhase
  <2>2. pc["rpc"] \in {"Idle", "SetValuePush"}
    BY <1>1 DEF StartDispose, Unreferenced
  <2>3. pc'["reset"] = "DisposeLock" /\ \A u \in Threads \ {"reset"} : pc'[u] = pc[u]
    BY <1>1, <1>a, Sets DEF StartDispose, Goto
  <2>4. Gone'
    BY <1>1, <2>1, <2>2, <2>3, Sets DEF StartDispose, Gone, Rests, radio
  <2> QED
    BY <2>4 DEF Phase
<1>2. CASE DisposeLock \/ DisposeJoin \/ Clear
  <2>1. Gone
    BY <1>2, <1>a, ResetPhase DEF IInv, DisposeLock, DisposeJoin, Clear, At
  <2>2. /\ pc'["reset"] \in {"DisposeLock", "DisposeJoin", "Clear", "Disposed"}
        /\ \A u \in Threads \ {"reset"} : pc'[u] = pc[u] \/ (u \in Workers /\ pc'[u] = "Idle")
    <3>1. CASE DisposeLock \/ Clear
      BY <3>1, <1>a, Sets DEF DisposeLock, Clear, Goto
    <3>2. CASE DisposeJoin
      <4>1. held["reset"] \in 1..4
        BY <3>2 DEF DisposeJoin, At, IInv, DisposeInv
      <4>2. DisposeOrder[held["reset"]] \in Workers
        BY <4>1, Sets DEF DisposeOrder
      <4> QED
        BY <3>2, <4>2, <1>a, Sets DEF DisposeJoin
    <3> QED
      BY <1>2, <3>1, <3>2
  <2>3. disposing' = disposing /\ air' = air
    BY <1>2 DEF DisposeLock, DisposeJoin, Clear, control, radio
  <2>4. Gone'
    BY <2>1, <2>2, <2>3, Sets DEF Gone, Rests
  <2> QED
    BY <2>4 DEF Phase
<1> QED
  BY <1>1, <1>2 DEF Reset

LEMMA PhaseStep ==
  ASSUME Prompt, Timely, IInv, [Next]_vars
  PROVE  Phase'
<1>1. ASSUME NEW t \in Pushers, PushStep(t) \/ StartStep(t) PROVE Phase'
  BY <1>1, LookSteps, FoundSteps, LoadedSteps, LaunchedSteps DEF PushStep, StartStep
<1>2. CASE Rpc \/ PushPending
  BY <1>1, <1>2, CallStep, HandIn DEF Rpc, PushPending, Pushers
<1>3. CASE Listener \/ StartResend
  BY <1>3, ListenerStep, StartResendStep
<1>4. CASE SendThread \/ Resend
  BY <1>4, SendStep, TransmitStep, WakeStep, RepeatSteps, CountSteps DEF SendThread, Resend
<1>5. CASE Reset
  BY <1>5, ResetStep
<1>6. CASE UNCHANGED vars
  <2>1. UNCHANGED <<shared, control, owner, pc, held, secondPop, radio>>
    BY <1>6 DEF vars
  <2> QED
    BY <2>1 DEF IInv, Phase, Waiting, Going, Popped, Free, Looking, Found, Loaded, Launched,
          Pushing, Sleeping, Repeating, Counting, Restarting, Rearming, Last, Sending, Sent,
          Answered, FirstPop, SecondPop, Gone, Dead, Rests, Busy, Quiet, Outside, NoPusher,
          Alone, Live, Turn, NewTurn, Ahead, Front1, Front2, Back1, shared, control, radio
<1> QED
  BY <1>2, <1>3, <1>4, <1>5, <1>6 DEF Next

-----------------------------------------------------------------------------
(* Prompt threads, timely answers                                            *)

LEMMA QueueInvariant ==
  ASSUME Prompt, Timely
  PROVE  Spec => []IInv
<1>1. Init => TypeInv /\ DisposeInv
  BY InitTypes, InitDispose
<1>2. Init => Phase /\ Owners /\ Calls /\ Known /\ Tried
  <2> SUFFICES ASSUME Init PROVE Phase /\ Owners /\ Calls /\ Known /\ Tried
    OBVIOUS
  <2>1. Waiting
    BY Sets DEF Init, Waiting, Free, Live, NoPusher, Outside, Rests, Quiet, Ahead
  <2>2. Owners
    BY Sets DEF Init, Owners
  <2>3. Calls /\ Known
    BY Sets DEF Init, Calls, Known
  <2>4. Tried
    BY QueueAssumption DEF Init, Tried
  <2> QED
    BY <2>1, <2>2, <2>3, <2>4 DEF Phase
<1>3. IInv /\ [Next]_vars => TypeInv' /\ DisposeInv'
  BY TypeStep, DisposeStep DEF IInv
<1>4. IInv /\ [Next]_vars => Phase' /\ Owners' /\ Calls' /\ Known' /\ Tried'
  BY PhaseStep, OwnersStep, CallsStep, KnownStep, TriedStep DEF IInv
<1>5. Init => IInv
  BY <1>1, <1>2 DEF IInv
<1>6. IInv /\ [Next]_vars => IInv'
  BY <1>3, <1>4 DEF IInv
<1> QED
  BY <1>5, <1>6, PTL DEF Spec

\* With prompt threads and timely answers every mutex is given back: the
\* acknowledgement never leaves a message in front of a waking resend thread.
THEOREM MutexesReturn ==
  ASSUME Prompt, Timely
  PROVE  Spec => []NoLeak
<1>1. IInv => NoLeak
  BY DEF IInv, Owners, HoldsAt, NoLeak, Running
<1> QED
  BY <1>1, QueueInvariant, PTL

\* The process dies in one way only: pushPendingQueue, started for the next
\* value, meets a call that has withdrawn the last one.
THEOREM DiesOneWay ==
  ASSUME Prompt, Timely
  PROVE  Spec => []NoCrash
<1>1. IInv => NoCrash
  <2> SUFFICES ASSUME IInv, Crashed PROVE Dead
    BY DEF NoCrash, Dead
  <2>1. PICK t \in Threads : pc[t] = "Crashed"
    BY DEF Crashed
  <2>2. ASSUME NEW u \in Pushers, Pushing(u), pc[u] # "Crashed", Rests("resend") \/ pc["resend"] = "Sleep",
               Rests("send") \/ Busy
        PROVE  FALSE
    BY <2>1, <2>2, Sets DEF Pushing, Alone, Outside, Rests, Live, Busy, Pushers
  <2>3. ASSUME NEW u \in Pushers, Looking(u) \/ Found(u) \/ Loaded(u) \/ Launched(u)
        PROVE  FALSE
    BY <2>2, <2>3 DEF Looking, Found, Loaded, Launched, Quiet
  <2>4. ~(Waiting \/ Going \/ Popped)
    BY <2>1, Sets DEF Waiting, Going, Popped, Free, Live, NoPusher, Outside, Rests, Quiet
  <2>5. ~(FirstPop \/ SecondPop)
    BY <2>1, Sets DEF FirstPop, SecondPop, Answered, Live, NoPusher, Outside, Rests
  <2>6. ~(Sleeping \/ Repeating \/ Counting \/ Restarting \/ Rearming \/ Last)
    <3> SUFFICES ASSUME Sending PROVE pc["resend"] = "Crashed" \/ pc["startResend"] = "Crashed"
      BY SendingIdle DEF Sleeping, Repeating, Counting, Restarting, Rearming, Last, Rests
    <3> QED
      BY <2>1, Sets DEF Sending, Live, NoPusher, Outside, Rests, Busy
  <2>7. ~Gone
    BY <2>1, Sets DEF Gone, Rests
  <2> QED
    BY <2>3, <2>4, <2>5, <2>6, <2>7 DEF IInv, Phase
<1> QED
  BY <1>1, QueueInvariant, PTL

\* No packet is transmitted more often than the number of retries allows.
THEOREM RetriesBounded ==
  ASSUME Prompt, Timely
  PROVE  Spec => []AtMostRetries
<1>1. IInv => AtMostRetries
  BY DEF IInv, Tried, AtMostRetries
<1> QED
  BY <1>1, QueueInvariant, PTL

\* What a transmission is of: the packet at work, which no waiting call precedes.
LEMMA Sends ==
  ASSUME Prompt, IInv, Transmit
  PROVE  /\ held["send"] = pendingQueueID /\ Turn(pendingQueueID)
         /\ tries' = [tries EXCEPT ![pendingQueueID] = @ + 1]
         /\ UNCHANGED <<pending, currentID>>
<1>1. Busy /\ ~Crashed
  BY DEF Transmit, At, Busy
<1> QED
  BY <1>1, OnAir DEF IInv, Transmit, shared

\* A packet goes on air only when no call made before it is still waiting.
THEOREM PacketsInOrder ==
  ASSUME Prompt, Timely
  PROVE  Spec => SentInOrder
<1>1. ASSUME IInv, [Next]_vars, NEW i \in Ids, tries'[i] > tries[i], NEW j \in 1..(i - 1), j \in pending
      PROVE  tries[j] > 0
  <2>a. i \in Nat
    BY IdsNat
  <2>b. j \in Nat /\ j < i
    BY <2>a
  <2>c. tries \in [Ids -> Nat]
    BY <1>1 DEF IInv, TypeInv, TypeOK
  <2>0. tries \in [Ids -> Nat] /\ i \in Nat /\ j \in Nat /\ j < i
    BY <2>a, <2>b, <2>c
  <2>1. Transmit
    <3>1. ~\E t \in Senders : SendJoin(t)
      BY <1>1, <2>0 DEF SendJoin
    <3>2. tries' # tries
      BY <1>1, <2>0
    <3> QED
      BY <1>1, <3>1, <3>2, TriesChange
  <2>2. Turn(pendingQueueID) /\ tries' = [tries EXCEPT ![pendingQueueID] = @ + 1]
    BY <1>1, <2>1, Sends
  <2>3. pendingQueueID \in Nat /\ (i # pendingQueueID => tries'[i] = tries[i])
    BY <2>0, <2>2, IdsNat DEF Turn
  <2>4. i = pendingQueueID
    BY <1>1, <2>0, <2>3
  <2> QED
    BY <1>1, <2>0, <2>2, <2>4 DEF Turn
<1>2. IInv /\ [Next]_vars =>
        [\A i \in Ids : tries'[i] > tries[i] =>
           \A j \in 1..(i - 1) : j \in pending => tries[j] > 0]_vars
  BY <1>1
<1> QED
  BY <1>2, QueueInvariant, PTL DEF Spec, SentInOrder

\* The only step that disposes the queue.
LEMMA Disposes ==
  ASSUME [Next]_vars, ~disposing, disposing'
  PROVE  StartDispose
<1> USE DEF control
<1>1. ~(Rpc \/ PushPending \/ StartResend)
  BY DEF Rpc, PushPending, StartResend, SetValueRemove, SetValuePush, Enqueue,
        PushPendingQueues, PushStep, StartStep, Scan, Deref, Front, Check, AddPacket, AddMessage,
        SetWorking, SendLock, SendJoin, FrontRead, ResendLock, ResendJoin
<1>2. ~Listener
  BY DEF Listener, ReceiveAck, CheckAccess, CheckMessage, HandleAck, Pop, PopFront,
        NextEntry, NextReset, NextPushLock, NextPushJoin, StartStep, SendLock, SendJoin,
        FrontRead, ResendLock, ResendJoin
<1>3. ~(SendThread \/ Resend \/ DisposeLock \/ DisposeJoin \/ Clear)
  BY DEF SendThread, Send, Transmit, Resend, Wake, ReadFront, ResendSendLock,
        ResendSendJoin, Count, CountTo, RestartLock, RestartJoin, DisposeLock, DisposeJoin, Clear
<1>4. ~UNCHANGED vars
  BY DEF vars
<1> QED
  BY <1>1, <1>2, <1>3, <1>4 DEF Next, Reset

\* A queue is given up only when it is empty and knows of nothing it was not
\* told to overlook, or when its packet was transmitted "retries" times.
THEOREM GivenUpLate ==
  ASSUME Prompt, Timely
  PROVE  Spec => GivenUpOnlyAfterRetries
<1>1. ASSUME IInv, [Next]_vars, ~disposing, disposing'
      PROVE  IF queue = <<>> THEN PendingEmpty \/ overlooked ELSE tries[Head(queue).id] = Retries
  <2>1. /\ Waiting \/ Last
        /\ \A w \in Workers : Rests(w)
    BY <1>1, Disposes, DisposePhase
  <2>2. CASE Waiting
    BY <2>2 DEF Waiting, Free, PendingEmpty
  <2>3. CASE Last
    <3>1. queue = Front2 /\ ~Busy
      BY <2>1, <2>3, Sets DEF Last, Sending, Busy, Rests
    <3>2. queue # <<>> /\ Head(queue).id = pendingQueueID
      BY <3>1 DEF Front2, Packet
    <3>3. tries[pendingQueueID] = Retries - 1 + 1
      BY <2>3, <3>1 DEF Last, Sent
    <3> QED
      BY <3>2, <3>3, QueueAssumption
  <2> QED
    BY <2>1, <2>2, <2>3
<1>2. IInv /\ [Next]_vars =>
        [~disposing /\ disposing' =>
           IF queue = <<>> THEN PendingEmpty \/ overlooked
                           ELSE tries[Head(queue).id] = Retries]_vars
  BY <1>1
<1> QED
  BY <1>2, QueueInvariant, PTL DEF Spec, GivenUpOnlyAfterRetries

-----------------------------------------------------------------------------
(* The refinement of Delivery, step by step                                  *)

\* With prompt threads and timely answers the queue delivers first in, first
\* out, a newer value of a parameter withdraws the older one, and a value
\* leaves the peer only when the device has got it.
THEOREM QueueDelivers ==
  ASSUME Prompt, Timely
  PROVE  Spec => Promise
<1>0. DOMAIN ParamOf = Ids
  BY QueueAssumption DEF Ids
<1>1. Init => Abstract!Init
  BY DEF Init, Abstract!Init
<1>2. ASSUME IInv, [Next]_vars PROVE [Abstract!Next]_(Abstract!vars)
  <2>1. CASE UNCHANGED <<pending, currentID, delivered>>
    BY <2>1 DEF Abstract!vars
  <2>2. CASE SetValueRemove
    <3>1. Abstract!Supersede
      BY <1>0, <2>2 DEF SetValueRemove, Abstract!Supersede, radio
    <3> QED
      BY <3>1 DEF Abstract!Next
  <2>3. CASE SetValuePush
    <3>1. currentID \in Ids
      BY <1>2, <2>3 DEF SetValuePush, At, IInv, TypeInv, HeldOK
    <3>2. Abstract!Queue
      BY <1>0, <2>3, <3>1 DEF SetValuePush, Abstract!Queue, radio
    <3> QED
      BY <3>2 DEF Abstract!Next
  <2>4. CASE NextEntry
    <3>1. UNCHANGED <<currentID, delivered>>
      BY <2>4 DEF NextEntry, radio
    <3>2. CASE pending' = pending
      BY <3>1, <3>2 DEF Abstract!vars
    <3>3. CASE pending' # pending
      <4>1. PICK i \in pending \ pending' : i = pendingQueueID /\ i \in delivered /\ IsFront(i)
        BY <1>2, <2>4, <3>3, Rest
      <4>2. i \in Ids /\ pending' = pending \ {i}
        BY <1>2, <2>4, <4>1, Rest DEF IInv, TypeInv, TypeOK
      <4>3. Abstract!Confirm(i)
        BY <3>1, <4>1, <4>2 DEF Abstract!Confirm, IsFront
      <4> QED
        BY <1>0, <4>2, <4>3 DEF Abstract!Next
    <3> QED
      BY <3>2, <3>3
  <2>5. CASE Transmit
    <3>1. PICK k \in Ids : k = pendingQueueID
      BY <1>2, <2>5, Sends DEF Turn
    <3>2. Turn(k) /\ held["send"] = k /\ UNCHANGED <<pending, currentID>>
      BY <1>2, <2>5, <3>1, Sends
    <3>3. CASE delivered' = delivered
      BY <3>2, <3>3 DEF Abstract!vars
    <3>4. CASE delivered' # delivered
      <4>1. delivered' = delivered \union {k} /\ k \notin delivered
        BY <2>5, <3>2, <3>4 DEF Transmit
      <4>2. \A d \in delivered : d \in Nat /\ d < k
        BY <1>2, <3>2, <4>1, IdsNat DEF Turn, IInv, TypeInv, TypeOK
      <4>3. \A j \in pending : ~(j < k)
        BY <1>2, <3>2, IdsNat DEF Turn, IInv, TypeInv, TypeOK
      <4>4. Abstract!Receive(k)
        BY <3>2, <4>1, <4>2, <4>3 DEF Abstract!Receive, Turn
      <4> QED
        BY <1>0, <4>4 DEF Abstract!Next
    <3> QED
      BY <3>3, <3>4
  <2> QED
    BY <1>2, <2>1, <2>2, <2>3, <2>4, <2>5, ListEffects DEF IInv
<1>3. IInv /\ [Next]_vars => [Abstract!Next]_(Abstract!vars)
  BY <1>2
<1> QED
  BY <1>1, <1>3, QueueInvariant, PTL DEF Spec, Promise, Abstract!Spec
=============================================================================
