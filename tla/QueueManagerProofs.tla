-------------------------- MODULE QueueManagerProofs --------------------------
(* Proofs about QueueManager for every set of devices, every bound on the    *)
(* queues created and on the polls, with prompt threads or without.          *)
EXTENDS QueueManager, TLAPS

-----------------------------------------------------------------------------
(* Type correctness                                                          *)

\* There is an id left for every call under way.
Room == nextID + InPath("rpc") + InPath("listener") + InPath("reset") <= MaxQueues + 1

TypeInv == TypeOK /\ Room


LEMMA PcType ==
  ASSUME pc \in [Threads -> Labels], [Next]_vars
  PROVE  pc' \in [Threads -> Labels]
<1> USE DEF Goto, Begin, End, After, Finish, Refused, Labels
<1>1. ASSUME NEW t \in Creators, Enqueuing(t)
      PROVE  pc' \in [Threads -> Labels]
  BY <1>1 DEF Enqueuing, EnqueueLock, Get, Create, WorkerLock, JoinWorker, Insert, Return, Push
<1>2. CASE Calls
  BY <1>2 DEF Calls, CallAck, CallEnqueue, CallCreate, CallConfigure, CallPair, Forget
<1>3. CASE Rpc
  BY <1>1, <1>3 DEF Rpc, Poll, PollWhile, PollEnd, Creators, Callers
<1>4. CASE Listener
  BY <1>1, <1>4 DEF Listener, GetAck, Pop, Creators, Callers
<1>5. CASE Worker
  BY <1>5 DEF Worker, Wake, Fetch, FetchUnless, JoinReset
<1>6. CASE Reset
  BY <1>1, <1>6 DEF Reset, ResetEarly, ResetNothing, ResetQueue, Unreach, Creators
<1>7. CASE Dispose \/ Destructor
  BY <1>7 DEF Dispose, Destructor, Destroy, DestroyWorker, DestroyJoin, JoinAndGoto, DestroyReset
<1>8. CASE (\E q \in Queues : Age(q)) \/ UNCHANGED vars
  BY <1>8 DEF Age, vars
<1> QED
  BY <1>2, <1>3, <1>4, <1>5, <1>6, <1>7, <1>8 DEF Next

LEMMA InsertRoom ==
  ASSUME pc \in [Threads -> Labels], nextID \in Nat \ {0}, Room, NEW t \in Creators, Insert(t)
  PROVE  Room' /\ nextID \in Queues /\ nextID' = nextID + 1
<1>1. nextID' = nextID + 1
  BY DEF Insert
<1>2. InPath(t) = 1 /\ InPath(t)' = 0 /\ \A s \in Creators \ {t} : InPath(s)' = InPath(s)
  BY DEF Insert, At, Goto, InPath, CreatePath, Creators, Callers, Threads
<1>3. \A s \in Creators : InPath(s) \in {0, 1}
  BY DEF InPath
<1>4. t \in {"rpc", "listener", "reset"}
  BY DEF Creators, Callers
<1>5. Room' /\ nextID <= MaxQueues
  BY <1>1, <1>2, <1>3, <1>4, ManagerAssumption DEF Room, Creators, Callers
<1>6. nextID # 0
  OBVIOUS
<1> QED
  BY <1>1, <1>5, ManagerAssumption DEF Queues

LEMMA RoomStep ==
  ASSUME pc \in [Threads -> Labels], nextID \in Nat \ {0}, Room, [Next]_vars
  PROVE  Room' /\ nextID' \in Nat \ {0} /\ (nextID' # nextID => nextID \in Queues /\ nextID' = nextID + 1)
<1> USE ManagerAssumption DEF Goto, Begin, End, After, Finish, Refused, InPath, CreatePath, Threads, Creators, Callers,
        Room, At, data, Queues
<1>1. ASSUME NEW t \in Creators, Enqueuing(t)
      PROVE  Room' /\ nextID' \in Nat \ {0} /\ (nextID' # nextID => nextID \in Queues /\ nextID' = nextID + 1)
  <2>1. CASE EnqueueLock(t)
    BY <2>1 DEF EnqueueLock
  <2>2. CASE Get(t)
    BY <2>2 DEF Get
  <2>3. CASE Create(t) \/ WorkerLock(t) \/ JoinWorker(t)
    BY <2>3 DEF Create, WorkerLock, JoinWorker
  <2>4. CASE Insert(t)
    BY <2>4, InsertRoom
  <2>5. CASE Return(t) \/ Push(t)
    BY <2>5 DEF Return, Push
  <2> QED
    BY <1>1, <2>1, <2>2, <2>3, <2>4, <2>5 DEF Enqueuing
<1>2. CASE Calls
  BY <1>2 DEF Calls, CallAck, CallEnqueue, CallCreate, CallConfigure, CallPair, Forget, Budget
<1>3. CASE Rpc
  BY <1>1, <1>3 DEF Rpc, Poll, PollWhile, PollEnd
<1>4. CASE Listener
  BY <1>1, <1>4 DEF Listener, GetAck, Pop
<1>5. CASE Worker
  BY <1>5 DEF Worker, Wake, Fetch, FetchUnless, JoinReset
<1>6. CASE Reset
  BY <1>1, <1>6 DEF Reset, ResetEarly, ResetNothing, ResetQueue, Unreach, Budget
<1>7. CASE Dispose \/ Destructor
  BY <1>7 DEF Dispose, Destructor, Destroy, DestroyWorker, DestroyJoin, JoinAndGoto, DestroyReset
<1>8. CASE (\E q \in Queues : Age(q)) \/ UNCHANGED vars
  BY <1>8 DEF Age, vars
<1> QED
  BY <1>2, <1>3, <1>4, <1>5, <1>6, <1>7, <1>8 DEF Next

\* The rest of TypeOK, by kind of step.

LEMMA FoundType ==
  ASSUME TypeOK
  PROVE  /\ \A t \in Threads : Found(t) \in Queues \union {NoQueue}
         /\ \A q : KeepAlive(q) => age' \in [Queues -> 0..2]
<1>1. \A t \in Threads : Found(t) \in Queues \union {NoQueue}
  BY DEF TypeOK, Found
<1>2. ASSUME NEW q, KeepAlive(q) PROVE age' \in [Queues -> 0..2]
  <2>1. \A q2 \in Queues : (IF q2 = q THEN 0 ELSE age[q2]) \in 0..2
    BY DEF TypeOK
  <2> QED
    BY <1>2, <2>1 DEF KeepAlive
<1> QED
  BY <1>1, <1>2

LEMMA EnqueuingType ==
  ASSUME TypeInv, NEW t \in Creators, Enqueuing(t), nextID' # nextID => nextID \in Queues,
         nextID' \in 1..(MaxQueues + 1), pc' \in [Threads -> Labels]
  PROVE  TypeOK'
<1> USE DEF TypeInv, TypeOK, data, flags, config, locals, mutexes, KindsOfCall, For, Finish, Refused
<1>1. CASE EnqueueLock(t)
  BY <1>1 DEF EnqueueLock
<1>2. CASE Get(t)
  BY <1>2, FoundType DEF Get, Take
<1>3. CASE Create(t)
  BY <1>3 DEF Create, Unlock
<1>4. CASE WorkerLock(t)
  BY <1>4 DEF WorkerLock, Unlock
<1>5. CASE JoinWorker(t)
  BY <1>5 DEF JoinWorker
<1>6. CASE Insert(t)
  <2>1. nextID' # nextID
    BY <1>6 DEF Insert
  <2>2. nextID \in Queues
    BY <2>1
  <2>3. queues' \in [Addresses -> Queues \union {NoQueue}] /\ job' \in [Threads -> Queues \union {NoQueue}]
    BY <1>6, <2>2 DEF Insert
  <2>4. empty' \in [Queues -> BOOLEAN] /\ age' \in [Queues -> 0..2]
    BY <1>6 DEF Insert
  <2> QED
    BY <1>6, <2>3, <2>4 DEF Insert
<1>7. CASE Push(t)
  BY <1>7 DEF Push, DropRef, Unlock
<1>8. CASE Return(t)
  BY <1>8 DEF Return, Creators, Threads
<1> QED
  BY <1>1, <1>2, <1>3, <1>4, <1>5, <1>6, <1>7, <1>8 DEF Enqueuing

LEMMA TypeInvariant == Spec => []TypeInv
<1>1. Init => TypeInv
  <2> SUFFICES ASSUME Init PROVE TypeInv
    OBVIOUS
  <2>1. TypeOK
    <3>1. nextID \in 1..(MaxQueues + 1) /\ polls \in 0..Polls /\ age \in [Queues -> 0..2]
      BY ManagerAssumption DEF Init
    <3> QED
      BY <3>1 DEF Init, TypeOK, Labels, KindsOfCall, Deliveries
  <2>2. Room
    BY ManagerAssumption DEF Init, Room, InPath, CreatePath, Threads, Creators, Callers
  <2> QED
    BY <2>1, <2>2 DEF TypeInv
<1>2. TypeInv /\ [Next]_vars => TypeInv'
  <2> SUFFICES ASSUME TypeInv, [Next]_vars PROVE TypeInv'
    OBVIOUS
  <2>1. pc' \in [Threads -> Labels]
    BY PcType DEF TypeInv, TypeOK
  <2>2. nextID \in Nat \ {0} /\ pc \in [Threads -> Labels]
    BY ManagerAssumption DEF TypeInv, TypeOK
  <2>3. Room' /\ nextID' \in Nat \ {0} /\ (nextID' # nextID => nextID \in Queues /\ nextID' = nextID + 1)
    BY <2>2, RoomStep DEF TypeInv
  <2>4. nextID' \in 1..(MaxQueues + 1)
    BY <2>3, ManagerAssumption DEF TypeInv, TypeOK, Queues
  <2>5. TypeOK'
    <3> USE <2>1, <2>3, <2>4 DEF TypeInv, TypeOK, data, flags, config, locals, mutexes
    <3>1. ASSUME NEW t \in Creators, Enqueuing(t)
          PROVE  TypeOK'
      <4> HIDE DEF TypeInv, TypeOK
      <4> QED
        BY <3>1, EnqueuingType
    <3>2. CASE Calls
      <4>1. CASE \E a \in Addresses : CallAck(a)
        <5>1. PICK a \in Addresses : CallAck(a)
          BY <4>1
        <5>2. addr' \in [Threads -> Addresses]
          BY <5>1 DEF CallAck, Begin
        <5> QED
          BY <5>1, <5>2 DEF CallAck, Begin
      <4>2. ASSUME NEW a \in Addresses, NEW t \in Callers, CallEnqueue(t, a)
            PROVE  TypeOK'
        <5>1. addr' \in [Threads -> Addresses] /\ call' \in [Threads -> KindsOfCall]
          BY <4>2 DEF CallEnqueue, Begin, For, KindsOfCall
        <5> QED
          BY <4>2, <5>1 DEF CallEnqueue
      <4>3. ASSUME NEW a \in Addresses, CallPair(a)
            PROVE  TypeOK'
        <5>1. addr' \in [Threads -> Addresses] /\ call' \in [Threads -> KindsOfCall]
          BY <4>3 DEF CallPair, Begin, For, KindsOfCall
        <5> QED
          BY <4>3, <5>1 DEF CallPair
      <4>4. ASSUME NEW a \in Addresses, CallConfigure(a)
            PROVE  TypeOK'
        <5>1. /\ addr' \in [Threads -> Addresses] /\ call' \in [Threads -> KindsOfCall]
              /\ configPending' \in [Addresses -> BOOLEAN] /\ delivery' \in [Addresses -> Deliveries]
          BY <4>4 DEF CallConfigure, Begin, For, KindsOfCall, Deliveries
        <5> QED
          BY <4>4, <5>1 DEF CallConfigure
      <4>5. ASSUME NEW a \in Addresses, NEW kind \in {"link", "create"}, CallCreate(a, kind)
            PROVE  TypeOK'
        <5>1. /\ addr' \in [Threads -> Addresses] /\ call' \in [Threads -> KindsOfCall]
              /\ configPending' \in [Addresses -> BOOLEAN] /\ delivery' \in [Addresses -> Deliveries]
          BY <4>5 DEF CallCreate, Begin, For, KindsOfCall, Deliveries
        <5> QED
          BY <4>5, <5>1 DEF CallCreate
      <4>6. ASSUME NEW a \in Addresses, Forget(a)
            PROVE  TypeOK'
        BY <4>6 DEF Forget
      <4> QED
        BY <3>2, <4>1, <4>2, <4>3, <4>4, <4>5, <4>6 DEF Calls
    <3>3. CASE Poll \/ PollEnd
      <4>1. age' \in [Queues -> 0..2]
        BY <3>3, FoundType DEF Poll, PollWhile, PollEnd
      <4>2. polls' \in 0..Polls
        BY <3>3, ManagerAssumption DEF Poll, PollWhile, PollEnd
      <4>3. configPending' \in [Addresses -> BOOLEAN]
        BY <3>3 DEF Poll, PollWhile, PollEnd
      <4> QED
        BY <3>3, <4>1, <4>2, <4>3 DEF Poll, PollWhile, PollEnd
    <3>4. CASE GetAck \/ Pop
      <4>1. CASE GetAck
        BY <4>1, FoundType DEF GetAck, Take, Threads, Creators, Callers
      <4>2. CASE Pop
        <5>1. empty' \in [Queues -> BOOLEAN] /\ delivery' \in [Addresses -> Deliveries]
          <6>1. PICK last \in BOOLEAN, nack \in BOOLEAN :
                  /\ empty' = [empty EXCEPT ![ref["listener"]] = @ \/ last]
                  /\ delivery' = [delivery EXCEPT ![addr["listener"]] =
                                    IF empty[ref["listener"]] THEN @ ELSE IF nack THEN "refused"
                                    ELSE IF last /\ @ # "refused" THEN "done" ELSE @]
            BY <4>2 DEF Pop
          <6>2. {"refused", "done"} \subseteq Deliveries
            BY DEF Deliveries
          <6>3. delivery' \in [Addresses -> Deliveries]
            BY <6>1, <6>2
          <6>4. empty' = empty \/ empty' = [empty EXCEPT ![ref["listener"]] = TRUE]
            <7>1. CASE last
              BY <6>1, <7>1
            <7>2. CASE ~last
              BY <6>1, <7>2
            <7> QED
              BY <7>1, <7>2
          <6> QED
            BY <6>3, <6>4
        <5> QED
          BY <4>2, <5>1 DEF Pop, DropRef
      <4> QED
        BY <3>4, <4>1, <4>2
    <3>5. CASE Worker
      <4>1. CASE Wake
        BY <4>1 DEF Wake
      <4>2. CASE Fetch
        BY <4>2 DEF Fetch, FetchUnless
      <4>3. CASE JoinReset
        BY <4>3 DEF JoinReset, Threads
      <4> QED
        BY <3>5, <4>1, <4>2, <4>3 DEF Worker
    <3>6. CASE ResetEarly \/ ResetNothing \/ ResetQueue \/ Unreach
      <4>1. CASE ResetEarly \/ ResetNothing \/ Unreach
        BY <4>1 DEF ResetEarly, ResetNothing, Unreach
      <4>2. CASE ResetQueue
        <5>1. /\ queues' \in [Addresses -> Queues \union {NoQueue}] /\ disposed' \in [Queues -> BOOLEAN]
              /\ overtaken' \in [Queues -> BOOLEAN] /\ delivery' \in [Addresses -> Deliveries]
          BY <4>2 DEF ResetQueue, Returning, Deliveries
        <5>2. stop' \in BOOLEAN /\ raced' \in BOOLEAN
          BY <4>2 DEF ResetQueue, StopIfEmpty
        <5> QED
          BY <4>2, <5>1, <5>2 DEF ResetQueue
      <4> QED
        BY <3>6, <4>1, <4>2
    <3>7. CASE Dispose \/ Destructor
      BY <3>7 DEF Dispose, Destructor, Destroy, DestroyWorker, DestroyJoin, JoinAndGoto, DestroyReset
    <3>8. CASE \E q \in Queues : Age(q)
      BY <3>8 DEF Age
    <3>9. CASE UNCHANGED vars
      BY <3>9 DEF vars
    <3> HIDE DEF TypeInv, TypeOK
    <3> QED
      BY <3>1, <3>2, <3>3, <3>4, <3>5, <3>6, <3>7, <3>8, <3>9
      DEF Next, Rpc, Listener, Reset, Creators, Callers
  <2> QED
    BY <2>3, <2>5 DEF TypeInv
<1> QED
  BY <1>1, <1>2, PTL DEF Spec

\* Every variable keeps its type, whatever the threads do.
THEOREM TypeCorrect == Spec => []TypeOK
<1>1. TypeInv => TypeOK
  BY DEF TypeInv
<1> QED
  BY <1>1, TypeInvariant, PTL

-----------------------------------------------------------------------------
(* A queue in use is not disposed                                            *)

\* Ids not given out yet are not in use; every queue is registered for at most
\* one device, and undisposed while it is; a queue createQueue is about to return
\* is undisposed unless a reset has overtaken it.
FreshIds == /\ \A a \in Addresses : queues[a] < nextID
            /\ \A t \in Threads : ref[t] < nextID
            /\ \A q \in Queues : disposed[q] => q < nextID
OneDevice == \A a, b \in Addresses : queues[a] = queues[b] /\ queues[a] # NoQueue => a = b
RegisteredUsable == \A a \in Addresses : queues[a] # NoQueue => ~disposed[queues[a]]
ReturnedUsable == \A t \in Creators : pc[t] = "Return" =>
    /\ job[t] \in Queues /\ job[t] < nextID
    /\ disposed[job[t]] => overtaken[job[t]]

UsableInv == FreshIds /\ OneDevice /\ RegisteredUsable /\ ReturnedUsable /\ HeldUsable
NotReturning == \A t \in Creators : pc'[t] = "Return" => pc[t] = "Return" /\ job'[t] = job[t]

LEMMA TakeUsable ==
  ASSUME TypeOK, UsableInv, NEW t \in Threads, KeepAlive(Found(t)),
         ref' = ref \/ ref' = [ref EXCEPT ![t] = Found(t)],
         UNCHANGED <<queues, nextID, disposed, overtaken>>, NotReturning
  PROVE  UsableInv'
<1> USE DEF TypeOK, UsableInv
<1>1. Found(t) = NoQueue \/ (Found(t) \in Queues /\ Found(t) < nextID /\ ~disposed[Found(t)])
  BY DEF Found, FreshIds, RegisteredUsable
<1>2. \A q \in Queues : age'[q] = age[q] \/ q = Found(t)
  BY DEF KeepAlive
<1>3. FreshIds'
  BY <1>1, ManagerAssumption DEF FreshIds, NoQueue
<1>4. HeldUsable'
  BY <1>1, <1>2 DEF HeldUsable
<1> QED
  BY <1>3, <1>4 DEF OneDevice, RegisteredUsable, ReturnedUsable, NotReturning

\* Steps that give up a pointer or a registration, or do not touch either.
LEMMA LessUsable ==
  ASSUME TypeOK, TypeOK', UsableInv, UNCHANGED <<nextID, disposed, age, overtaken>>, NotReturning,
         \A t \in Threads : ref'[t] \in {ref[t], NoQueue},
         \A a \in Addresses : queues'[a] \in {queues[a], NoQueue}
  PROVE  UsableInv'
<1> USE DEF TypeOK, UsableInv
<1>1. FreshIds'
  BY DEF FreshIds, NoQueue
<1>2. OneDevice' /\ RegisteredUsable' /\ ReturnedUsable'
  BY DEF OneDevice, RegisteredUsable, ReturnedUsable, NotReturning
<1>3. HeldUsable'
  BY DEF HeldUsable
<1> QED
  BY <1>1, <1>2, <1>3

LEMMA InsertUsable ==
  ASSUME TypeOK, TypeOK', UsableInv, NEW t \in Creators, Insert(t), nextID \in Queues
  PROVE  UsableInv'
<1> USE DEF TypeOK, UsableInv
<1>1. /\ nextID' = nextID + 1 /\ UNCHANGED <<disposed, overtaken, ref>>
      /\ \A a \in Addresses : queues'[a] = queues[a] \/ (queues'[a] = nextID /\ a = addr[t])
      /\ job' = [job EXCEPT ![t] = nextID] /\ pc' = [pc EXCEPT ![t] = "Return"]
      /\ \A q \in Queues : q # nextID => age'[q] = age[q]
  BY DEF Insert, Goto, flags
<1>2. nextID \in Nat /\ ~disposed[nextID]
  BY ManagerAssumption DEF FreshIds, Queues
<1>3. FreshIds'
  <2>1. \A a \in Addresses : queues'[a] < nextID + 1
    <3>1. \A a \in Addresses : queues[a] \in Nat /\ queues[a] < nextID
      <4>1. \A x \in Queues \union {NoQueue} : x \in Nat
        BY ManagerAssumption DEF NoQueue, Queues
      <4> QED
        BY <4>1 DEF FreshIds
    <3> QED
      BY <1>1, <1>2, <3>1
  <2>2. \A s \in Threads : ref'[s] < nextID + 1
    <3>1. \A s \in Threads : ref[s] \in Nat /\ ref[s] < nextID
      <4>1. \A x \in Queues \union {NoQueue} : x \in Nat
        BY ManagerAssumption DEF NoQueue, Queues
      <4> QED
        BY <4>1 DEF FreshIds
    <3> QED
      BY <1>1, <1>2, <3>1
  <2>3. \A q \in Queues : disposed[q] => q < nextID + 1
    BY ManagerAssumption DEF FreshIds, Queues
  <2> QED
    BY <1>1, <2>1, <2>2, <2>3 DEF FreshIds
<1>4. OneDevice'
  <2>1. \A a \in Addresses : queues[a] # nextID
    BY <1>2 DEF FreshIds
  <2> QED
    BY <1>1, <2>1 DEF OneDevice
<1>5. RegisteredUsable'
  BY <1>1, <1>2 DEF RegisteredUsable
<1>6. HeldUsable'
  <2> SUFFICES ASSUME NEW s \in Threads, ref'[s] # NoQueue, age'[ref'[s]] < 2, ~overtaken'[ref'[s]]
               PROVE  ~disposed'[ref'[s]]
    BY DEF HeldUsable
  <2>1. ref'[s] = ref[s] /\ ref[s] \in Queues /\ ref[s] # nextID
    BY <1>1, <1>2 DEF FreshIds
  <2>2. age'[ref[s]] = age[ref[s]] /\ UNCHANGED <<overtaken, disposed>>
    BY <1>1, <2>1
  <2> QED
    BY <2>1, <2>2 DEF HeldUsable
<1>7. ReturnedUsable'
  <2> SUFFICES ASSUME NEW s \in Creators, pc'[s] = "Return"
               PROVE  /\ job'[s] \in Queues /\ job'[s] < nextID'
                      /\ disposed'[job'[s]] => overtaken'[job'[s]]
    BY DEF ReturnedUsable
  <2>1. s \in Threads /\ t \in Threads
    BY DEF Threads
  <2>2. CASE s = t
    BY <1>1, <1>2, <2>1, <2>2
  <2>3. CASE s # t
    <3>1. job'[s] = job[s] /\ pc[s] = "Return"
      BY <1>1, <2>1, <2>3
    <3>2. job[s] \in Queues /\ job[s] < nextID /\ (disposed[job[s]] => overtaken[job[s]])
      BY <3>1 DEF ReturnedUsable
    <3> QED
      BY <1>1, <1>2, <3>1, <3>2, ManagerAssumption DEF Queues
  <2> QED
    BY <2>2, <2>3
<1> QED
  BY <1>3, <1>4, <1>5, <1>6, <1>7

\* What createQueue returns is not disposed unless a reset has overtaken it.
LEMMA ReturnUsable ==
  ASSUME TypeOK, TypeOK', UsableInv, NEW t \in Creators, Return(t)
  PROVE  UsableInv'
<1> USE DEF TypeOK, UsableInv
<1>1. /\ pc[t] = "Return" /\ ref' = [ref EXCEPT ![t] = job[t]] /\ job' = [job EXCEPT ![t] = NoQueue]
      /\ pc' = [pc EXCEPT ![t] = "Push"] /\ t \in Threads
      /\ UNCHANGED <<queues, nextID, age, disposed, overtaken>>
  BY DEF Return, Goto, At, data, flags, Threads
<1>2. job[t] \in Queues /\ job[t] < nextID /\ (disposed[job[t]] => overtaken[job[t]])
  BY <1>1 DEF ReturnedUsable
<1>3. FreshIds'
  BY <1>1, <1>2 DEF FreshIds
<1>4. OneDevice' /\ RegisteredUsable'
  BY <1>1 DEF OneDevice, RegisteredUsable
<1>5. ReturnedUsable'
  BY <1>1 DEF ReturnedUsable, Threads
<1>6. HeldUsable'
  BY <1>1, <1>2 DEF HeldUsable
<1> QED
  BY <1>3, <1>4, <1>5, <1>6

LEMMA ResetUsable ==
  ASSUME TypeOK, TypeOK', UsableInv, ResetQueue
  PROVE  UsableInv'
<1> USE DEF TypeOK, UsableInv
<1> DEFINE a == addr["reset"]
           q == job["reset"]
<1>1. /\ a \in Addresses /\ queues[a] = q /\ (Holders(q) = {} \/ age[q] = 2)
      /\ queues' = [queues EXCEPT ![a] = NoQueue] /\ disposed' = [disposed EXCEPT ![q] = TRUE]
      /\ overtaken' = [overtaken EXCEPT ![q] = Returning(q)]
      /\ UNCHANGED <<ref, job, age, nextID>>
      /\ \A t \in Creators : pc'[t] = "Return" => pc[t] = "Return"
  BY DEF ResetQueue, Due, locals, Threads, Creators, Goto
<1>2. FreshIds'
  BY <1>1 DEF FreshIds, NoQueue
<1>3. OneDevice'
  BY <1>1 DEF OneDevice
<1>4. RegisteredUsable'
  <2>1. \A b \in Addresses : queues'[b] # NoQueue => queues'[b] = queues[b] /\ queues[b] # q
    BY <1>1 DEF OneDevice
  <2> QED
    BY <1>1, <2>1 DEF RegisteredUsable
<1>5. HeldUsable'
  <2>1. \A t \in Threads : ref[t] = q => age[q] = 2
    BY <1>1 DEF Holders
  <2>2. \A p \in Queues : p # q => disposed'[p] = disposed[p] /\ overtaken'[p] = overtaken[p]
    BY <1>1
  <2> QED
    BY <1>1, <2>1, <2>2 DEF HeldUsable
<1>6. ReturnedUsable'
  <2> SUFFICES ASSUME NEW t \in Creators, pc'[t] = "Return"
               PROVE  job[t] \in Queues /\ job[t] < nextID /\ (disposed'[job[t]] => overtaken'[job[t]])
    BY <1>1 DEF ReturnedUsable
  <2>1. job[t] \in Queues /\ job[t] < nextID /\ (disposed[job[t]] => overtaken[job[t]]) /\ pc[t] = "Return"
    BY <1>1 DEF ReturnedUsable
  <2>2. CASE job[t] = q
    <3>1. Returning(q)
      BY <2>1, <2>2 DEF Returning
    <3>2. overtaken'[q] = TRUE
      BY <1>1, <2>1, <2>2, <3>1
    <3> QED
      BY <2>1, <2>2, <3>2
  <2>3. CASE job[t] # q
    BY <1>1, <2>1, <2>3
  <2> QED
    BY <2>2, <2>3
<1> QED
  BY <1>2, <1>3, <1>4, <1>5, <1>6

LEMMA AgeUsable ==
  ASSUME TypeOK, UsableInv, NEW q \in Queues, Age(q)
  PROVE  UsableInv'
<1> USE DEF TypeOK, UsableInv
<1>1. \A p \in Queues : age[p] \in 0..2 /\ age'[p] \in {age[p], age[p] + 1}
  BY DEF Age
<1>2. HeldUsable'
  BY <1>1 DEF Age, HeldUsable, locals, flags
<1> QED
  BY <1>2 DEF Age, locals, flags, FreshIds, OneDevice, RegisteredUsable, ReturnedUsable

LEMMA UsableStep ==
  ASSUME TypeInv, TypeInv', UsableInv, [Next]_vars
  PROVE  UsableInv'
<1>1. TypeOK /\ TypeOK' /\ pc \in [Threads -> Labels] /\ nextID \in Nat \ {0} /\ Room
  BY ManagerAssumption DEF TypeInv, TypeOK
<1> USE DEF data, flags, config, locals, mutexes, Goto, At, Finish, For, After, End, Refused,
            NotReturning, Threads, Creators, Callers
<1>2. ASSUME NEW t \in Creators, Enqueuing(t)
      PROVE  UsableInv'
  <2>1. CASE Get(t)
    BY <1>1, <2>1, TakeUsable DEF Get, Take, Threads
  <2>2. CASE Insert(t)
    <3>1. nextID \in Queues
      BY <1>1, <2>2, InsertRoom
    <3> QED
      BY <1>1, <2>2, <3>1, InsertUsable
  <2>3. CASE EnqueueLock(t) \/ WorkerLock(t) \/ JoinWorker(t)
    BY <1>1, <2>3, LessUsable DEF EnqueueLock, WorkerLock, JoinWorker
  <2>4. CASE Create(t)
    BY <1>1, <2>4, LessUsable DEF Create, TypeOK
  <2>5. CASE Push(t)
    BY <1>1, <2>5, LessUsable DEF Push, DropRef, TypeOK
  <2>6. CASE Return(t)
    BY <1>1, <2>6, ReturnUsable
  <2> QED
    BY <1>2, <2>1, <2>2, <2>3, <2>4, <2>5, <2>6 DEF Enqueuing
<1>3. CASE Calls
  BY <1>1, <1>3, LessUsable DEF Calls, CallAck, CallEnqueue, CallCreate, CallConfigure, CallPair, Forget, Begin
<1>4. CASE Poll \/ PollEnd
  BY <1>1, <1>4, TakeUsable DEF Poll, PollWhile, PollEnd, Threads, Creators, Callers
<1>5. CASE GetAck
  BY <1>1, <1>5, TakeUsable DEF GetAck, Take, Threads, Creators, Callers
<1>6. CASE Pop
  BY <1>1, <1>6, LessUsable DEF Pop, DropRef, TypeOK
<1>7. CASE Worker
  <2>1. CASE Wake
    BY <1>1, <2>1, LessUsable DEF Wake
  <2>2. CASE Fetch
    BY <1>1, <2>2, LessUsable DEF Fetch, FetchUnless, TypeOK
  <2>3. CASE JoinReset
    <3>1. NotReturning
      <4>1. CASE MutualJoin
        BY <1>1, <2>3, <4>1 DEF JoinReset
      <4>2. CASE ~MutualJoin
        BY <1>1, <2>3, <4>2 DEF JoinReset, TypeOK
      <4> QED
        BY <4>1, <4>2
    <3> QED
      BY <1>1, <2>3, <3>1, LessUsable DEF JoinReset
  <2> QED
    BY <1>7, <2>1, <2>2, <2>3 DEF Worker
<1>8. CASE ResetEarly \/ ResetNothing \/ Unreach
  BY <1>1, <1>8, LessUsable DEF ResetEarly, ResetNothing, Unreach
<1>9. CASE ResetQueue
  BY <1>1, <1>9, ResetUsable
<1>10. CASE Dispose \/ Destructor \/ UNCHANGED vars
  BY <1>1, <1>10, LessUsable DEF Dispose, Destructor, Destroy, DestroyWorker, DestroyJoin, JoinAndGoto, DestroyReset, vars
<1>11. CASE \E q \in Queues : Age(q)
  BY <1>1, <1>11, AgeUsable
<1> QED
  BY <1>2, <1>3, <1>4, <1>5, <1>6, <1>7, <1>8, <1>9, <1>10, <1>11
  DEF Next, Rpc, Listener, Reset, Creators, Callers

LEMMA UsableInvariant == Spec => []UsableInv
<1>1. Init => UsableInv
  BY ManagerAssumption DEF Init, UsableInv, FreshIds, OneDevice, RegisteredUsable, ReturnedUsable, HeldUsable,
     NoQueue, Queues, Threads, Creators, Callers
<1>2. TypeInv /\ TypeInv' /\ UsableInv /\ [Next]_vars => UsableInv'
  BY UsableStep
<1> QED
  BY <1>1, <1>2, TypeInvariant, PTL DEF Spec

\* A queue a thread works with is not disposed under its hands, unless the
\* thread holds it for more than twenty seconds or a reset took the queue between
\* its registration and createQueue's return (createQueue, get and resetQueue).
THEOREM QueuesInUseKept == Spec => []HeldUsable
<1>1. UsableInv => HeldUsable
  BY DEF UsableInv
<1> QED
  BY <1>1, UsableInvariant, PTL

-----------------------------------------------------------------------------
(* Nothing runs after the destructor                                         *)

\* The worker is restarted only under its mutex and by a thread that found the
\* manager in service; the reset thread only by the worker.
QuiesceInv ==
    /\ pc["central"] # "Idle" => disposing
    /\ \A t \in Creators : pc[t] = "JoinWorker" => workerOwner = t
    /\ pc["central"] = "DestroyJoin" => workerOwner = "central"
    /\ pc["central"] \in {"DestroyWorker", "DestroyJoin", "DestroyReset", "Gone"}
           => \A t \in Callers : ~Running(t)
    /\ pc["central"] \in {"DestroyReset", "Gone"}
           => ~Running("worker") /\ \A t \in Creators : pc[t] # "JoinWorker"
    /\ pc["central"] \in {"Idle", "Disposed", "DestroyWorker", "DestroyJoin", "DestroyReset", "Gone"}
    /\ NothingRunsAfter

\* ~QueueManager joins the worker and then the reset thread: neither runs once
\* it has returned, though calls under way may have restarted the worker.
THEOREM DestroyQuiesces == Spec => []NothingRunsAfter
<1>1. Init => QuiesceInv
  BY DEF Init, QuiesceInv, NothingRunsAfter, Running, Threads, Creators, Callers
<1>2. TypeInv /\ QuiesceInv /\ [Next]_vars => QuiesceInv'
  <2> SUFFICES ASSUME TypeOK, QuiesceInv, [Next]_vars PROVE QuiesceInv'
    BY DEF TypeInv
  <2> USE DEF QuiesceInv, NothingRunsAfter, Running, Goto, At, Threads, Creators, Callers,
              data, flags, config, locals, mutexes
  <2>1. pc \in [Threads -> Labels] /\ workerOwner \in Creators \union {"central", NoThread}
    BY DEF TypeOK
  <2>2. ASSUME NEW t \in Creators, Enqueuing(t)
        PROVE  QuiesceInv'
    <3>1. CASE EnqueueLock(t) \/ Get(t) \/ Insert(t) \/ Return(t) \/ Push(t)
      BY <2>1, <3>1 DEF EnqueueLock, Get, Insert, Return, Push, Finish, For, After, End
    <3>2. CASE Create(t)
      BY <2>1, <3>2 DEF Create, Refused, Finish, For, After, End
    <3>3. CASE WorkerLock(t)
      BY <2>1, <3>3 DEF WorkerLock, Refused, Finish, For, After, End, Blocked, NoThread
    <3>4. CASE JoinWorker(t)
      BY <2>1, <3>4 DEF JoinWorker
    <3> QED
      BY <2>2, <3>1, <3>2, <3>3, <3>4 DEF Enqueuing
  <2>3. CASE Calls
    BY <2>1, <2>3 DEF Calls, CallAck, CallEnqueue, CallCreate, CallConfigure, CallPair, Forget, Begin, Serving, After, End
  <2>4. CASE Poll \/ PollEnd \/ GetAck \/ Pop
    BY <2>1, <2>4 DEF Poll, PollWhile, PollEnd, GetAck, Pop
  <2>5. CASE Worker
    BY <2>1, <2>5 DEF Worker, Wake, Fetch, FetchUnless, JoinReset
  <2>6. CASE ResetEarly \/ ResetNothing \/ ResetQueue \/ Unreach
    BY <2>1, <2>6 DEF ResetEarly, ResetNothing, ResetQueue, Unreach
  <2>7. CASE Dispose \/ Destroy
    BY <2>1, <2>7 DEF Dispose, Destroy
  <2>8. CASE DestroyWorker \/ DestroyJoin \/ DestroyReset
    <3>1. CASE DestroyWorker
      BY <2>1, <3>1 DEF DestroyWorker, Blocked, NoThread
    <3>2. CASE DestroyJoin
      BY <2>1, <3>2 DEF DestroyJoin, JoinAndGoto, Blocked, NoThread
    <3>3. CASE DestroyReset
      BY <2>1, <3>3 DEF DestroyReset, Blocked, NoThread
    <3> QED
      BY <2>8, <3>1, <3>2, <3>3
  <2>9. CASE (\E q \in Queues : Age(q)) \/ UNCHANGED vars
    BY <2>1, <2>9 DEF Age, vars
  <2> QED
    BY <2>2, <2>3, <2>4, <2>5, <2>6, <2>7, <2>8, <2>9
    DEF Next, Rpc, Listener, Reset, Destructor
<1>3. QuiesceInv => NothingRunsAfter
  BY DEF QuiesceInv
<1> QED
  BY <1>1, <1>2, <1>3, TypeInvariant, PTL DEF Spec

-----------------------------------------------------------------------------
(* A registered queue is watched                                             *)

\* Unless a reset found the map empty while createQueue was between its locks,
\* a manager that is not disposed and whose worker was told to stop has no
\* queue, nor will it get one from a thread that has passed the worker.
WatchInv ==
    /\ disposing => pc["central"] # "Idle"
    /\ pc["central"] \in {"Idle", "Disposed", "DestroyWorker", "DestroyJoin", "DestroyReset", "Gone"}
    /\ ~stop /\ ~disposing => Running("worker")
    /\ stop /\ ~raced /\ ~disposing => NoQueues /\ \A t \in Creators : pc[t] # "Insert"

LEMMA WatchStep ==
  ASSUME TypeOK, NoMutualJoin, WatchInv, [Next]_vars
  PROVE  WatchInv'
<1> USE DEF WatchInv, NoQueues, Running, Goto, At, Threads, Creators, Callers,
            data, flags, config, locals, mutexes
<1>1. pc \in [Threads -> Labels] /\ queues \in [Addresses -> Queues \union {NoQueue}]
  BY DEF TypeOK
<1>2. ASSUME NEW t \in Creators, Enqueuing(t)
      PROVE  WatchInv'
  <2>1. CASE EnqueueLock(t) \/ Get(t) \/ Return(t) \/ Push(t)
    BY <1>1, <2>1 DEF EnqueueLock, Get, Return, Push, Finish, For, After, End
  <2>2. CASE Create(t)
    BY <1>1, <2>2 DEF Create, Refused, Finish, For, After, End
  <2>3. CASE WorkerLock(t)
    BY <1>1, <2>3 DEF WorkerLock, Refused, Finish, For, After, End
  <2>4. CASE JoinWorker(t)
    BY <1>1, <2>4 DEF JoinWorker, NoMutualJoin
  <2>5. CASE Insert(t)
    BY <1>1, <2>5 DEF Insert
  <2> QED
    BY <1>2, <2>1, <2>2, <2>3, <2>4, <2>5 DEF Enqueuing
<1>3. CASE Calls
  BY <1>1, <1>3 DEF Calls, CallAck, CallEnqueue, CallCreate, CallConfigure, CallPair, Forget, Begin, After, End
<1>4. CASE Poll \/ PollEnd \/ GetAck \/ Pop
  BY <1>1, <1>4 DEF Poll, PollWhile, PollEnd, GetAck, Pop
<1>5. CASE Worker
  BY <1>1, <1>5 DEF Worker, Wake, Fetch, FetchUnless, JoinReset
<1>6. CASE ResetEarly \/ ResetNothing \/ Unreach
  <2>1. CASE ResetEarly
    BY <1>1, <2>1 DEF ResetEarly
  <2>2. CASE ResetNothing
    <3>1. NoQueues' /\ pc' = [pc EXCEPT !["reset"] = "Done"] /\ stop' /\ UNCHANGED disposing
      BY <2>2 DEF ResetNothing
    <3>2. ~raced' => \A t \in Creators : pc[t] # "Insert"
      BY <2>2 DEF ResetNothing
    <3> QED
      BY <1>1, <3>1, <3>2
  <2>3. CASE Unreach
    BY <1>1, <2>3 DEF Unreach
  <2> QED
    BY <1>6, <2>1, <2>2, <2>3
<1>7. CASE ResetQueue
  BY <1>1, <1>7 DEF ResetQueue, StopIfEmpty
<1>8. CASE Dispose \/ Destructor
  BY <1>1, <1>8 DEF Dispose, Destructor, Destroy, DestroyWorker, DestroyJoin, JoinAndGoto, DestroyReset
<1>9. CASE (\E q \in Queues : Age(q)) \/ UNCHANGED vars
  BY <1>1, <1>9 DEF Age, vars
<1> QED
  BY <1>1, <1>2, <1>3, <1>4, <1>5, <1>6, <1>7, <1>8, <1>9 DEF Next, Rpc, Listener, Reset

LEMMA WatchInvariant == Spec /\ []NoMutualJoin => []WatchInv
<1>1. Init => WatchInv
  BY DEF Init, WatchInv, NoQueues, Threads, Creators, Callers
<1>2. TypeInv /\ NoMutualJoin /\ WatchInv /\ [Next]_vars => WatchInv'
  BY WatchStep DEF TypeInv
<1> QED
  BY <1>1, <1>2, TypeInvariant, PTL DEF Spec

\* As long as the worker and the reset thread never join each other (qm_join
\* shows a case), a registered queue has a worker that will come by, for any
\* number of devices: removing the queue of one does not stop the worker the
\* others need (createQueue, worker and resetQueue).
THEOREM QueuesWatched == Spec /\ []NoMutualJoin => []Watched
<1>1. WatchInv => Watched
  BY DEF WatchInv, Watched, Quiet, Running, Threads
<1> QED
  BY <1>1, WatchInvariant, PTL

-----------------------------------------------------------------------------
(* CONFIG_PENDING.  As long as the device has not got its configuration, the *)
(* queue the RPC thread polls for is not removed: it was used just now and   *)
(* has something to send, or is about to get it, and the thread that polls   *)
(* comes by before time passes.                                              *)

\* Who joins the worker holds its mutex, and does so only if it was told to stop.
JoinInv ==
    /\ \A t \in Creators : pc[t] = "JoinWorker" => workerOwner = t /\ stop
    /\ workerOwner \in Creators => pc[workerOwner] = "JoinWorker"
    /\ pc["central"] # "Idle" => disposing
    /\ workerOwner = "central" <=> pc["central"] = "DestroyJoin"

\* A thread works with the queue of its own address.
Belongs ==
    \A t \in Creators, a \in Addresses :
        /\ pc[t] \in {"Push", "Pop"} /\ ref[t] # NoQueue /\ ref[t] = queues[a] => addr[t] = a
        /\ pc[t] = "Return" /\ job[t] = queues[a] => addr[t] = a

Holds(t, q) == \/ pc[t] = "Push" /\ ref[t] = q
               \/ pc[t] = "Return" /\ job[t] = q
HeldToPush(q) == \E t \in Creators : Holds(t, q)
InUse(q) == age[q] = 0 /\ (~empty[q] \/ HeldToPush(q))

\* The RPC thread has passed the worker, and has created its queue.
Passed == \/ pc["rpc"] \in {"Insert", "Return", "Push", "Poll", "PollEnd"}
          \/ pc["rpc"] = "WorkerLock" /\ ~stop
Created == pc["rpc"] \in {"Return", "Push", "Poll", "PollEnd"}
Owed(a) == delivery[a] = "due" /\ known[a] /\ ~disposing /\ ~raced
AwaitedFor(a) ==
    /\ Passed /\ queues[a] # NoQueue => InUse(queues[a])
    /\ Created => queues[a] # NoQueue \/ Replaced(a)
Awaited == Owed(addr["rpc"]) => AwaitedFor(addr["rpc"])

PollInv == TypeInv /\ UsableInv /\ WatchInv /\ JoinInv /\ Belongs /\ Awaited

LEMMA JoinStep ==
  ASSUME TypeOK, JoinInv, [Next]_vars
  PROVE  JoinInv'
<1> USE DEF JoinInv, Goto, At, Threads, Creators, Callers, data, flags, config, locals, mutexes
<1>1. pc \in [Threads -> Labels] /\ workerOwner \in Creators \union {"central", NoThread}
      /\ NoThread \notin Creators \union {"central"}
  BY DEF TypeOK, NoThread
<1>2. ASSUME NEW t \in Creators, Enqueuing(t)
      PROVE  JoinInv'
  <2>1. CASE EnqueueLock(t) \/ Get(t) \/ Insert(t) \/ Return(t) \/ Push(t)
    BY <1>1, <2>1 DEF EnqueueLock, Get, Insert, Return, Push, Finish, For, After, End
  <2>2. CASE Create(t)
    BY <1>1, <2>2 DEF Create, Refused, Finish, For, After, End
  <2>3. CASE WorkerLock(t)
    BY <1>1, <2>3 DEF WorkerLock, Refused, Finish, For, After, End, Blocked
  <2>4. CASE JoinWorker(t)
    BY <1>1, <2>4 DEF JoinWorker
  <2> QED
    BY <1>2, <2>1, <2>2, <2>3, <2>4 DEF Enqueuing
<1>3. CASE Calls
  BY <1>1, <1>3 DEF Calls, CallAck, CallEnqueue, CallCreate, CallConfigure, CallPair, Forget, Begin, Serving, After, End
<1>4. CASE Poll \/ PollEnd \/ GetAck \/ Pop
  BY <1>1, <1>4 DEF Poll, PollWhile, PollEnd, GetAck, Pop
<1>5. CASE Worker
  BY <1>1, <1>5 DEF Worker, Wake, Fetch, FetchUnless, JoinReset, Blocked, Running, MutualJoin
<1>6. CASE ResetEarly \/ ResetNothing \/ ResetQueue \/ Unreach
  <2>1. CASE ResetEarly \/ ResetNothing \/ Unreach
    BY <1>1, <2>1 DEF ResetEarly, ResetNothing, Unreach
  <2>2. CASE ResetQueue
    <3>1. /\ pc["reset"] = "Reset" /\ workerOwner' = workerOwner /\ (stop => stop')
          /\ \E l \in {"Done", "Unreach"} : pc' = [pc EXCEPT !["reset"] = l]
          /\ disposing' = disposing
      BY <2>2 DEF ResetQueue, StopIfEmpty
    <3> QED
      BY <1>1, <3>1
  <2> QED
    BY <1>6, <2>1, <2>2
<1>7. CASE Dispose \/ Destructor
  <2>1. CASE Dispose \/ Destroy
    BY <1>1, <2>1 DEF Dispose, Destroy
  <2>2. CASE DestroyWorker
    BY <1>1, <2>2 DEF DestroyWorker, Blocked
  <2>3. CASE DestroyJoin
    BY <1>1, <2>3 DEF DestroyJoin, JoinAndGoto
  <2>4. CASE DestroyReset
    BY <1>1, <2>4 DEF DestroyReset
  <2> QED
    BY <1>7, <2>1, <2>2, <2>3, <2>4 DEF Destructor
<1>8. CASE (\E q \in Queues : Age(q)) \/ UNCHANGED vars
  BY <1>1, <1>8 DEF Age, vars
<1> QED
  BY <1>2, <1>3, <1>4, <1>5, <1>6, <1>7, <1>8 DEF Next, Rpc, Listener, Reset

\* Most steps register no queue and leave the threads that hold one alone.
LEMMA BelongsKept ==
  ASSUME TypeOK, Belongs,
         \A a \in Addresses : queues'[a] \in {queues[a], NoQueue},
         \A t \in Creators : pc'[t] \in {"Push", "Pop"} =>
             pc[t] \in {"Push", "Pop"} /\ ref'[t] = ref[t] /\ addr'[t] = addr[t],
         \A t \in Creators : pc'[t] = "Return" =>
             pc[t] = "Return" /\ job'[t] = job[t] /\ job[t] \in Queues /\ addr'[t] = addr[t]
  PROVE  Belongs'
  BY DEF Belongs, Queues, NoQueue

\* A thread that gets a queue gets the one of its address.
LEMMA BelongsTaken ==
  ASSUME TypeOK, OneDevice, Belongs, NEW t \in Creators, ref' = [ref EXCEPT ![t] = Found(t)],
         \A s \in Creators : s # t => pc'[s] = pc[s], pc'[t] # "Return", UNCHANGED <<queues, addr, job>>
  PROVE  Belongs'
<1>1. t \in Threads /\ addr[t] \in Addresses /\ Found(t) \in {queues[addr[t]], NoQueue}
  BY DEF TypeOK, Found, Threads
<1>0. ASSUME NEW s \in Creators, pc'[s] = "Return" PROVE s # t /\ pc[s] = "Return"
  BY <1>0
<1> SUFFICES ASSUME NEW s \in Creators, NEW a \in Addresses, pc'[s] \in {"Push", "Pop"},
                    ref'[s] # NoQueue, ref'[s] = queues[a]
             PROVE  addr[s] = a
  BY <1>0 DEF Belongs
<1>2. CASE s = t
  BY <1>1, <1>2 DEF TypeOK, OneDevice
<1>3. CASE s # t
  BY <1>3 DEF TypeOK, Belongs, Threads
<1> QED
  BY <1>2, <1>3

\* What Insert does: the new id is nobody else's.
LEMMA Inserted ==
  ASSUME TypeInv, UsableInv, NEW t \in Creators, Insert(t)
  PROVE  /\ t \in Threads /\ pc[t] = "Insert" /\ pc' = [pc EXCEPT ![t] = "Return"]
         /\ nextID \in Queues /\ nextID # NoQueue
         /\ \A a \in Addresses : queues[a] # nextID
         /\ \A s \in Threads : ref[s] # nextID /\ job'[s] = IF s = t THEN nextID ELSE job[s]
         /\ \A s \in Creators : pc[s] = "Return" => job[s] # nextID
         /\ \A a \in Addresses :
               queues'[a] = IF a = addr[t] /\ queues[a] = NoQueue THEN nextID ELSE queues[a]
         /\ \A q \in Queues : age'[q] = (IF q = nextID THEN 0 ELSE age[q])
                              /\ (q # nextID => empty'[q] = empty[q])
         /\ UNCHANGED <<addr, ref, delivery, known, stop, disposing, raced>>
<1>1. TypeOK /\ pc \in [Threads -> Labels] /\ nextID \in Nat \ {0} /\ Room
  BY ManagerAssumption DEF TypeInv, TypeOK
<1>2. nextID \in Queues
  BY <1>1, InsertRoom
<1>3. nextID # NoQueue
  BY <1>1 DEF NoQueue
<1>4. /\ \A a \in Addresses : queues[a] # nextID
      /\ \A s \in Threads : ref[s] # nextID
      /\ \A s \in Creators : pc[s] = "Return" => job[s] # nextID
  BY <1>1 DEF UsableInv, FreshIds, ReturnedUsable
<1>5. t \in Threads
  BY DEF Threads
<1> QED
  BY <1>1, <1>2, <1>3, <1>4, <1>5 DEF Insert, At, Goto, TypeOK, config, flags

LEMMA BelongsStep ==
  ASSUME TypeInv, UsableInv, NoMutualJoin, Belongs, [Next]_vars
  PROVE  Belongs'
<1> USE DEF Goto, At, data, flags, config, locals, mutexes
<1>0. TypeOK /\ job \in [Threads -> Queues \union {NoQueue}] /\ pc \in [Threads -> Labels] /\ Creators \subseteq Threads /\ ref \in [Threads -> Queues \union {NoQueue}]
      /\ addr \in [Threads -> Addresses] /\ queues \in [Addresses -> Queues \union {NoQueue}] /\ OneDevice
      /\ \A t \in Creators : pc[t] = "Return" => job[t] \in Queues
  BY DEF TypeInv, TypeOK, UsableInv, ReturnedUsable, Threads
<1>1. Creators = {"rpc", "listener", "reset"} /\ Threads = {"rpc", "listener", "reset", "worker", "central"}
  BY DEF Creators, Callers, Threads
<1>2. ASSUME NEW t \in Creators, Enqueuing(t)
      PROVE  Belongs'
  <2>1. CASE EnqueueLock(t) \/ WorkerLock(t) \/ JoinWorker(t)
    BY <1>0, <1>1, <2>1, BelongsKept DEF EnqueueLock, WorkerLock, JoinWorker, Refused, Finish, For, After, End
  <2>2. CASE Create(t)
    BY <1>0, <1>1, <2>2, BelongsKept DEF Create, Refused, Finish, For, After, End
  <2>3. CASE Get(t)
    BY <1>0, <1>1, <2>3, BelongsTaken DEF Get, Take
  <2>4. CASE Insert(t)
    <3>1. ASSUME NEW s \in Creators, NEW a \in Addresses, pc'[s] \in {"Push", "Pop"},
                 ref'[s] # NoQueue, ref'[s] = queues'[a]
          PROVE  addr'[s] = a
      <4>1. s # t /\ s \in Threads
        BY <1>0, <2>4, <3>1, Inserted
      <4>2. pc[s] \in {"Push", "Pop"} /\ ref[s] = queues[a] /\ addr' = addr /\ ref' = ref
        BY <1>0, <2>4, <3>1, <4>1, Inserted
      <4> QED
        BY <3>1, <4>2 DEF Belongs
    <3>2. ASSUME NEW s \in Creators, NEW a \in Addresses, pc'[s] = "Return", job'[s] = queues'[a]
          PROVE  addr'[s] = a
      <4>1. s \in Threads
        BY <1>0
      <4>2. CASE s = t
        BY <2>4, <3>2, <4>1, <4>2, Inserted
      <4>3. CASE s # t
        <5>1. pc[s] = "Return" /\ job'[s] = job[s] /\ job[s] # nextID /\ addr' = addr
          BY <1>0, <2>4, <3>2, <4>1, <4>3, Inserted
        <5>2. queues[a] = job[s]
          BY <2>4, <3>2, <5>1, Inserted
        <5> QED
          BY <5>1, <5>2 DEF Belongs
      <4> QED
        BY <4>2, <4>3
    <3> QED
      BY <3>1, <3>2 DEF Belongs
  <2>5. CASE Push(t)
    BY <1>0, <1>1, <2>5, BelongsKept DEF Push, DropRef, Finish, For, After, End
  <2>6. CASE Return(t)
    <3>1. /\ pc[t] = "Return" /\ ref' = [ref EXCEPT ![t] = job[t]] /\ job' = [job EXCEPT ![t] = NoQueue]
          /\ pc' = [pc EXCEPT ![t] = "Push"] /\ UNCHANGED <<queues, addr>> /\ t \in Threads
      BY <1>0, <2>6 DEF Return
    <3>2. ASSUME NEW s \in Creators, NEW a \in Addresses, pc'[s] \in {"Push", "Pop"},
                 ref'[s] # NoQueue, ref'[s] = queues[a]
          PROVE  addr[s] = a
      BY <1>0, <3>1, <3>2 DEF Belongs
    <3>3. ASSUME NEW s \in Creators, NEW a \in Addresses, pc'[s] = "Return", job'[s] = queues[a]
          PROVE  addr[s] = a
      BY <1>0, <3>1, <3>3 DEF Belongs
    <3> QED
      BY <3>1, <3>2, <3>3 DEF Belongs
  <2> QED
    BY <1>2, <2>1, <2>2, <2>3, <2>4, <2>5, <2>6 DEF Enqueuing
<1>3. CASE Calls
  BY <1>0, <1>1, <1>3, BelongsKept DEF Calls, CallAck, CallEnqueue, CallCreate, CallConfigure, CallPair, Forget, Begin, After, End
<1>4. CASE Poll \/ PollEnd \/ Pop
  BY <1>0, <1>1, <1>4, BelongsKept DEF Poll, PollWhile, PollEnd, Pop, DropRef
<1>5. CASE GetAck
  BY <1>0, <1>1, <1>5, BelongsTaken DEF GetAck, Take
<1>6. CASE Worker
  BY <1>0, <1>1, <1>6, BelongsKept DEF Worker, Wake, Fetch, FetchUnless, JoinReset, NoMutualJoin
<1>7. CASE ResetEarly \/ ResetNothing \/ ResetQueue \/ Unreach
  BY <1>0, <1>1, <1>7, BelongsKept DEF ResetEarly, ResetNothing, ResetQueue, Unreach
<1>8. CASE Dispose \/ Destructor
  BY <1>0, <1>1, <1>8, BelongsKept DEF Dispose, Destructor, Destroy, DestroyWorker, DestroyJoin, JoinAndGoto, DestroyReset
<1>9. CASE (\E q \in Queues : Age(q)) \/ UNCHANGED vars
  BY <1>0, <1>1, <1>9, BelongsKept DEF Age, vars
<1> QED
  BY <1>1, <1>2, <1>3, <1>4, <1>5, <1>6, <1>7, <1>8, <1>9 DEF Next, Rpc, Listener, Reset

\* Steps that neither register nor change a queue and do not bring the RPC
\* thread nearer to its polling.
LEMMA AwaitedKept ==
  ASSUME TypeOK, Awaited, UNCHANGED <<queues, empty>>, addr'["rpc"] = addr["rpc"],
         \A a \in Addresses : Owed(a)' => Owed(a),
         \A q \in Queues : age'[q] \in {age[q], 0},
         \A t \in Creators :
             /\ pc[t] = "Insert" => pc'[t] = "Insert" /\ addr'[t] = addr[t]
             /\ pc[t] = "Push" => pc'[t] = "Push" /\ ref'[t] = ref[t]
             /\ pc[t] = "Return" => pc'[t] = "Return" /\ job'[t] = job[t],
         Passed' => Passed, Created' => Created
  PROVE  Awaited'
<1>0. addr["rpc"] \in Addresses /\ \A a \in Addresses : queues[a] \in Queues \union {NoQueue}
  BY DEF TypeOK, Threads, Creators, Callers
<1>1. ASSUME NEW a \in Addresses, Owed(a)', AwaitedFor(a)
      PROVE  AwaitedFor(a)'
  <2>1. Replaced(a) => Replaced(a)'
    BY DEF Replaced
  <2>2. ASSUME NEW q \in Queues, InUse(q) PROVE InUse(q)'
    BY <2>2 DEF InUse, HeldToPush, Holds
  <2> QED
    BY <1>0, <1>1, <2>1, <2>2 DEF AwaitedFor
<1> QED
  BY <1>0, <1>1 DEF Awaited

\* The RPC thread is elsewhere.
LEMMA NothingAwaited ==
  ASSUME ~Passed', ~Created'
  PROVE  Awaited'
  BY DEF Awaited, AwaitedFor

LEMMA AwaitedCreate ==
  ASSUME TypeOK, Awaited, NEW t \in Creators, Create(t)
  PROVE  Awaited'
<1> USE DEF Goto, At, data, flags, config, locals, mutexes
<1>0. /\ pc \in [Threads -> Labels] /\ queues \in [Addresses -> Queues \union {NoQueue}]
      /\ Creators = {"rpc", "listener", "reset"} /\ Creators \subseteq Threads /\ addr \in [Threads -> Addresses]
  BY DEF TypeOK, Creators, Callers, Threads
<1>1. CASE disposing
  BY <1>0, <1>1 DEF Create, Awaited, Owed
<1>3. CASE ~disposing /\ stop
  BY <1>0, <1>3, AwaitedKept, NothingAwaited DEF Create, Passed, Created, Owed
<1>2. CASE ~disposing /\ ~stop
  <2>1. /\ pc' = [pc EXCEPT ![t] = "Insert"] /\ queues' = [queues EXCEPT ![addr[t]] = NoQueue]
        /\ pc[t] = "Create" /\ UNCHANGED <<empty, age, ref, job, addr, delivery, known, stop, disposing, raced>>
    BY <1>2 DEF Create
  <2> SUFFICES ASSUME NEW a \in Addresses, a = addr["rpc"], Owed(a)'
               PROVE  AwaitedFor(a)'
    BY <1>0, <2>1 DEF Awaited
  <2>3. AwaitedFor(a)
    BY <2>1 DEF Awaited, Owed
  <2>4. CASE addr[t] = a
    <3>1. queues'[a] = NoQueue /\ Replaced(a)'
      BY <1>0, <2>1, <2>4 DEF Replaced
    <3> QED
      BY <3>1 DEF AwaitedFor
  <2>5. CASE addr[t] # a
    <3>1. t # "rpc" /\ queues'[a] = queues[a] /\ (Passed' => Passed) /\ (Created' => Created)
      BY <1>0, <2>1, <2>5 DEF Passed, Created
    <3>2. Replaced(a) => Replaced(a)'
      BY <1>0, <2>1 DEF Replaced
    <3>3. ASSUME NEW q \in Queues, InUse(q) PROVE InUse(q)'
      BY <1>0, <2>1, <3>3 DEF InUse, HeldToPush, Holds
    <3> QED
      BY <1>0, <2>3, <3>1, <3>2, <3>3 DEF AwaitedFor
  <2> QED
    BY <2>4, <2>5
<1> QED
  BY <1>1, <1>2, <1>3

\* When the worker is started again no queue is registered or about to be.
LEMMA AwaitedJoin ==
  ASSUME TypeOK, WatchInv, JoinInv, Awaited, NEW t \in Creators, JoinWorker(t)
  PROVE  Awaited'
<1> USE DEF Goto, At, data, flags, config, locals, mutexes
<1>0. /\ pc \in [Threads -> Labels] /\ addr \in [Threads -> Addresses]
      /\ Creators = {"rpc", "listener", "reset"} /\ "rpc" \in Threads /\ t \in Threads
      /\ Threads = {"rpc", "listener", "reset", "worker", "central"}
  BY DEF TypeOK, Creators, Callers, Threads
<1>1. /\ stop /\ pc[t] = "JoinWorker" /\ pc'[t] = "Insert"
      /\ \A s \in Creators : s # t => pc'[s] = pc[s]
      /\ UNCHANGED <<queues, addr, delivery, known, disposing, raced>>
  BY <1>0 DEF JoinWorker, JoinInv
<1> SUFFICES ASSUME NEW a \in Addresses, a = addr["rpc"], Owed(a)'
             PROVE  AwaitedFor(a)'
  BY <1>0, <1>1 DEF Awaited
<1>3. AwaitedFor(a) /\ NoQueues /\ \A s \in Creators : pc[s] # "Insert"
  BY <1>1 DEF Awaited, Owed, WatchInv
<1>4. ~Created
  BY <1>3 DEF AwaitedFor, NoQueues, Replaced
<1>5. queues'[a] = NoQueue /\ ~Created'
  BY <1>0, <1>1, <1>3, <1>4 DEF NoQueues, Created
<1> QED
  BY <1>5 DEF AwaitedFor

LEMMA AwaitedInsert ==
  ASSUME TypeInv, UsableInv, Awaited, NEW t \in Creators, Insert(t)
  PROVE  Awaited'
<1>0. /\ pc \in [Threads -> Labels] /\ addr \in [Threads -> Addresses]
      /\ queues \in [Addresses -> Queues \union {NoQueue}]
      /\ "rpc" \in Threads /\ t \in Threads /\ Creators \subseteq Threads
  BY DEF TypeInv, TypeOK, Creators, Callers, Threads
<1> SUFFICES ASSUME NEW a \in Addresses, a = addr["rpc"], Owed(a)'
             PROVE  AwaitedFor(a)'
  BY <1>0, Inserted DEF Awaited
<1>2. AwaitedFor(a)
  BY Inserted DEF Awaited, Owed
<1>3. Passed' => Passed
  BY <1>0, Inserted DEF Passed
<1>4. ASSUME Passed', NEW q \in Queues, queues'[a] = q PROVE InUse(q)'
  <2>1. CASE q = nextID
    <3>1. age'[q] = 0 /\ pc'[t] = "Return" /\ job'[t] = q
      BY <1>0, <2>1, Inserted
    <3> QED
      BY <3>1 DEF InUse, HeldToPush, Holds
  <2>2. CASE q # nextID
    <3>1. queues[a] = q /\ q # NoQueue
      BY <1>4, <2>2, Inserted DEF Queues, NoQueue
    <3>2. InUse(q)
      BY <1>2, <1>3, <1>4, <3>1 DEF AwaitedFor
    <3>3. age'[q] = 0 /\ empty'[q] = empty[q]
      BY <2>2, <3>2, Inserted DEF InUse
    <3>4. ASSUME NEW s \in Creators, pc[s] \in {"Push", "Return"}
          PROVE  pc'[s] = pc[s] /\ ref'[s] = ref[s] /\ job'[s] = job[s]
      <4>1. s # t /\ s \in Threads
        BY <1>0, <3>4, Inserted
      <4> QED
        BY <1>0, <3>4, <4>1, Inserted
    <3> QED
      BY <3>2, <3>3, <3>4 DEF InUse, HeldToPush, Holds
  <2> QED
    BY <2>1, <2>2
<1>5. ASSUME Created' PROVE queues'[a] # NoQueue \/ Replaced(a)'
  <2>1. CASE addr[t] = a
    BY <2>1, Inserted
  <2>2. CASE addr[t] # a
    <3>1. t # "rpc" /\ Created
      BY <1>0, <1>5, <2>2, Inserted DEF Created
    <3>2. queues'[a] = queues[a] /\ (Replaced(a) => Replaced(a)')
      BY <1>0, <2>2, Inserted DEF Replaced
    <3> QED
      BY <1>2, <3>1, <3>2 DEF AwaitedFor
  <2> QED
    BY <2>1, <2>2
<1>6. queues'[a] \in Queues \union {NoQueue}
  BY <1>0, Inserted
<1> QED
  BY <1>4, <1>5, <1>6 DEF AwaitedFor

\* A queue that is pushed to has something to send.
LEMMA AwaitedPush ==
  ASSUME TypeOK, Awaited, NEW t \in Creators, Push(t)
  PROVE  Awaited'
<1> USE DEF Goto, At, data, flags, config, locals, mutexes
<1>0. /\ pc \in [Threads -> Labels] /\ addr \in [Threads -> Addresses]
      /\ queues \in [Addresses -> Queues \union {NoQueue}] /\ empty \in [Queues -> BOOLEAN]
      /\ ref \in [Threads -> Queues \union {NoQueue}]
      /\ "rpc" \in Threads /\ t \in Threads /\ Creators \subseteq Threads
  BY DEF TypeOK, Creators, Callers, Threads
<1>1. /\ pc[t] = "Push" /\ empty' = [empty EXCEPT ![ref[t]] = FALSE]
      /\ pc' = [pc EXCEPT ![t] = pc'[t]] /\ pc'[t] \notin {"Insert", "Return", "WorkerLock"}
      /\ ref' = [ref EXCEPT ![t] = NoQueue]
      /\ UNCHANGED <<queues, age, addr, job, delivery, known, stop, disposing, raced>>
  BY <1>0 DEF Push, DropRef, Finish, For, After, End
<1> SUFFICES ASSUME NEW a \in Addresses, a = addr["rpc"], Owed(a)'
             PROVE  AwaitedFor(a)'
  BY <1>0, <1>1 DEF Awaited
<1>2. AwaitedFor(a)
  BY <1>1 DEF Awaited, Owed
<1>3. (Passed' => Passed) /\ (Created' => Created) /\ (Replaced(a) => Replaced(a)')
  BY <1>0, <1>1 DEF Passed, Created, Replaced
<1>4. ASSUME NEW q \in Queues, InUse(q) PROVE InUse(q)'
  <2>1. age'[q] = 0 /\ (~empty[q] => ~empty'[q])
    BY <1>0, <1>1, <1>4 DEF InUse
  <2>2. ASSUME NEW s \in Creators, pc[s] = "Push", ref[s] = q
        PROVE  ~empty'[q] \/ (pc'[s] = "Push" /\ ref'[s] = q)
    <3>1. CASE s = t
      BY <1>0, <1>1, <2>2, <3>1
    <3>2. CASE s # t
      BY <1>0, <1>1, <2>2, <3>2
    <3> QED
      BY <3>1, <3>2
  <2>3. ASSUME NEW s \in Creators, pc[s] = "Return", job[s] = q
        PROVE  pc'[s] = "Return" /\ job'[s] = q
    BY <1>0, <1>1, <2>3
  <2> QED
    BY <1>4, <2>1, <2>2, <2>3 DEF InUse, HeldToPush, Holds
<1> QED
  BY <1>0, <1>1, <1>2, <1>3, <1>4 DEF AwaitedFor

\* The RPC thread gets a queue and holds it from now on.
LEMMA AwaitedGet ==
  ASSUME TypeOK, Get("rpc")
  PROVE  Awaited'
<1> USE DEF Goto, At, data, flags, config, locals, mutexes
<1>0. /\ pc \in [Threads -> Labels] /\ addr \in [Threads -> Addresses]
      /\ queues \in [Addresses -> Queues \union {NoQueue}]
      /\ ref \in [Threads -> Queues \union {NoQueue}] /\ "rpc" \in Threads /\ "rpc" \in Creators
  BY DEF TypeOK, Creators, Callers, Threads
<1>1. CASE Found("rpc") = NoQueue
  BY <1>0, <1>1, NothingAwaited DEF Get, Passed, Created
<1>2. CASE Found("rpc") # NoQueue
  <2>1. /\ pc'["rpc"] = "Push" /\ ref'["rpc"] = queues[addr["rpc"]]
        /\ \A q \in Queues : q = queues[addr["rpc"]] => age'[q] = 0
        /\ queues[addr["rpc"]] # NoQueue /\ UNCHANGED <<queues, addr>>
    BY <1>0, <1>2 DEF Get, Take, Found, KeepAlive
  <2> SUFFICES ASSUME NEW a \in Addresses, a = addr["rpc"] PROVE AwaitedFor(a)'
    BY <1>0, <2>1 DEF Awaited
  <2>2. ASSUME NEW q \in Queues, q = queues[a] PROVE InUse(q)'
    BY <1>0, <2>1, <2>2 DEF InUse, HeldToPush, Holds
  <2> QED
    BY <1>0, <2>1, <2>2 DEF AwaitedFor
<1> QED
  BY <1>1, <1>2

\* The acknowledgement that empties the queue is that of the configuration.
LEMMA AwaitedPop ==
  ASSUME TypeOK, Belongs, Awaited, Pop
  PROVE  Awaited'
<1> USE DEF Goto, At, data, flags, config, locals, mutexes
<1> DEFINE p == ref["listener"]
<1>0. /\ pc \in [Threads -> Labels] /\ addr \in [Threads -> Addresses]
      /\ queues \in [Addresses -> Queues \union {NoQueue}] /\ empty \in [Queues -> BOOLEAN]
      /\ ref \in [Threads -> Queues \union {NoQueue}] /\ delivery \in [Addresses -> Deliveries]
      /\ {"rpc", "listener"} \subseteq Creators /\ Creators \subseteq Threads
  BY DEF TypeOK, Creators, Callers, Threads
<1>1. /\ pc["listener"] = "Pop" /\ pc' = [pc EXCEPT !["listener"] = "Idle"]
      /\ ref' = [ref EXCEPT !["listener"] = NoQueue]
      /\ empty' = empty \/ (empty' = [empty EXCEPT ![p] = TRUE]
                             /\ (empty[p] \/ delivery'[addr["listener"]] # "due"))
      /\ \A a \in Addresses : delivery'[a] = "due" => delivery[a] = "due"
      /\ UNCHANGED <<queues, age, addr, job, known, stop, disposing, raced>>
  <2>1. PICK last \in BOOLEAN, nack \in BOOLEAN :
          /\ empty' = [empty EXCEPT ![p] = @ \/ last]
          /\ delivery' = [delivery EXCEPT ![addr["listener"]] =
                             IF empty[p] THEN @ ELSE IF nack THEN "refused"
                             ELSE IF last /\ @ # "refused" THEN "done" ELSE @]
    BY DEF Pop
  <2>2. \A a \in Addresses : delivery'[a] = "due" => delivery[a] = "due"
    BY <1>0, <2>1
  <2>3. CASE last
    <3>1. empty' = [empty EXCEPT ![p] = TRUE]
      BY <2>1, <2>3
    <3>2. empty[p] \/ delivery'[addr["listener"]] # "due"
      BY <1>0, <2>1, <2>3
    <3> QED
      BY <1>0, <2>2, <3>1, <3>2 DEF Pop, DropRef
  <2>4. CASE ~last
    <3>1. empty' = empty
      BY <1>0, <2>1, <2>4
    <3> QED
      BY <1>0, <2>2, <3>1 DEF Pop, DropRef
  <2> QED
    BY <2>3, <2>4
<1> SUFFICES ASSUME NEW a \in Addresses, a = addr["rpc"], Owed(a)'
             PROVE  AwaitedFor(a)'
  BY <1>0, <1>1 DEF Awaited
<1>2. AwaitedFor(a)
  BY <1>0, <1>1 DEF Awaited, Owed
<1>3. (Passed' => Passed) /\ (Created' => Created) /\ (Replaced(a) => Replaced(a)')
  BY <1>0, <1>1 DEF Passed, Created, Replaced
<1>4. ASSUME NEW q \in Queues, q = queues[a], q # NoQueue, InUse(q) PROVE InUse(q)'
  <2>1. HeldToPush(q) => HeldToPush(q)'
    BY <1>0, <1>1 DEF HeldToPush, Holds
  <2>2. CASE q # p
    BY <1>0, <1>1, <1>4, <2>1, <2>2 DEF InUse
  <2>3. CASE q = p /\ empty' # empty
    <3>1. addr["listener"] = a
      BY <1>0, <1>1, <1>4, <2>3 DEF Belongs
    <3>2. empty[q]
      BY <1>0, <1>1, <2>3, <3>1 DEF Owed
    <3> QED
      BY <1>1, <1>4, <2>1, <3>2 DEF InUse
  <2>4. CASE empty' = empty
    BY <1>1, <1>4, <2>1, <2>4 DEF InUse
  <2> QED
    BY <2>2, <2>3, <2>4
<1>5. \A q \in Queues : q # NoQueue
  BY DEF Queues, NoQueue
<1> QED
  BY <1>0, <1>1, <1>2, <1>3, <1>4, <1>5 DEF AwaitedFor

\* A queue in use is not reset.
LEMMA AwaitedReset ==
  ASSUME TypeOK, Awaited, ResetQueue
  PROVE  Awaited'
<1> USE DEF Goto, At, data, flags, config, locals, mutexes
<1> DEFINE b == addr["reset"]
           q == job["reset"]
<1>0. /\ pc \in [Threads -> Labels] /\ addr \in [Threads -> Addresses]
      /\ queues \in [Addresses -> Queues \union {NoQueue}] /\ b \in Addresses
      /\ {"rpc", "reset"} \subseteq Creators /\ Creators \subseteq Threads
  BY DEF TypeOK, Creators, Callers, Threads
<1>1. /\ pc["reset"] = "Reset" /\ \E l \in {"Done", "Unreach"} : pc' = [pc EXCEPT !["reset"] = l]
      /\ queues' = [queues EXCEPT ![b] = NoQueue] /\ Due(b, q) /\ ~Busy(b)
      /\ (stop => stop') /\ (raced => raced')
      /\ delivery' = [delivery EXCEPT ![b] = IF @ = "due" /\ Returning(q) THEN "lost" ELSE @]
      /\ UNCHANGED <<empty, age, addr, ref, job, known, disposing>>
  BY DEF ResetQueue, StopIfEmpty
<1>6. /\ delivery \in [Addresses -> Deliveries]
      /\ \A a \in Addresses : delivery'[a] = "due" => delivery[a] = "due" /\ (a = b => ~Returning(q))
  BY <1>0, <1>1 DEF TypeOK
<1> HIDE DEF q
<1> SUFFICES ASSUME NEW a \in Addresses, a = addr["rpc"], Owed(a)'
             PROVE  AwaitedFor(a)'
  BY <1>0, <1>1 DEF Awaited
<1>2. AwaitedFor(a)
  BY <1>0, <1>1, <1>6 DEF Awaited, Owed
<1>3. (Passed' => Passed) /\ (Created' => Created) /\ (Created => Passed) /\ (Replaced(a) => Replaced(a)')
  BY <1>0, <1>1 DEF Passed, Created, Replaced
<1>4. ASSUME NEW x \in Queues, InUse(x) PROVE InUse(x)'
  BY <1>0, <1>1, <1>4 DEF InUse, HeldToPush, Holds
<1>5. Passed => queues'[a] = queues[a]
  <2> SUFFICES ASSUME Passed, b = a, queues[a] # NoQueue PROVE FALSE
    BY <1>0, <1>1
  <2>1. queues[a] = q /\ InUse(q) /\ q # NoQueue
    BY <1>1, <1>2 DEF AwaitedFor, Due
  <2>2. ~HeldToPush(q)
    BY <1>0, <1>1, <1>6, <2>1 DEF Due, InUse, HeldToPush, Holds, Holders, Returning, Owed
  <2> QED
    BY <1>1, <2>1, <2>2 DEF Busy, InUse
<1> QED
  BY <1>0, <1>2, <1>3, <1>4, <1>5 DEF AwaitedFor

\* While the RPC thread polls time does not make its queue older.
LEMMA AwaitedAge ==
  ASSUME Prompt, TypeOK, JoinInv, Awaited, NEW q \in Queues, Age(q)
  PROVE  Awaited'
<1> USE DEF data, flags, config, locals, mutexes
<1>0. /\ addr \in [Threads -> Addresses] /\ queues \in [Addresses -> Queues \union {NoQueue}]
      /\ "rpc" \in Threads
  BY DEF TypeOK, Creators, Callers, Threads
<1>1. /\ pc["rpc"] \in Waiting \/ Blocked("rpc")
      /\ pc["rpc"] = "Poll" => queues[addr["rpc"]] # q
      /\ age' = [age EXCEPT ![q] = @ + 1]
      /\ UNCHANGED <<queues, empty, ref, job, addr, delivery, known, stop, disposing, raced, pc>>
  BY <1>0 DEF Age, TimePasses
<1>2. Passed /\ ~disposing => pc["rpc"] = "Poll"
  <2>1. workerOwner # NoThread => stop \/ disposing
    BY DEF TypeOK, JoinInv
  <2> QED
    BY <1>1, <2>1 DEF Passed, Blocked, Waiting
<1> SUFFICES ASSUME NEW a \in Addresses, a = addr["rpc"], Owed(a)'
             PROVE  AwaitedFor(a)'
  BY <1>0, <1>1 DEF Awaited
<1>3. AwaitedFor(a)
  BY <1>1 DEF Awaited, Owed
<1>4. (Passed' => Passed) /\ (Created' => Created) /\ (Replaced(a) => Replaced(a)')
  BY <1>1 DEF Passed, Created, Replaced
<1>5. ASSUME NEW x \in Queues, x # q, InUse(x) PROVE InUse(x)'
  BY <1>1, <1>5 DEF InUse, HeldToPush, Holds, TypeOK
<1> QED
  BY <1>0, <1>1, <1>2, <1>3, <1>4, <1>5 DEF AwaitedFor, Owed

\* createQueue returns the queue: the thread still holds it.
LEMMA AwaitedReturn ==
  ASSUME TypeOK, Awaited, NEW t \in Creators, Return(t)
  PROVE  Awaited'
<1> USE DEF Goto, At, data, flags, config, locals, mutexes
<1>0. /\ pc \in [Threads -> Labels] /\ addr \in [Threads -> Addresses]
      /\ queues \in [Addresses -> Queues \union {NoQueue}]
      /\ ref \in [Threads -> Queues \union {NoQueue}] /\ job \in [Threads -> Queues \union {NoQueue}]
      /\ "rpc" \in Threads /\ t \in Threads /\ Creators \subseteq Threads
  BY DEF TypeOK, Creators, Callers, Threads
<1>1. /\ pc[t] = "Return" /\ pc' = [pc EXCEPT ![t] = "Push"]
      /\ ref' = [ref EXCEPT ![t] = job[t]] /\ job' = [job EXCEPT ![t] = NoQueue]
      /\ UNCHANGED <<queues, empty, age, addr, delivery, known, stop, disposing, raced>>
  BY DEF Return
<1> SUFFICES ASSUME NEW a \in Addresses, a = addr["rpc"], Owed(a)'
             PROVE  AwaitedFor(a)'
  BY <1>0, <1>1 DEF Awaited
<1>2. AwaitedFor(a)
  BY <1>1 DEF Awaited, Owed
<1>3. (Passed' => Passed) /\ (Created' => Created) /\ (Replaced(a) => Replaced(a)')
  BY <1>0, <1>1 DEF Passed, Created, Replaced
<1>4. ASSUME NEW q \in Queues, InUse(q) PROVE InUse(q)'
  <2>1. ASSUME NEW s \in Creators, pc[s] \in {"Push", "Return"}, s # t
        PROVE  pc'[s] = pc[s] /\ ref'[s] = ref[s] /\ job'[s] = job[s]
    BY <1>0, <1>1, <2>1
  <2>2. pc'[t] = "Push" /\ ref'[t] = job[t]
    BY <1>0, <1>1
  <2> QED
    BY <1>1, <1>4, <2>1, <2>2 DEF InUse, HeldToPush, Holds
<1> QED
  BY <1>0, <1>1, <1>2, <1>3, <1>4 DEF AwaitedFor

LEMMA AwaitedStep ==
  ASSUME Prompt, PollInv, TypeInv', NoMutualJoin, [Next]_vars
  PROVE  Awaited'
<1> USE DEF Goto, At, data, flags, config, locals, mutexes
<1>0. /\ TypeOK /\ Awaited /\ pc \in [Threads -> Labels] /\ age \in [Queues -> 0..2]
      /\ job \in [Threads -> Queues \union {NoQueue}] /\ addr \in [Threads -> Addresses]
      /\ Creators = {"rpc", "listener", "reset"} /\ Callers = {"rpc", "listener"}
      /\ Threads = {"rpc", "listener", "reset", "worker", "central"}
  BY DEF PollInv, TypeInv, TypeOK, Creators, Callers, Threads
<1>1. \A q : KeepAlive(q) => \A x \in Queues : age'[x] \in {age[x], 0}
  BY DEF KeepAlive
<1>2. ASSUME NEW t \in Creators, Enqueuing(t)
      PROVE  Awaited'
  <2>1. CASE EnqueueLock(t)
    <3>1. CASE t = "rpc" /\ ~known[addr[t]]
      BY <1>0, <2>1, <3>1 DEF EnqueueLock, Awaited, Owed
    <3>2. CASE t # "rpc" \/ known[addr[t]]
      BY <1>0, <2>1, <3>2, AwaitedKept DEF EnqueueLock, Finish, For, After, End, Passed, Created, Owed
    <3> QED
      BY <3>1, <3>2
  <2>2. CASE Get(t)
    <3>1. CASE t = "rpc"
      BY <1>0, <2>2, <3>1, AwaitedGet
    <3>2. CASE t # "rpc"
      BY <1>0, <1>1, <2>2, <3>2, AwaitedKept DEF Get, Take, Passed, Created, Owed
    <3> QED
      BY <3>1, <3>2
  <2>3. CASE Create(t)
    BY <1>0, <2>3, AwaitedCreate
  <2>4. CASE WorkerLock(t)
    <3>1. CASE disposing
      BY <1>0, <2>4, <3>1 DEF WorkerLock, Awaited, Owed
    <3>2. CASE ~disposing
      BY <1>0, <2>4, <3>2, AwaitedKept DEF WorkerLock, Passed, Created, Owed
    <3> QED
      BY <3>1, <3>2
  <2>5. CASE JoinWorker(t)
    BY <2>5, AwaitedJoin DEF PollInv, TypeInv
  <2>6. CASE Insert(t)
    BY <2>6, AwaitedInsert DEF PollInv
  <2>7. CASE Push(t)
    BY <1>0, <2>7, AwaitedPush
  <2>8. CASE Return(t)
    BY <1>0, <2>8, AwaitedReturn
  <2> QED
    BY <1>2, <2>1, <2>2, <2>3, <2>4, <2>5, <2>6, <2>7, <2>8 DEF Enqueuing
<1>3. CASE Calls
  <2>1. ASSUME NEW t \in Callers, NEW l \in {"EnqueueLock", "Create", "GetAck", "Idle"}, NEW a \in Addresses, Begin(t, l, a),
               t = "listener" => UNCHANGED config, UNCHANGED <<data, flags, ref, job>>
        PROVE  Awaited'
    <3>1. CASE t = "rpc"
      BY <1>0, <2>1, <3>1, NothingAwaited DEF Begin, Passed, Created
    <3>2. CASE t = "listener"
      BY <1>0, <2>1, <3>2, AwaitedKept DEF Begin, Passed, Created, Owed, TypeOK
    <3> QED
      BY <1>0, <3>1, <3>2
  <2>2. ASSUME NEW a \in Addresses, NEW kind \in {"link", "create"}, CallCreate(a, kind)
        PROVE  Awaited'
    <3>1. CASE listens[a] \/ kind = "create"
      BY <1>0, <2>1, <2>2, <3>1 DEF CallCreate, After, End
    <3>2. CASE ~listens[a]
      <4>1. addr'["rpc"] = a /\ delivery'[a] = "parked"
        BY <1>0, <2>2, <3>2 DEF CallCreate, Begin, TypeOK
      <4> QED
        BY <4>1 DEF Awaited, Owed
    <3> QED
      BY <2>2, <3>1, <3>2
  <2>3. ASSUME NEW a \in Addresses, Forget(a)
        PROVE  Awaited'
    <3>1. /\ \A b \in Addresses : Owed(b)' => Owed(b)
          /\ UNCHANGED <<queues, empty, age, ref, job, addr, stop, pc>>
      BY <2>3 DEF Forget, Owed, TypeOK
    <3> QED
      BY <1>0, <3>1, AwaitedKept DEF Passed, Created
  <2> QED
    BY <1>0, <1>3, <2>1, <2>2, <2>3 DEF Calls, CallAck, CallEnqueue, CallConfigure, CallPair
<1>4. CASE Poll \/ PollEnd
  <2>1. CASE Poll
    BY <1>0, <1>1, <2>1, AwaitedKept DEF Poll, PollWhile, Passed, Created, Owed
  <2>2. CASE PollEnd
    BY <1>0, <2>2, NothingAwaited DEF PollEnd, Passed, Created
  <2> QED
    BY <1>4, <2>1, <2>2
<1>5. CASE GetAck
  BY <1>0, <1>1, <1>5, AwaitedKept DEF GetAck, Take, Passed, Created, Owed
<1>6. CASE Pop
  BY <1>6, AwaitedPop DEF PollInv, TypeInv
<1>7. CASE Worker
  <2>1. CASE Wake
    BY <1>0, <2>1, AwaitedKept DEF Wake, Passed, Created, Owed
  <2>2. CASE Fetch
    <3>1. /\ \A t \in Creators : pc'[t] = pc[t] /\ addr'[t] = addr[t] /\ job'[t] = job[t]
          /\ UNCHANGED <<queues, empty, age, ref, delivery, known, stop, disposing, raced>>
      BY <1>0, <2>2 DEF Fetch, FetchUnless
    <3> QED
      BY <1>0, <3>1, AwaitedKept DEF Passed, Created, Owed
  <2>3. CASE JoinReset
    <3>1. ~Running("reset")
      BY <2>3 DEF JoinReset, Blocked, NoMutualJoin
    <3>2. /\ pc'["rpc"] = pc["rpc"] /\ pc'["listener"] = pc["listener"] /\ pc["reset"] \in {"Idle", "Done"}
          /\ addr'["rpc"] = addr["rpc"] /\ addr'["listener"] = addr["listener"]
          /\ job'["rpc"] = job["rpc"] /\ job'["listener"] = job["listener"]
          /\ UNCHANGED <<queues, empty, age, ref, delivery, known, stop, disposing, raced>>
      BY <1>0, <2>3, <3>1 DEF JoinReset, Running
    <3> QED
      BY <1>0, <3>2, AwaitedKept DEF Passed, Created, Owed
  <2> QED
    BY <1>7, <2>1, <2>2, <2>3 DEF Worker
<1>8. CASE ResetEarly \/ ResetNothing \/ Unreach
  <2>1. /\ pc["reset"] \in {"Reset", "Unreach"}
        /\ \E l \in {"Done", "EnqueueLock"} : pc' = [pc EXCEPT !["reset"] = l]
        /\ UNCHANGED <<queues, empty, age, ref, job, addr, delivery, known, disposing>>
        /\ (stop => stop') /\ (raced => raced')
    <3>1. CASE ResetEarly
      BY <3>1 DEF ResetEarly
    <3>2. CASE ResetNothing
      BY <3>2 DEF ResetNothing
    <3>3. CASE Unreach
      BY <3>3 DEF Unreach
    <3> QED
      BY <1>8, <3>1, <3>2, <3>3
  <2> QED
    BY <1>0, <2>1, AwaitedKept DEF Passed, Created, Owed
<1>9. CASE ResetQueue
  BY <1>0, <1>9, AwaitedReset
<1>10. CASE Dispose \/ Destructor
  BY <1>0, <1>10, AwaitedKept DEF Dispose, Destructor, Destroy, DestroyWorker, DestroyJoin, JoinAndGoto, DestroyReset, Passed, Created, Owed
<1>11. CASE \E q \in Queues : Age(q)
  BY <1>11, AwaitedAge DEF PollInv, TypeInv
<1>12. CASE UNCHANGED vars
  BY <1>0, <1>12, AwaitedKept DEF vars, Passed, Created, Owed
<1> QED
  BY <1>0, <1>2, <1>3, <1>4, <1>5, <1>6, <1>7, <1>8, <1>9, <1>10, <1>11, <1>12
     DEF Next, Rpc, Listener, Reset

\* Only the end of the polling clears the message.
LEMMA ClearsPending ==
  ASSUME TypeOK, [Next]_vars, NEW a \in Addresses, configPending[a], ~configPending'[a]
  PROVE  PollEnd /\ addr["rpc"] = a /\ Found("rpc") = NoQueue
<1> USE DEF data, flags, config, locals, mutexes
<1>1. ~\E t \in Creators : Enqueuing(t)
  BY DEF Enqueuing, EnqueueLock, Get, Create, WorkerLock, JoinWorker, Insert, Return, Push
<1>2. ~Calls
  BY DEF Calls, CallAck, CallEnqueue, CallCreate, CallConfigure, CallPair, Forget, TypeOK
<1>3. ~(Poll \/ GetAck \/ Pop \/ Worker)
  BY DEF Poll, PollWhile, GetAck, Pop, Worker, Wake, Fetch, FetchUnless, JoinReset
<1>4. ~(ResetEarly \/ ResetNothing \/ ResetQueue \/ Unreach \/ Dispose \/ Destructor)
  BY DEF ResetEarly, ResetNothing, ResetQueue, Unreach, Dispose, Destructor, Destroy, DestroyWorker, DestroyJoin, JoinAndGoto, DestroyReset
<1>5. ~(\E q \in Queues : Age(q)) /\ ~UNCHANGED vars
  BY DEF Age, vars
<1>6. PollEnd
  BY <1>1, <1>2, <1>3, <1>4, <1>5 DEF Next, Rpc, Listener, Reset, Creators, Callers
<1> QED
  BY <1>6 DEF PollEnd, TypeOK

\* With prompt threads, and as long as the worker and the reset thread never
\* join each other, putParamset clears CONFIG_PENDING only when the device has
\* its configuration, for any number of devices, calls and polls: the queue it
\* polls for is not reset before.  The exceptions are those ConfigDelivered names.
THEOREM ClearedWhenDelivered ==
  ASSUME Prompt
  PROVE  Spec /\ []NoMutualJoin => ConfigDelivered
<1>1. Init => JoinInv /\ Belongs /\ Awaited
  BY DEF Init, JoinInv, Belongs, Awaited, Owed, AwaitedFor, Passed, Created,
     Threads, Creators, Callers, NoThread
<1>2. TypeInv /\ TypeInv' /\ UsableInv /\ WatchInv /\ NoMutualJoin /\ JoinInv /\ Belongs /\ Awaited /\ [Next]_vars
        => JoinInv' /\ Belongs' /\ Awaited'
  BY JoinStep, BelongsStep, AwaitedStep DEF PollInv, TypeInv
<1>3. ASSUME TypeInv, Awaited, [Next]_vars, NEW a \in Addresses, configPending[a], ~configPending'[a]
      PROVE  delivery[a] # "due" \/ ~known[a] \/ disposing \/ raced \/ Replaced(a)
  <2>1. PollEnd /\ addr["rpc"] = a /\ Found("rpc") = NoQueue
    BY <1>3, ClearsPending DEF TypeInv
  <2>2. pc["rpc"] = "PollEnd" /\ (disposing \/ queues[a] = NoQueue)
    BY <2>1 DEF PollEnd, At, Found
  <2> QED
    BY <1>3, <2>1, <2>2 DEF Awaited, Owed, AwaitedFor, Created
<1>4. TypeInv /\ Awaited /\ [Next]_vars =>
        [\A a \in Addresses : configPending[a] /\ ~configPending'[a] =>
           delivery[a] # "due" \/ ~known[a] \/ disposing \/ raced \/ Replaced(a)]_vars
  BY <1>3
<1> QED
  BY <1>1, <1>2, <1>4, TypeInvariant, UsableInvariant, WatchInvariant, PTL DEF Spec, ConfigDelivered
=============================================================================
