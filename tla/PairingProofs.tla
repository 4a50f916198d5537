----------------------------- MODULE PairingProofs -----------------------------
(* Proofs about Pairing for any number of calls, requests and transmissions    *)
(* and any duration of the install mode.                                       *)
EXTENDS Pairing, FiniteSetTheorems, TLAPS

TimerType ==
    /\ timeLeft \in 0..Duration /\ elapsed \in 0..Duration
    /\ pairing \in BOOLEAN /\ stopTimer \in BOOLEAN /\ disposing \in BOOLEAN /\ late \in BOOLEAN
Types == TimerType /\ pc \in [Threads -> Labels]

\* Which labels belong to whom.
Places ==
    /\ pc["timer"] \in {"Idle", "Start", "Loop", "Done"}
    /\ pc["unpair"] \in {"Idle", "Reset", "ResetQueue", "Done"}
    /\ pc["central"] \in {"Idle", "UnpairLock", "UnpairJoin", "StopTimer", "StopTimerJoin", "Disposed"}
    /\ pc["listener"] \notin {"UnpairLock", "UnpairJoin"}

\* The mutex of the install mode is held by the thread that joins the timer.
ModeExclusive ==
    /\ \A t \in {"rpc", "listener"} : pc[t] = "ModeJoin" <=> modeOwner = t
    /\ pc["central"] = "StopTimerJoin" <=> modeOwner = "central"

\* How far dispose is, and what has ended by then.
Disposing == disposing <=> pc["central"] # "Idle"
Closed ==
    /\ disposing /\ ~late => pc["rpc"] \notin {"UnpairLock", "UnpairJoin"}
    /\ pc["central"] \in {"StopTimer", "StopTimerJoin", "Disposed"} => ~Running("unpair") \/ late
    /\ Gone => ~Running("timer") /\ \A t \in {"rpc", "listener"} : pc[t] # "ModeJoin"

IInv == Types /\ Places /\ ModeExclusive /\ Disposing /\ Closed /\ ModeFollowsTimer

\* Steps that only move threads which neither start nor join the others.
Elsewhere == {"Idle", "Poll", "Delete", "Erase", "EraseWait", "Access", "AccessPeer", "Request",
              "Include", "Ack", "Add", "Save", "AddID", "AckPop", "ModeLock", "Done"}
Aside ==
    /\ UNCHANGED <<mode, mutexes, disposing, late>>
    /\ \/ UNCHANGED pc
       \/ \E t \in {"rpc", "listener"}, l \in Elsewhere :
             /\ Goto(t, l) /\ pc[t] \in Elsewhere

LEMMA AsideKeeps ==
  ASSUME IInv, Aside
  PROVE  IInv'
<1> USE DEF IInv, Aside, mode, mutexes
<1>1. Types'
  BY DEF Types, TimerType, Goto, Elsewhere, Labels
<1>2. /\ UNCHANGED <<pc["timer"], pc["unpair"], pc["central"]>>
      /\ \A t \in {"rpc", "listener"} :
            \/ pc'[t] = pc[t]
            \/ pc[t] \in Elsewhere /\ pc'[t] \in Elsewhere
  BY DEF Types, Goto, Threads
<1>3. Places' /\ ModeExclusive' /\ Disposing' /\ Closed' /\ ModeFollowsTimer'
  BY <1>2 DEF Places, ModeExclusive, Disposing, Closed, ModeFollowsTimer, Running, Gone, Elsewhere
<1> QED  BY <1>1, <1>3

LEMMA AsideSteps ==
  /\ Press \/ Transmit \/ Grow \/ Forget \/ Expire \/ UNCHANGED vars => Aside
  /\ Poll \/ Receive \/ Access \/ AccessPeer \/ Request \/ Include \/ Nack \/ Ack => Aside
  /\ Add \/ Save \/ AddID \/ AckPop => Aside
  /\ \A t \in {"rpc", "listener"} : Delete(t) \/ Erase(t) \/ EraseWait(t) => Aside
<1> USE DEF Aside, Elsewhere, At, history, Finish, Continue, Return
<1>1. Press \/ Transmit \/ Grow \/ Forget \/ Expire \/ UNCHANGED vars => Aside
  BY DEF Press, Transmit, Grow, Forget, Expire, vars
<1>2. Poll \/ Receive \/ Access \/ AccessPeer => Aside
  BY DEF Poll, Receive, Access, AccessPeer
<1>3. Request \/ Include \/ Nack \/ Ack => Aside
  BY DEF Request, Include, Nack, Ack
<1>4. Add \/ Save \/ AddID \/ AckPop => Aside
  BY DEF Add, Save, AddID, AckPop
<1>5. \A t \in {"rpc", "listener"} : Delete(t) \/ Erase(t) \/ EraseWait(t) => Aside
  BY DEF Delete, Erase, EraseLeaving, EraseWait
<1> QED  BY <1>1, <1>2, <1>3, <1>4, <1>5

LEMMA CallKeeps ==
  ASSUME IInv, ApiCalls
  PROVE  IInv'
<1>1. PICK l \in {"ModeLock", "UnpairLock", "Idle"} :
        /\ Goto("rpc", l) /\ pc["rpc"] = "Idle" /\ ~disposing
        /\ UNCHANGED <<mode, mutexes, disposing, late>>
  BY DEF ApiCalls, CallSetInstallMode, CallDeleteDevice, Configure, Call, At, history
<1>2. CASE l # "UnpairLock"
  <2>1. Aside
    BY <1>1, <1>2 DEF Aside, Elsewhere
  <2> QED  BY <2>1, AsideKeeps
<1>3. CASE l = "UnpairLock"
  BY <1>1, <1>3 DEF IInv, Types, TimerType, Labels, Goto, mode, mutexes, Places, ModeExclusive, Disposing, Closed,
                    ModeFollowsTimer, Running, Gone, Threads
<1> QED  BY <1>2, <1>3

\* setInstallMode, on the RPC thread or the listener.
LEMMA ModeLockKeeps ==
  ASSUME IInv, NEW t \in {"rpc", "listener"}, ModeLock(t)
  PROVE  IInv'
<1>1. CASE disposing
  <2>1. Aside
    BY <1>1 DEF ModeLock, ModeLockIf, Aside, mode, mutexes, history, Return, At, Elsewhere
  <2> QED  BY <2>1, AsideKeeps
<1>2. CASE ~disposing
  <2>1. /\ pc[t] = "ModeLock" /\ modeOwner = NoThread /\ modeOwner' = t /\ stopTimer'
        /\ stopTimer' \in BOOLEAN
        /\ pc' = [pc EXCEPT ![t] = "ModeJoin"]
        /\ UNCHANGED <<pairing, timeLeft, elapsed, disposing, late>>
    BY <1>2 DEF ModeLock, ModeLockIf, ModeEnter, At, Blocked, Goto, history
  <2> QED
    BY <1>2, <2>1 DEF IInv, Types, TimerType, Labels, Places, ModeExclusive, Disposing, Closed,
                      ModeFollowsTimer, Running, Gone, Threads, NoThread
<1> QED  BY <1>1, <1>2

LEMMA ModeJoinKeeps ==
  ASSUME IInv, NEW t \in {"rpc", "listener"}, ModeJoin(t)
  PROVE  IInv'
<1>1. /\ pc[t] = "ModeJoin" /\ ~Running("timer")
      /\ ~stopTimer' /\ stopTimer' \in BOOLEAN /\ modeOwner' = NoThread
      /\ \/ pc' = [pc EXCEPT ![t] = Return(t)] /\ timeLeft' = 0
         \/ pc' = [pc EXCEPT ![t] = Return(t), !["timer"] = "Start"] /\ timeLeft' = Duration
      /\ UNCHANGED <<pairing, elapsed, disposing, late>>
  <2>1. CASE On(t)
    BY <2>1 DEF ModeJoin, ModeJoinShowing, At, Blocked, history
  <2>2. CASE ~On(t)
    <3>1. [pc EXCEPT ![t] = Return(t), !["timer"] = @] = [pc EXCEPT ![t] = Return(t)]
      BY DEF IInv, Types, Threads
    <3> QED  BY <2>2, <3>1 DEF ModeJoin, ModeJoinShowing, At, Blocked, history
  <2> QED  BY <2>1, <2>2
<1>2. ~Gone
  BY <1>1 DEF IInv, Closed
<1> QED
  BY <1>1, <1>2, PairingAssumption
     DEF IInv, Types, TimerType, Labels, Places, ModeExclusive, Disposing, Closed, ModeFollowsTimer, Running,
         Gone, Threads, NoThread, Return

LEMMA TimerKeeps ==
  ASSUME IInv, Timer
  PROVE  IInv'
<1>1. /\ UNCHANGED <<stopTimer, mutexes, disposing, late>> /\ Running("timer")
      /\ \A t \in Threads : t # "timer" => pc'[t] = pc[t]
      /\ pc' \in [Threads -> Labels]
      /\ \/ pc'["timer"] = "Loop" /\ elapsed' = 0 /\ timeLeft' = Duration /\ pairing'
         \/ /\ pc'["timer"] = "Loop" /\ elapsed < Duration /\ elapsed' = elapsed + 1
            /\ timeLeft' = Duration - elapsed' /\ UNCHANGED pairing
         \/ pc'["timer"] = "Done" /\ elapsed' = 0 /\ timeLeft' = 0 /\ ~pairing'
      /\ pairing' \in BOOLEAN
  <2> USE DEF IInv, Types, TimerType, Labels, At, Running, Goto, history, Threads
  <2>1. CASE TimerStart  BY <2>1 DEF TimerStart
  <2>2. CASE TimerTick   BY <2>2 DEF TimerTick
  <2>3. CASE TimerEnd    BY <2>3 DEF TimerEnd
  <2> QED  BY <2>1, <2>2, <2>3 DEF Timer
<1>2. ~Gone
  BY <1>1 DEF IInv, Closed
<1> QED
  BY <1>1, <1>2, PairingAssumption
     DEF IInv, Types, TimerType, mutexes, Places, ModeExclusive, Disposing, Closed, ModeFollowsTimer, Running,
         Gone, Threads

\* deleteDevice with its thread.
LEMMA UnpairKeeps ==
  ASSUME IInv, UnpairLock \/ UnpairJoin \/ Unpair
  PROVE  IInv'
<1>1. /\ UNCHANGED <<mode, modeOwner, disposing, late>>
      /\ pc["timer"] = pc'["timer"] /\ pc["central"] = pc'["central"] /\ pc["listener"] = pc'["listener"]
      /\ pc' \in [Threads -> Labels]
      /\ \/ /\ pc["rpc"] = "UnpairLock" /\ pc'["rpc"] = "UnpairJoin" /\ UNCHANGED pc["unpair"]
         \/ pc["rpc"] = "UnpairJoin" /\ pc'["rpc"] \in {"Poll", "Delete"} /\ pc'["unpair"] = "Reset"
         \/ UNCHANGED pc["rpc"] /\ Running("unpair") /\ pc'["unpair"] \in {"ResetQueue", "Done"}
  <2> USE DEF IInv, Types, Labels, At, Running, Goto, history, Threads, mode, mutexes
  <2>1. CASE UnpairLock  BY <2>1 DEF UnpairLock
  <2>2. CASE UnpairJoin  BY <2>2 DEF UnpairJoin
  <2>3. CASE Unpair      BY <2>3 DEF Unpair, Reset, ResetQueue
  <2> QED  BY <2>1, <2>2, <2>3
<1>2. pc["rpc"] \in {"UnpairLock", "UnpairJoin"} => late \/ pc["central"] = "Idle"
  BY DEF IInv, Closed, Disposing
<1> QED
  BY <1>1, <1>2
     DEF IInv, Types, TimerType, mode, Places, ModeExclusive, Disposing, Closed, ModeFollowsTimer, Running,
         Gone, Threads

\* dispose waits for one thread after the other.
LEMMA DisposeKeeps ==
  ASSUME IInv, Dispose \/ Disposal
  PROVE  IInv'
<1>1. /\ \A t \in Threads : t # "central" => pc'[t] = pc[t]
      /\ pc' \in [Threads -> Labels]
  BY DEF IInv, Types, Labels, Dispose, Disposal, StopUnpair, StopUnpairJoin, StopTimer, StopTimerJoin, At, Goto, Threads
<1>2. CASE Dispose
  <2>1. /\ UNCHANGED <<mode, mutexes>> /\ pc["central"] = "Idle" /\ pc'["central"] = "UnpairLock"
        /\ disposing' = TRUE /\ late' = (pc["rpc"] \in {"UnpairLock", "UnpairJoin"})
    BY <1>2 DEF IInv, Types, Dispose, At, Goto, Threads
  <2>2. Types' /\ Places' /\ ModeExclusive' /\ ModeFollowsTimer'
    BY <1>1, <2>1
       DEF IInv, Types, TimerType, mode, mutexes, Places, ModeExclusive, ModeFollowsTimer, Running, Threads
  <2>3. Disposing' /\ Closed'
    BY <1>1, <2>1 DEF Disposing, Closed, Gone, Threads
  <2> QED  BY <2>2, <2>3 DEF IInv
<1>3. CASE StopUnpair \/ StopUnpairJoin
  <2>1. /\ UNCHANGED <<mode, modeOwner, disposing, late>>
        /\ \/ pc["central"] = "UnpairLock" /\ pc'["central"] = "UnpairJoin"
           \/ pc["central"] = "UnpairJoin" /\ pc'["central"] = "StopTimer" /\ ~Running("unpair")
    BY <1>3 DEF IInv, Types, StopUnpair, StopUnpairJoin, At, Blocked, Goto, Threads, history
  <2> QED
    BY <1>1, <2>1
       DEF IInv, Types, TimerType, mode, Places, ModeExclusive, Disposing, Closed, ModeFollowsTimer,
           Running, Gone, Threads
<1>4. CASE StopTimer
  <2>1. /\ UNCHANGED <<pairing, timeLeft, elapsed, disposing, late>> /\ stopTimer' = TRUE
        /\ modeOwner = NoThread /\ modeOwner' = "central"
        /\ pc["central"] = "StopTimer" /\ pc'["central"] = "StopTimerJoin"
    BY <1>4 DEF IInv, Types, StopTimer, At, Blocked, Goto, Threads, history
  <2> QED
    BY <1>1, <2>1
       DEF IInv, Types, TimerType, Places, ModeExclusive, Disposing, Closed, ModeFollowsTimer,
           Running, Gone, Threads, NoThread
<1>5. CASE StopTimerJoin
  <2>1. /\ UNCHANGED <<mode, disposing, late>> /\ ~Running("timer")
        /\ modeOwner' = NoThread
        /\ pc["central"] = "StopTimerJoin" /\ pc'["central"] = "Disposed"
    BY <1>5 DEF IInv, Types, StopTimerJoin, At, Blocked, Goto, Threads, history
  <2>2. \A t \in {"rpc", "listener"} : pc[t] # "ModeJoin"
    BY <2>1 DEF IInv, ModeExclusive
  <2> QED
    BY <1>1, <2>1, <2>2
       DEF IInv, Types, TimerType, mode, Places, ModeExclusive, Disposing, Closed, ModeFollowsTimer,
           Running, Gone, Threads, NoThread
<1> QED  BY <1>2, <1>3, <1>4, <1>5 DEF Disposal

LEMMA InitIInv == Init => IInv
<1> SUFFICES ASSUME Init PROVE IInv
  OBVIOUS
<1>1. \A t \in Threads : pc[t] = "Idle"
  BY DEF Init
<1>2. Types
  <2>1. timeLeft = 0 /\ elapsed = 0 /\ 0 \in 0..Duration
    BY PairingAssumption DEF Init
  <2>2. pc \in [Threads -> Labels]
    BY DEF Init, Labels
  <2>3. pairing = FALSE /\ stopTimer = FALSE /\ disposing = FALSE /\ late = FALSE
    BY DEF Init
  <2> QED  BY <2>1, <2>2, <2>3 DEF Types, TimerType
<1>3. Places /\ Disposing /\ Closed /\ ModeFollowsTimer
  BY <1>1 DEF Init, Places, Disposing, Closed, ModeFollowsTimer, Running, Gone, Threads
<1>4. ModeExclusive
  BY <1>1 DEF Init, ModeExclusive, NoThread, Threads
<1> QED  BY <1>2, <1>3, <1>4 DEF IInv

LEMMA NextIInv == IInv /\ [Next]_vars => IInv'
<1> SUFFICES ASSUME IInv, [Next]_vars PROVE IInv'
  OBVIOUS
<1>1. CASE ApiCalls  BY <1>1, CallKeeps
<1>2. CASE Rpc
  BY <1>2, AsideKeeps, AsideSteps, UnpairKeeps, ModeLockKeeps, ModeJoinKeeps DEF Rpc
<1>3. CASE Listener
  BY <1>3, AsideKeeps, AsideSteps, ModeLockKeeps, ModeJoinKeeps DEF Listener
<1>4. CASE Timer \/ Unpair \/ Dispose \/ Disposal
  BY <1>4, TimerKeeps, UnpairKeeps, DisposeKeeps
<1>5. CASE Transmit \/ Expire \/ Environment \/ (Gone /\ UNCHANGED vars) \/ UNCHANGED vars
  BY <1>5, AsideKeeps, AsideSteps DEF Environment
<1> QED  BY <1>1, <1>2, <1>3, <1>4, <1>5 DEF Next

\* The install mode is on only while its timer runs, and the time left that the
\* user sees runs out no sooner than the timer, whoever switches it on or off.
THEOREM InstallModeEnds == Spec => []ModeFollowsTimer
<1>1. IInv => ModeFollowsTimer
  BY DEF IInv
<1> QED  BY InitIInv, NextIInv, <1>1, PTL DEF Spec

\* A disposed central has no timer and no unpair thread left, unless deleteDevice
\* was under way when dispose was called: the mutexes that order the joins do
\* the rest, for any number of calls.
THEOREM CentralQuiesces == Spec => []QuietWhenDisposed
<1>1. IInv => QuietWhenDisposed
  BY DEF IInv, Closed, Gone, QuietWhenDisposed
<1> QED  BY InitIInv, NextIInv, <1>1, PTL DEF Spec

-----------------------------------------------------------------------------
(* The maps of peers.  A queue keeps its peer as long as the listener holds  *)
(* it, so the numbers of queues have to be those of existing ones: each is   *)
(* created for one request or one call.                                      *)

QueueTypes == {"DEFAULT", "PAIRING", "UNPAIRING", "CONFIG"}
Packets == {"include", "reset", "other", "answer"}
Entry == [type : QueueTypes, peer : Nat, entries : Seq(Packets), sends : Nat]
Arguments == [on : BOOLEAN, peer : Nat, force : BOOLEAN]
PeerType ==
    /\ ref \in [Threads -> Nat] /\ peerCount \in Nat /\ byAddress \in Nat /\ byID \subseteq Nat
    /\ want \in Arguments /\ unpairID \in Nat
AirType ==
    /\ air \in Seq(Message) /\ message \in Message \union {NoMessage}
    /\ calls \in 0..Calls /\ requests \in 0..Requests
DataType ==
    /\ queue \in [Queues -> Entry]
    /\ queueCount \in Nat /\ registered \in 0..queueCount /\ held \in 0..queueCount
    /\ PeerType /\ AirType

\* What is still to lead to a queue.
Asked(a) == {i \in DOMAIN a : a[i].type = "request"}
One(b) == IF b THEN 1 ELSE 0
Due == Cardinality(Asked(air)) + One(message.type = "request")
       + One(pc["rpc"] \in {"UnpairLock", "UnpairJoin"}) + One(pc["unpair"] \in {"Reset", "ResetQueue"})
Budget ==
    /\ IsFiniteSet(Asked(air)) /\ queueCount + Due <= requests + calls
    /\ pc["listener"] \in {"Request", "Include"} => message.type = "request"

\* The peer the listener adds and those that threads are removing.
NewPeer == queue[held].peer
Adding == pc["listener"] \in {"Save", "AddID"}
Leaving == {ref[t] : t \in {s \in {"rpc", "listener"} : pc[s] = "EraseWait"}}

Addition ==
    /\ pc["listener"] = "Add" => byAddress = None
    /\ pc["listener"] \in {"Add", "Save", "AddID"} => held # None /\ NewPeer # None
    /\ IF Adding THEN byAddress = NewPeer /\ byID = {} ELSE byID = {byAddress} \ {None}
\* Who is about to erase a peer finds that one or none: while the RPC thread is,
\* the listener cannot end a removal of its own and add another one.
Removal ==
    /\ pc["rpc"] = "Erase" =>
          /\ ~Adding /\ ref["rpc"] # None
          /\ byAddress = ref["rpc"] \/ (byAddress = None /\ pc["listener"] = "EraseWait")
    /\ pc["listener"] = "Erase" => byAddress \in {ref["listener"], None}
Database ==
    /\ saved \ Leaving = IF pc["listener"] = "AddID" THEN {NewPeer} ELSE byID
    /\ Leaving \intersect byID = {}
    /\ Adding => NewPeer \notin Leaving
Maps == bySerial = byAddress /\ Addition /\ Removal /\ (~revived => Database)
MInv == IInv /\ DataType /\ Budget /\ Maps

LEMMA SeqFacts ==
  ASSUME NEW S
  PROVE  /\ <<>> \in Seq(S)
         /\ \A q \in Seq(S), e \in S : Append(q, e) \in Seq(S)
         /\ \A q \in Seq(S) : q # <<>> => Head(q) \in S /\ Tail(q) \in Seq(S)
  OBVIOUS

LEMMA HeldExists ==
  ASSUME MInv
  PROVE  /\ held # None => held \in Queues
         /\ registered # None => registered \in Queues
<1>1. queueCount <= requests + calls
  <2>1. Cardinality(Asked(air)) \in Nat
    BY FS_CardinalityType DEF MInv, Budget
  <2> QED  BY <2>1 DEF MInv, Budget, DataType, AirType, Due, One
<1> QED  BY <1>1, PairingAssumption DEF MInv, DataType, AirType, Queues, None

\* What changes in a queue leaves its peer.
SamePeers(f, g) == g \in [Queues -> Entry] /\ \A k \in Queues : g[k].peer = f[k].peer

LEMMA EntryType ==
  ASSUME NEW f \in [Queues -> Entry], NEW q \in Queues
  PROVE  /\ f[q].entries \in Seq(Packets) /\ f[q].sends \in Nat
         /\ f[q] = [type |-> f[q].type, peer |-> f[q].peer, entries |-> f[q].entries, sends |-> f[q].sends]
  BY DEF Entry

LEMMA EntryChanges ==
  ASSUME NEW f \in [Queues -> Entry], NEW q \in Queues, NEW n \in Nat, NEW e \in Seq(Packets)
  PROVE  /\ SamePeers(f, [f EXCEPT ![q].sends = n])
         /\ SamePeers(f, [f EXCEPT ![q].entries = e])
         /\ SamePeers(f, [f EXCEPT ![q].entries = e, ![q].sends = n])
<1>1. ASSUME NEW r \in Entry, r.peer = f[q].peer
      PROVE  SamePeers(f, [f EXCEPT ![q] = r])
  BY <1>1 DEF SamePeers
<1>2. /\ [f[q] EXCEPT !.sends = n] \in Entry /\ [f[q] EXCEPT !.sends = n].peer = f[q].peer
      /\ [f[q] EXCEPT !.entries = e] \in Entry /\ [f[q] EXCEPT !.entries = e].peer = f[q].peer
      /\ [f[q] EXCEPT !.entries = e, !.sends = n] \in Entry
      /\ [f[q] EXCEPT !.entries = e, !.sends = n].peer = f[q].peer
  BY DEF Entry
<1>3. /\ [f EXCEPT ![q].sends = n] = [f EXCEPT ![q] = [f[q] EXCEPT !.sends = n]]
      /\ [f EXCEPT ![q].entries = e] = [f EXCEPT ![q] = [f[q] EXCEPT !.entries = e]]
      /\ [f EXCEPT ![q].entries = e, ![q].sends = n]
           = [f EXCEPT ![q] = [f[q] EXCEPT !.entries = e, !.sends = n]]
  OBVIOUS
<1> QED  BY <1>1, <1>2, <1>3

\* The queue the listener holds, or the registered one, keeps its peer.
LEMMA NewQueueKeeps ==
  ASSUME MInv, NEW type \in QueueTypes, NEW peer \in Nat, NEW entries \in Seq(Packets),
         NewQueue(type, peer, entries)
  PROVE  /\ queue' \in [Queues -> Entry]
         /\ queueCount' = queueCount + 1 /\ registered' \in 0..queueCount'
         /\ held # None => queue'[held] = queue[held]
<1>1. queue' \in [Queues -> Entry]
  <2>1. [type |-> type, peer |-> peer, entries |-> entries, sends |-> 0] \in Entry
    BY DEF Entry
  <2>2. Empty \in Entry
    <3>1. <<>> \in Seq(Packets)
      BY SeqFacts
    <3> QED  BY <3>1 DEF Empty, Entry, None, QueueTypes
  <2> QED  BY <2>1, <2>2 DEF NewQueue, MInv, DataType
<1>2. held # None => held \in Queues /\ held # queueCount + 1
  BY HeldExists DEF MInv, DataType
<1> QED  BY <1>1, <1>2 DEF NewQueue, MInv, DataType

LEMMA PopFrontKeeps ==
  ASSUME queue \in [Queues -> Entry], NEW q \in Queues, PopFront(q)
  PROVE  SamePeers(queue, queue')
<1> DEFINE e == IF queue[q].entries = <<>> THEN queue[q].entries ELSE Tail(queue[q].entries)
<1>1. e \in Seq(Packets)
  BY SeqFacts, EntryType
<1>2. queue' = [queue EXCEPT ![q].entries = e, ![q].sends = 0]
  BY EntryType DEF PopFront
<1> QED  BY <1>1, <1>2, EntryChanges

QueuesUntouched == UNCHANGED <<queueCount, registered, queue>>
PeersKept ==
    /\ queue' \in [Queues -> Entry]
    /\ queueCount' \in Nat /\ registered' \in 0..queueCount' /\ queueCount <= queueCount'
    /\ held # None => queue'[held].peer = queue[held].peer

LEMMA UntouchedSteps ==
  ASSUME [Next]_vars
  PROVE  \/ QueuesUntouched
         \/ Transmit \/ Expire \/ ResetQueue \/ (\E p \in byID : Configure(p))
         \/ Access \/ Include \/ Nack \/ AckPop
<1> USE DEF QueuesUntouched, queuing
<1>1. CASE ApiCalls
  BY <1>1 DEF ApiCalls, CallSetInstallMode, CallDeleteDevice
<1>2. CASE Rpc
  BY <1>2 DEF Rpc, UnpairLock, UnpairJoin, Poll, ModeLock, ModeLockIf, ModeJoin, ModeJoinShowing, Delete,
              Erase, EraseLeaving, EraseWait
<1>3. CASE Listener
  BY <1>3 DEF Listener, Receive, AccessPeer, Request, Ack, Add, Save, AddID, ModeLock, ModeLockIf, ModeJoin,
              ModeJoinShowing, Delete, Erase, EraseLeaving, EraseWait
<1>4. CASE Timer \/ Unpair \/ Dispose \/ Disposal
  BY <1>4 DEF Timer, TimerStart, TimerTick, TimerEnd, Unpair, Reset, Dispose, Disposal, StopUnpair,
              StopUnpairJoin, StopTimer, StopTimerJoin
<1>5. CASE Environment \/ UNCHANGED vars
  BY <1>5 DEF Environment, Press, Grow, Forget, vars
<1> QED  BY <1>1, <1>2, <1>3, <1>4, <1>5 DEF Next

LEMMA NextPeersKept ==
  ASSUME MInv, [Next]_vars
  PROVE  PeersKept
<1> USE DEF PeersKept
<1>0. /\ queue \in [Queues -> Entry] /\ queueCount \in Nat /\ registered \in 0..queueCount
      /\ held # None => held \in Queues
      /\ registered # None => registered \in Queues
      /\ <<>> \in Seq(Packets) /\ 0 \in 0..queueCount
  BY HeldExists, SeqFacts DEF MInv, DataType
<1>1. CASE QueuesUntouched
  BY <1>0, <1>1 DEF QueuesUntouched
<1>2. CASE Transmit
  <2>1. registered \in Queues /\ queue[registered].sends + 1 \in Nat
    <3>1. registered \in Queues
      BY <1>0, <1>2 DEF Transmit
    <3>2. queue[registered].sends \in Nat
      BY <1>0, <3>1, EntryType
    <3> QED  BY <3>1, <3>2
  <2>2. /\ queue' = [queue EXCEPT ![registered].sends = queue[registered].sends + 1]
        /\ UNCHANGED <<queueCount, registered>>
    BY <1>0, <1>2, <2>1 DEF Transmit, Entry
  <2>3. SamePeers(queue, queue')
    BY <1>0, <2>1, <2>2, EntryChanges
  <2> QED  BY <1>0, <2>2, <2>3 DEF SamePeers
<1>3. CASE Expire
  <2>1. Registered = registered /\ registered \in Queues /\ registered' = None /\ UNCHANGED queueCount
    BY <1>0, <1>3 DEF Expire, Registered
  <2>2. CASE registered = held
    <3>1. queue' = [queue EXCEPT ![registered].entries = <<>>]
      BY <1>0, <1>3, <2>1, <2>2 DEF Expire, Entry
    <3>2. SamePeers(queue, queue')
      BY <1>0, <2>1, <3>1, EntryChanges
    <3>3. held # None => queue'[held].peer = queue[held].peer
      BY <1>0, <3>2 DEF SamePeers
    <3> QED  BY <1>0, <2>1, <3>2, <3>3 DEF None, SamePeers
  <2>3. CASE registered # held
    <3>1. queue' = [queue EXCEPT ![registered] = Empty] /\ Empty \in Entry
      <4>1. <<>> \in Seq(Packets)
        BY SeqFacts
      <4> QED  BY <1>0, <1>3, <2>3, <4>1 DEF Expire, Empty, Entry, None, QueueTypes
    <3> QED  BY <1>0, <2>1, <2>3, <3>1 DEF None
  <2> QED  BY <2>2, <2>3
<1>4. CASE ResetQueue \/ (\E p \in byID : Configure(p))
  <2>1. <<"reset", "answer">> \in Seq(Packets) /\ <<"other", "answer">> \in Seq(Packets)
    BY DEF Packets
  <2>2. \/ QueuesUntouched
        \/ \E type \in QueueTypes, peer \in Nat, entries \in Seq(Packets) : NewQueue(type, peer, entries)
    BY <1>4, <2>1 DEF ResetQueue, Configure, QueueTypes, MInv, DataType, PeerType, Threads, queuing, QueuesUntouched
  <2> QED  BY <1>1, <2>2, NewQueueKeeps DEF MInv, DataType
<1>5. CASE Include
  <2>1. \A time \in {<<>>, <<"other", "answer">>} : <<"include", "answer">> \o time \in Seq(Packets)
    <3>1. <<>> \in Seq(Packets) /\ <<"other", "answer">> \in Seq(Packets) /\ <<"include", "answer">> \in Seq(Packets)
      BY SeqFacts DEF Packets
    <3>2. \A a, b \in Seq(Packets) : a \o b \in Seq(Packets)
      OBVIOUS
    <3> QED  BY <3>1, <3>2
  <2>2. \/ QueuesUntouched
        \/ \E type \in QueueTypes, peer \in Nat, entries \in Seq(Packets) : NewQueue(type, peer, entries)
    <3>1. CASE Gone
      BY <1>5, <3>1 DEF Include, queuing, QueuesUntouched
    <3>2. CASE ~Gone
      <4>1. PICK time \in {<<>>, <<"other", "answer">>} :
              NewQueue("PAIRING", IF ref["listener"] = None THEN peerCount' ELSE None,
                       <<"include", "answer">> \o time)
        BY <1>5, <3>2 DEF Include
      <4>2. (IF ref["listener"] = None THEN peerCount' ELSE None) \in Nat /\ "PAIRING" \in QueueTypes
        BY <1>5, <3>2 DEF Include, MInv, DataType, PeerType, None, QueueTypes
      <4> QED  BY <2>1, <4>1, <4>2
    <3> QED  BY <3>1, <3>2
  <2> QED  BY <1>1, <2>2, NewQueueKeeps DEF MInv, DataType
<1>6. CASE \E q \in Queues : PopFront(q)
  <2>1. SamePeers(queue, queue')
    BY <1>0, <1>6, PopFrontKeeps
  <2>2. UNCHANGED <<queueCount, registered>>
    BY <1>6 DEF PopFront
  <2> QED  BY <1>0, <2>1, <2>2 DEF SamePeers
<1>7. CASE /\ UNCHANGED <<queueCount, registered>>
           /\ \E q \in Queues : \/ queue' = [queue EXCEPT ![q].sends = 0]
                                \/ queue' = [queue EXCEPT ![q].entries = <<>>]
  <2>1. PICK q \in Queues : \/ queue' = [queue EXCEPT ![q].sends = 0]
                            \/ queue' = [queue EXCEPT ![q].entries = <<>>]
    BY <1>7
  <2>2. SamePeers(queue, queue')
    <3>1. CASE queue' = [queue EXCEPT ![q].sends = 0]
      BY <1>0, <3>1, EntryChanges
    <3>2. CASE queue' = [queue EXCEPT ![q].entries = <<>>]
      BY <1>0, <3>2, EntryChanges
    <3> QED  BY <2>1, <3>1, <3>2
  <2> QED  BY <1>0, <1>7, <2>2 DEF SamePeers
<1>8. CASE Access
  BY <1>0, <1>1, <1>6, <1>7, <1>8 DEF Access, queuing, QueuesUntouched
<1>9. CASE Nack
  <2>1. Registered # None => Registered \in Queues /\ Registered = registered
    BY <1>0 DEF Registered
  <2> QED  BY <1>1, <1>6, <1>7, <1>9, <2>1 DEF Nack, queuing, QueuesUntouched
<1>10. CASE AckPop
  <2>1. CASE held = None
    <3>1. held \notin Queues
      BY <2>1 DEF None, Queues
    <3>2. QueuesUntouched
      BY <1>0, <1>10, <3>1 DEF AckPop, PopFront, QueuesUntouched
    <3> QED  BY <1>1, <3>2
  <2> QED  BY <1>0, <1>6, <1>10, <2>1 DEF AckPop
<1> QED
  BY <1>1, <1>2, <1>3, <1>4, <1>5, <1>8, <1>9, <1>10, UntouchedSteps

LEMMA ArgumentFacts ==
  /\ NoCall \in Arguments /\ \A a \in Arguments : a.peer \in Nat
  /\ \A on \in BOOLEAN : [NoCall EXCEPT !.on = on] \in Arguments
  /\ \A p \in Nat, force \in BOOLEAN : [NoCall EXCEPT !.peer = p, !.force = force] \in Arguments
  BY DEF NoCall, Arguments, None

LEMMA NextPeerType ==
  ASSUME MInv, [Next]_vars
  PROVE  PeerType'
<1> USE DEF PeerType, Threads, None, maps, locals, task
<1>0. PeerType /\ (pc["listener"] \in {"Add", "AddID"} => queue[held].peer \in Nat)
  <2>1. held # None => queue[held].peer \in Nat
    BY HeldExists DEF MInv, DataType, Entry
  <2> QED  BY <2>1 DEF MInv, DataType, Maps, Addition
<1>1. CASE ApiCalls
  <2>1. UNCHANGED <<ref, peerCount, byAddress, byID, unpairID>> /\ want' \in Arguments
    <3>1. CASE \E b \in BOOLEAN : CallSetInstallMode(b)
      BY <3>1, ArgumentFacts DEF CallSetInstallMode, Call
    <3>2. CASE \E b \in BOOLEAN, p \in byID : CallDeleteDevice(p, b)
      <4>1. PICK b \in BOOLEAN, p \in byID : CallDeleteDevice(p, b)
        BY <3>2
      <4>2. [NoCall EXCEPT !.peer = p, !.force = b] \in Arguments
        BY <1>0, ArgumentFacts
      <4> QED  BY <4>1, <4>2 DEF CallDeleteDevice, Call
    <3>3. CASE \E p \in byID : Configure(p)
      BY <3>3, ArgumentFacts DEF Configure, Call
    <3> QED  BY <1>1, <3>1, <3>2, <3>3 DEF ApiCalls
  <2> QED  BY <1>0, <2>1
<1>2. CASE UnpairLock \/ UnpairJoin \/ Poll
  BY <1>0, <1>2, ArgumentFacts DEF UnpairLock, UnpairJoin, Poll
<1>3. ASSUME NEW t \in {"rpc", "listener"},
             ModeLock(t) \/ ModeJoin(t) \/ Delete(t) \/ Erase(t) \/ EraseWait(t)
      PROVE  PeerType'
  <2>1. CASE ModeLock(t) \/ ModeJoin(t)
    BY <1>0, <2>1, ArgumentFacts DEF ModeLock, ModeLockIf, ModeEnter, ModeJoin, ModeJoinShowing, Forgotten
  <2>2. CASE Delete(t)
    <3>1. ID(t) \in Nat /\ want' \in Arguments
      BY <1>0, <2>2, ArgumentFacts DEF Delete, Forgotten, ID
    <3> QED  BY <1>0, <2>2, <3>1 DEF Delete
  <2>3. CASE Erase(t)
    BY <1>0, <2>3 DEF Erase, EraseLeaving
  <2>4. CASE EraseWait(t)
    BY <1>0, <2>4 DEF EraseWait
  <2> QED  BY <1>3, <2>1, <2>2, <2>3, <2>4
<1>4. CASE Receive \/ Access \/ AccessPeer \/ Request \/ Nack \/ Ack
  BY <1>0, <1>4 DEF Receive, Access, AccessPeer, Request, Nack, Ack, Finish, Continue
<1>5. CASE Include
  BY <1>0, <1>5 DEF Include
<1>6. CASE Add \/ Save \/ AddID \/ AckPop
  BY <1>0, <1>6 DEF Add, Save, AddID, AckPop, At
<1>7. CASE Timer \/ Dispose \/ Disposal
  BY <1>0, <1>7 DEF Timer, TimerStart, TimerTick, TimerEnd, Dispose, Disposal, StopUnpair,
              StopUnpairJoin, StopTimer, StopTimerJoin
<1>8. CASE Unpair
  BY <1>0, <1>8 DEF Unpair, Reset, ResetQueue
<1>9. CASE Transmit \/ Expire \/ Environment \/ UNCHANGED vars
  BY <1>0, <1>9 DEF Transmit, Expire, Environment, Press, Grow, Forget, vars
<1> QED
  BY <1>1, <1>2, <1>3, <1>4, <1>5, <1>6, <1>7, <1>8, <1>9 DEF Next, Rpc, Listener

LEMMA Messages ==
  /\ \A k \in Kinds : [type |-> "ack", of |-> k] \in Message /\ [type |-> "nack", of |-> k] \in Message
  /\ \A b \in BOOLEAN : [type |-> "request", mine |-> b] \in Message
  BY DEF Message

LEMMA NextAirType ==
  ASSUME MInv, [Next]_vars
  PROVE  AirType' /\ held' \in {held, registered, None}
<1> USE DEF AirType, locals, outside, task
<1>0. AirType
  BY DEF MInv, DataType
<1>1. CASE ApiCalls
  <2>1. UNCHANGED <<air, message, requests, held>> /\ calls < Calls /\ calls' = calls + 1
    BY <1>1 DEF ApiCalls, CallSetInstallMode, CallDeleteDevice, Configure, Call
  <2> QED  BY <1>0, <2>1, PairingAssumption
<1>2. CASE UnpairLock \/ UnpairJoin \/ Poll
  BY <1>0, <1>2 DEF UnpairLock, UnpairJoin, Poll
<1>3. ASSUME NEW t \in {"rpc", "listener"},
             ModeLock(t) \/ ModeJoin(t) \/ Delete(t) \/ Erase(t) \/ EraseWait(t)
      PROVE  AirType' /\ held' \in {held, registered, None}
  BY <1>0, <1>3 DEF ModeLock, ModeLockIf, ModeJoin, ModeJoinShowing, Delete, Erase, EraseLeaving, EraseWait
<1>4. CASE Receive
  BY <1>0, <1>4, SeqFacts DEF Receive, Registered
<1>5. CASE Access \/ AccessPeer \/ Request \/ Nack \/ Ack \/ Include
  BY <1>0, <1>5 DEF Access, AccessPeer, Request, Nack, Ack, Include, Finish, Continue, Registered
<1>6. CASE Add \/ Save \/ AddID \/ AckPop
  BY <1>0, <1>6 DEF Add, Save, AddID, AckPop, Finish
<1>7. CASE Timer \/ Unpair \/ Dispose \/ Disposal
  BY <1>0, <1>7, SeqFacts DEF Timer, TimerStart, TimerTick, TimerEnd, Dispose, Disposal, StopUnpair,
              StopUnpairJoin, StopTimer, StopTimerJoin, Unpair, Reset, ResetQueue
<1>8. CASE Transmit
  <2>1. Head(queue[registered].entries) \in Kinds
    BY <1>8 DEF Transmit, FrontIs
  <2> QED  BY <1>0, <1>8, <2>1, SeqFacts, Messages DEF Transmit, Emit
<1>9. CASE Press
  <2>1. UNCHANGED <<message, held, calls>> /\ requests < Requests /\ requests' = requests + 1
    BY <1>9 DEF Press
  <2>2. air' \in Seq(Message)
    BY <1>0, <1>9, SeqFacts, Messages DEF Press, Emit
  <2> QED  BY <1>0, <2>1, <2>2, PairingAssumption
<1>10. CASE Expire \/ Grow \/ Forget \/ UNCHANGED vars
  BY <1>0, <1>10 DEF Expire, Grow, Forget, vars
<1> QED
  BY <1>1, <1>2, <1>3, <1>4, <1>5, <1>6, <1>7, <1>8, <1>9, <1>10 DEF Next, Rpc, Listener,
     Environment

LEMMA NextDataType ==
  ASSUME MInv, [Next]_vars
  PROVE  DataType'
<1>1. held' \in 0..queueCount'
  BY NextPeersKept, NextAirType DEF MInv, DataType, PeersKept, None
<1> QED  BY <1>1, NextPeersKept, NextPeerType, NextAirType DEF PeersKept, DataType

LEMMA AskedFacts ==
  ASSUME NEW a \in Seq(Message), IsFiniteSet(Asked(a))
  PROVE  /\ Cardinality(Asked(a)) \in Nat
         /\ \A m \in Message :
               /\ IsFiniteSet(Asked(Append(a, m)))
               /\ Cardinality(Asked(Append(a, m))) = Cardinality(Asked(a)) + One(m.type = "request")
         /\ a # <<>> =>
               /\ IsFiniteSet(Asked(Tail(a)))
               /\ Cardinality(Asked(Tail(a))) + One(Head(a).type = "request") <= Cardinality(Asked(a))
<1>1. Cardinality(Asked(a)) \in Nat
  BY FS_CardinalityType
<1>2. ASSUME NEW m \in Message
      PROVE  /\ IsFiniteSet(Asked(Append(a, m)))
             /\ Cardinality(Asked(Append(a, m))) = Cardinality(Asked(a)) + One(m.type = "request")
  <2> DEFINE n == Len(a) + 1
  <2>1. /\ Asked(Append(a, m)) = IF m.type = "request" THEN Asked(a) \union {n} ELSE Asked(a)
        /\ n \notin Asked(a)
    <3>1. /\ DOMAIN a = 1..Len(a) /\ DOMAIN Append(a, m) = 1..n /\ Len(a) \in Nat
          /\ Append(a, m)[n] = m /\ \A i \in 1..Len(a) : Append(a, m)[i] = a[i]
      OBVIOUS
    <3>2. 1..n = (1..Len(a)) \union {n} /\ n \notin 1..Len(a)
      BY <3>1
    <3> HIDE DEF n
    <3>3. \A i \in DOMAIN Append(a, m) :
             i \in Asked(Append(a, m)) <=> i \in Asked(a) \/ (i = n /\ m.type = "request")
      BY <3>1, <3>2 DEF Asked
    <3>4. Asked(a) \subseteq DOMAIN Append(a, m) /\ Asked(Append(a, m)) \subseteq DOMAIN Append(a, m)
      BY <3>1, <3>2 DEF Asked
    <3>5. n \in DOMAIN Append(a, m) /\ n \notin Asked(a)
      BY <3>1, <3>2 DEF Asked
    <3>6. CASE m.type = "request"
      <4>1. Asked(Append(a, m)) = Asked(a) \union {n}
        BY <3>3, <3>4, <3>5, <3>6
      <4> QED  BY <3>5, <3>6, <4>1
    <3>7. CASE m.type # "request"
      <4>1. Asked(Append(a, m)) = Asked(a)
        BY <3>3, <3>4, <3>7
      <4> QED  BY <3>5, <3>7, <4>1
    <3> QED  BY <3>6, <3>7
  <2>2. IsFiniteSet(Asked(a) \union {n}) /\ Cardinality(Asked(a) \union {n}) = Cardinality(Asked(a)) + 1
    <3> HIDE DEF n
    <3> QED  BY <2>1, FS_AddElement
  <2> HIDE DEF n
  <2>3. CASE m.type = "request"
    BY <2>1, <2>2, <2>3 DEF One
  <2>4. CASE m.type # "request"
    BY <1>1, <2>1, <2>4 DEF One
  <2> QED  BY <2>3, <2>4
<1>3. ASSUME a # <<>>
      PROVE  /\ IsFiniteSet(Asked(Tail(a)))
             /\ Cardinality(Asked(Tail(a))) + One(Head(a).type = "request") <= Cardinality(Asked(a))
  <2> DEFINE T == Asked(a) \ {1}
             f == [i \in Asked(Tail(a)) |-> i + 1]
  <2>1. f \in [Asked(Tail(a)) -> T] /\ \A i, j \in Asked(Tail(a)) : f[i] = f[j] => i = j
    BY <1>3 DEF Asked
  <2>2. IsFiniteSet(T) /\ Cardinality(T) = Cardinality(Asked(a)) - One(1 \in Asked(a))
    BY <1>1, FS_RemoveElement DEF One
  <2>3. 1 \in Asked(a) <=> Head(a).type = "request"
    BY <1>3 DEF Asked
  <2>4. IsFiniteSet(Asked(Tail(a))) /\ Cardinality(Asked(Tail(a))) <= Cardinality(T)
    <3>1. f \in Injection(Asked(Tail(a)), T)
      BY <2>1 DEF Injection, IsInjective
    <3> QED  BY <2>2, <3>1, FS_Injection
  <2>5. Cardinality(Asked(Tail(a))) \in Nat
    BY <2>4, FS_CardinalityType
  <2> QED  BY <1>1, <2>2, <2>3, <2>4, <2>5 DEF One
<1> QED  BY <1>1, <1>2, <1>3
\* Steps that neither ask for a queue nor create one.
Asks == <<pc["rpc"] \in {"UnpairLock", "UnpairJoin"}, pc["unpair"] \in {"Reset", "ResetQueue"}>>
NothingAsked ==
    /\ UNCHANGED <<queueCount, air, requests, calls, Asks>> /\ message' \in {message, NoMessage}
    /\ pc'["listener"] \in {"Request", "Include"} => message'.type = "request"

LEMMA NothingAskedKeeps ==
  ASSUME MInv, NothingAsked
  PROVE  Budget'
<1>1. UNCHANGED Asked(air) /\ Cardinality(Asked(air)) \in Nat
  BY FS_CardinalityType DEF NothingAsked, MInv, Budget
<1>2. message' = message \/ message'.type = "none"
  BY DEF NothingAsked, NoMessage
<1> QED  BY <1>1, <1>2 DEF NothingAsked, MInv, DataType, AirType, Budget, Due, One, Asks

LEMMA NothingAskedSteps ==
  ASSUME MInv
  PROVE  /\ Access \/ AccessPeer \/ Request \/ Nack \/ Ack \/ Add \/ Save \/ AddID \/ AckPop => NothingAsked
         /\ \A t \in {"rpc", "listener"} :
               ModeLock(t) \/ ModeJoin(t) \/ Delete(t) \/ Erase(t) \/ EraseWait(t) => NothingAsked
         /\ UnpairLock \/ Poll \/ Timer \/ Disposal \/ Expire \/ Grow \/ Forget \/ UNCHANGED vars => NothingAsked
<1>0. /\ pc \in [Threads -> Labels]
      /\ pc["listener"] \in {"Request", "Include"} => message.type = "request"
      /\ pc["unpair"] \in {"Idle", "Reset", "ResetQueue", "Done"}
  BY DEF MInv, IInv, Types, Places, Budget
<1> USE DEF NothingAsked, Asks, outside, locals, task, queuing, Goto, Threads, At
<1>1. Access \/ AccessPeer \/ Request \/ Nack \/ Ack => NothingAsked
  BY <1>0 DEF Access, AccessPeer, Request, Nack, Ack, Finish, Continue, PopFront
<1>2. Add \/ Save \/ AddID \/ AckPop => NothingAsked
  BY <1>0 DEF Add, Save, AddID, AckPop, Finish, PopFront
<1>3. ASSUME NEW t \in {"rpc", "listener"}
      PROVE  ModeLock(t) \/ ModeJoin(t) => NothingAsked
  BY <1>0 DEF ModeLock, ModeLockIf, ModeEnter, ModeJoin, ModeJoinShowing, Return
<1>4. ASSUME NEW t \in {"rpc", "listener"}
      PROVE  Delete(t) \/ Erase(t) \/ EraseWait(t) => NothingAsked
  BY <1>0 DEF Delete, Erase, EraseLeaving, EraseWait, Return
<1>5. UnpairLock \/ Poll \/ Timer \/ Disposal => NothingAsked
  BY <1>0 DEF UnpairLock, Poll, Timer, TimerStart, TimerTick, TimerEnd, Disposal, StopUnpair,
              StopUnpairJoin, StopTimer, StopTimerJoin
<1>6. Expire \/ Grow \/ Forget \/ UNCHANGED vars => NothingAsked
  BY <1>0 DEF Expire, Grow, Forget, vars
<1> QED  BY <1>1, <1>2, <1>3, <1>4, <1>5, <1>6

LEMMA NextBudget ==
  ASSUME MInv, [Next]_vars
  PROVE  Budget'
<1> DEFINE rpc == pc["rpc"] \in {"UnpairLock", "UnpairJoin"}
           unpair == pc["unpair"] \in {"Reset", "ResetQueue"}
           request == message.type = "request"
           asking == pc["listener"] \in {"Request", "Include"}
           n == Cardinality(Asked(air))
<1>0. /\ pc \in [Threads -> Labels] /\ air \in Seq(Message)
      /\ queueCount \in Nat /\ requests \in Nat /\ calls \in Nat /\ n \in Nat
      /\ IsFiniteSet(Asked(air))
      /\ queueCount + n + One(request) + One(rpc) + One(unpair) <= requests + calls
      /\ asking => request
  <2>1. n \in Nat /\ IsFiniteSet(Asked(air))
    BY FS_CardinalityType DEF MInv, Budget
  <2>2. /\ pc \in [Threads -> Labels] /\ air \in Seq(Message)
        /\ queueCount \in Nat /\ requests \in Nat /\ calls \in Nat
    BY DEF MInv, IInv, Types, DataType, AirType
  <2> QED  BY <2>1, <2>2 DEF MInv, Budget, Due, One
<1>1. SUFFICES ASSUME ~NothingAsked
               PROVE  Budget'
  BY NothingAskedKeeps
<1>2. SUFFICES /\ IsFiniteSet(Asked(air'))
               /\ queueCount' + Cardinality(Asked(air')) + One(request') + One(rpc') + One(unpair')
                    <= requests' + calls'
               /\ asking' => request'
  <2>1. queueCount' \in Nat /\ requests' \in Nat /\ calls' \in Nat
    BY NextDataType DEF DataType, AirType
  <2>2. IsFiniteSet(Asked(air')) => Cardinality(Asked(air')) \in Nat
    BY FS_CardinalityType
  <2> QED  BY <1>2, <2>1, <2>2 DEF Budget, Due, One
<1> USE DEF outside, locals, task, Goto, Threads
<1>3. CASE ApiCalls
  <2>1. /\ UNCHANGED <<air, message, requests>> /\ calls' = calls + 1
        /\ pc["rpc"] = "Idle" /\ pc'["unpair"] = pc["unpair"] /\ pc'["listener"] = pc["listener"]
        /\ \/ queueCount' = queueCount
           \/ queueCount' = queueCount + 1 /\ pc'["rpc"] = "Idle"
    BY <1>0, <1>3 DEF ApiCalls, CallSetInstallMode, CallDeleteDevice, Configure, Call, At, NewQueue, queuing
  <2> QED  BY <1>0, <2>1 DEF One
<1>4. CASE UnpairJoin
  <2>1. /\ UNCHANGED <<queueCount, air, message, requests, calls>> /\ pc'["listener"] = pc["listener"]
        /\ rpc /\ ~rpc' /\ ~unpair /\ unpair'
    BY <1>0, <1>4 DEF UnpairJoin, At, Blocked, Running, queuing, MInv, IInv, Places
  <2> QED  BY <1>0, <2>1 DEF One
<1>5. CASE Unpair
  <2>1. /\ UNCHANGED <<air, message, requests, calls>>
        /\ pc'["rpc"] = pc["rpc"] /\ pc'["listener"] = pc["listener"]
        /\ unpair /\ \/ queueCount' = queueCount
                     \/ queueCount' = queueCount + 1 /\ ~unpair'
    BY <1>0, <1>5 DEF Unpair, Reset, ResetQueue, At, NewQueue, queuing
  <2> QED  BY <1>0, <2>1 DEF One
<1>6. CASE Press \/ Transmit
  <2>1. /\ UNCHANGED <<queueCount, message, calls, pc>>
        /\ \/ /\ UNCHANGED <<requests, air>>
           \/ /\ UNCHANGED requests
              /\ \E m \in Message : air' = Append(air, m) /\ m.type # "request"
           \/ /\ requests' = requests + 1
              /\ \/ UNCHANGED air
                 \/ \E m \in Message : air' = Append(air, m)
    <3>1. CASE Press
      BY <3>1, Messages DEF Press, Emit, queuing
    <3>2. CASE Transmit
      BY <3>2, Messages DEF Transmit, Emit, FrontIs
    <3> QED  BY <1>6, <3>1, <3>2
  <2>2. CASE UNCHANGED air
    BY <1>0, <2>1, <2>2 DEF One
  <2>3. ASSUME NEW m \in Message, air' = Append(air, m)
        PROVE  IsFiniteSet(Asked(air')) /\ Cardinality(Asked(air')) = n + One(m.type = "request")
    BY <1>0, <2>3, AskedFacts
  <2>4. CASE ~UNCHANGED air
    <3>1. PICK m \in Message : air' = Append(air, m) /\ (requests' = requests => m.type # "request")
      BY <1>0, <2>1, <2>4
    <3>2. /\ IsFiniteSet(Asked(air'))
          /\ Cardinality(Asked(air')) = IF requests' = requests THEN n ELSE Cardinality(Asked(air'))
          /\ Cardinality(Asked(air')) \in {n, n + 1}
      BY <1>0, <2>3, <3>1 DEF One
    <3>3. requests' \in {requests, requests + 1}
      BY <2>1
    <3> QED  BY <1>0, <2>1, <3>2, <3>3 DEF One
  <2> QED  BY <2>2, <2>4
<1>7. CASE Receive
  <2>1. /\ UNCHANGED <<queueCount, requests, calls>>
        /\ pc'["rpc"] = pc["rpc"] /\ pc'["unpair"] = pc["unpair"] /\ ~asking'
        /\ air # <<>> /\ air' = Tail(air) /\ message' = Head(air)
    BY <1>0, <1>7 DEF Receive, queuing
  <2>2. /\ IsFiniteSet(Asked(air')) /\ Cardinality(Asked(air')) \in Nat
        /\ Cardinality(Asked(air')) + One(request') <= n
    BY <1>0, <2>1, AskedFacts, FS_CardinalityType
  <2>3. One(rpc') = One(rpc) /\ One(unpair') = One(unpair) /\ One(request') \in {0, 1}
    BY <2>1 DEF One
  <2>4. One(request) \in {0, 1} /\ One(rpc) \in {0, 1} /\ One(unpair) \in {0, 1}
    BY DEF One
  <2> HIDE DEF rpc, unpair, request
  <2> QED  BY <1>0, <2>1, <2>2, <2>3, <2>4
<1>8. CASE Include
  <2>1. /\ UNCHANGED <<air, requests, calls>> /\ request
        /\ pc'["rpc"] = pc["rpc"] /\ pc'["unpair"] = pc["unpair"] /\ ~asking'
        /\ queueCount' \in {queueCount, queueCount + 1} /\ message' = NoMessage
    BY <1>0, <1>8 DEF Include, At, Finish, NewQueue, queuing
  <2>2. ~request'
    BY <2>1 DEF NoMessage
  <2> QED  BY <1>0, <2>1, <2>2 DEF One
<1>9. CASE Dispose
  <2>1. /\ UNCHANGED <<queueCount, message, requests, calls>> /\ air' = <<>>
        /\ \A t \in {"rpc", "unpair", "listener"} : pc'[t] = pc[t]
    BY <1>0, <1>9 DEF Dispose, queuing
  <2>2. IsFiniteSet(Asked(<<>>)) /\ Cardinality(Asked(<<>>)) = 0
    BY FS_EmptySet DEF Asked
  <2> QED  BY <1>0, <2>1, <2>2 DEF One
<1> QED
  BY <1>1, <1>3, <1>4, <1>5, <1>6, <1>7, <1>8, <1>9, NothingAskedSteps
     DEF Next, Rpc, Listener, Environment
\* Steps that neither add nor remove a peer, nor begin to.
Touching == {"Add", "Save", "AddID", "Erase", "EraseWait"}
MapsAside ==
    /\ UNCHANGED <<bySerial, byAddress, byID, saved, revived>>
    /\ \A t \in {"rpc", "listener"} : \/ pc'[t] = pc[t] /\ ref'[t] = ref[t]
                                      \/ pc[t] \notin Touching /\ pc'[t] \notin Touching
    /\ pc["listener"] \in {"Add", "Save", "AddID"} => held' = held

LEMMA LeavingIs ==
  /\ Leaving = {x \in {ref["rpc"]} : pc["rpc"] = "EraseWait"}
               \union {x \in {ref["listener"]} : pc["listener"] = "EraseWait"}
  /\ Leaving' = {x \in {ref'["rpc"]} : pc'["rpc"] = "EraseWait"}
                \union {x \in {ref'["listener"]} : pc'["listener"] = "EraseWait"}
  BY DEF Leaving

LEMMA MapsAsideKeeps ==
  ASSUME MInv, PeersKept, MapsAside
  PROVE  Maps'
<1>1. Maps /\ pc["listener"] \in {"Add", "Save", "AddID"} => NewPeer' = NewPeer /\ held # None
  BY DEF MInv, PeersKept, MapsAside, NewPeer, Maps, Addition
<1>2. Leaving' = Leaving
  BY LeavingIs DEF MapsAside, Touching
<1>3. Maps
  BY DEF MInv
<1>4. Addition'
  BY <1>1, <1>3 DEF Maps, Addition, Adding, MapsAside, Touching
<1>5. Removal'
  BY <1>3 DEF Maps, Removal, Adding, MapsAside, Touching
<1>6. ~revived' => Database'
  BY <1>1, <1>2, <1>3 DEF Maps, Database, Adding, MapsAside, Touching
<1> QED  BY <1>3, <1>4, <1>5, <1>6 DEF Maps, MapsAside

LEMMA MapsAsideSteps ==
  ASSUME MInv
  PROVE  /\ ApiCalls \/ UnpairLock \/ UnpairJoin \/ Poll \/ Unpair => MapsAside
         /\ \A t \in {"rpc", "listener"} : ModeLock(t) \/ ModeJoin(t) => MapsAside
         /\ Receive \/ Access \/ AccessPeer \/ Request \/ Include \/ Nack \/ AckPop => MapsAside
         /\ Timer \/ Dispose \/ Disposal => MapsAside
         /\ Transmit \/ Expire \/ Environment \/ UNCHANGED vars => MapsAside
<1>0. pc \in [Threads -> Labels] /\ ref \in [Threads -> Nat]
  BY DEF MInv, IInv, Types, DataType, PeerType
<1> USE DEF MapsAside, Touching, maps, locals, task, history, Goto, Threads, At
<1>1. ApiCalls => MapsAside
  BY <1>0 DEF ApiCalls, CallSetInstallMode, CallDeleteDevice, Configure, Call
<1>2. UnpairLock \/ UnpairJoin \/ Poll \/ Unpair => MapsAside
  BY <1>0 DEF UnpairLock, UnpairJoin, Poll, Unpair, Reset, ResetQueue
<1>3. ASSUME NEW t \in {"rpc", "listener"}
      PROVE  ModeLock(t) \/ ModeJoin(t) => MapsAside
  BY <1>0 DEF ModeLock, ModeLockIf, ModeEnter, ModeJoin, ModeJoinShowing, Return
<1>4. Receive \/ Access \/ AccessPeer => MapsAside
  BY <1>0 DEF Receive, Access, AccessPeer, Finish, Continue
<1>5. Request \/ Include \/ Nack \/ AckPop => MapsAside
  BY <1>0 DEF Request, Include, Nack, AckPop, Finish, Continue
<1>6. Timer \/ Dispose \/ Disposal => MapsAside
  BY <1>0 DEF Timer, TimerStart, TimerTick, TimerEnd, Dispose, Disposal, StopUnpair, StopUnpairJoin,
              StopTimer, StopTimerJoin
<1>7. Transmit \/ Expire \/ Environment \/ UNCHANGED vars => MapsAside
  BY <1>0 DEF Transmit, Expire, Environment, Press, Grow, Forget, vars
<1> QED  BY <1>1, <1>2, <1>3, <1>4, <1>5, <1>6, <1>7

\* deletePeer, of the RPC call or of an acknowledgement.
LEMMA RemovalKeeps ==
  ASSUME MInv, PeersKept, NEW t \in {"rpc", "listener"}, Delete(t) \/ Erase(t) \/ EraseWait(t)
  PROVE  Maps'
<1> DEFINE u == IF t = "rpc" THEN "listener" ELSE "rpc"
<1>0. /\ pc \in [Threads -> Labels] /\ ref \in [Threads -> Nat] /\ Maps
      /\ u \in Threads /\ t \in Threads /\ u # t /\ {t, u} = {"rpc", "listener"}
  BY DEF MInv, IInv, Types, DataType, PeerType, Threads
<1>1. /\ UNCHANGED <<held, revived>> /\ pc'[u] = pc[u] /\ ref'[u] = ref[u]
      /\ pc'["listener"] \in {"Add", "Save", "AddID"} =>
            pc["listener"] \in {"Add", "Save", "AddID"} /\ held # None /\ NewPeer' = NewPeer
  <2>1. /\ UNCHANGED <<held, revived>> /\ pc'[u] = pc[u] /\ ref'[u] = ref[u]
        /\ pc'[t] \in {"Erase", "EraseWait", "Idle", "AckPop"}
    BY <1>0 DEF Delete, Erase, EraseLeaving, EraseWait, locals, task, history, Goto, Return
  <2> QED  BY <1>0, <2>1 DEF Maps, Addition, PeersKept, NewPeer
<1>2. CASE Delete(t)
  <2>1. /\ UNCHANGED <<byAddress, bySerial, byID, saved>> /\ pc[t] = "Delete"
        /\ \/ pc'[t] \in {"Idle", "AckPop"}
           \/ pc'[t] = "Erase" /\ ref'[t] = ID(t) /\ ID(t) \in byID
    BY <1>0, <1>2 DEF Delete, maps, Goto, Return, At
  <2>2. Leaving' = Leaving
    BY <1>0, <1>1, <2>1, LeavingIs
  <2>3. ~(t = "listener" /\ Adding) /\ (Adding => byID = {}) /\ (~Adding => byID = {byAddress} \ {None})
    BY <1>0, <2>1 DEF Maps, Addition, Adding
  <2>4. ID(t) \in byID => byAddress = ID(t) /\ ID(t) # None /\ ~Adding
    BY <2>3
  <2>5. Addition'
    BY <1>0, <1>1, <2>1 DEF Maps, Addition, Adding
  <2>6. Removal'
    BY <1>0, <1>1, <2>1, <2>4 DEF Maps, Removal, Adding
  <2>7. ~revived' => Database'
    BY <1>0, <1>1, <2>1, <2>2 DEF Maps, Database, Adding
  <2> QED  BY <1>0, <2>1, <2>5, <2>6, <2>7 DEF Maps
<1>3. CASE Erase(t)
  <2>1. /\ byID' = byID \ {ref[t]} /\ bySerial' = None /\ byAddress' = None /\ UNCHANGED saved
        /\ pc[t] = "Erase" /\ pc'[t] = "EraseWait" /\ ref'[t] = ref[t]
    BY <1>0, <1>3 DEF Erase, EraseLeaving, locals, Goto, At
  <2>2. ~Adding /\ byAddress \in {ref[t], None}
    BY <1>0, <2>1 DEF Maps, Removal, Adding
  <2>3. byID = {byAddress} \ {None} /\ byID' = {} /\ pc["listener"] # "AddID" /\ ~Adding'
    BY <1>0, <1>1, <2>1, <2>2 DEF Maps, Addition, Adding
  <2>4. Leaving' = Leaving \union {ref[t]}
    BY <1>0, <1>1, <2>1, LeavingIs
  <2>5. Addition'
    BY <1>0, <1>1, <2>1, <2>3 DEF Maps, Addition
  <2>6. Removal'
    BY <1>0, <1>1, <2>1, <2>3 DEF Maps, Removal
  <2>7. ~revived' => Database'
    <3>1. saved' \ Leaving' = (saved \ Leaving) \ {ref[t]}
      BY <2>1, <2>4
    <3> QED  BY <1>0, <1>1, <2>1, <2>3, <3>1 DEF Maps, Database, Adding
  <2> QED  BY <2>1, <2>5, <2>6, <2>7 DEF Maps
<1>4. CASE EraseWait(t)
  <2>1. /\ saved' = saved \ {ref[t]} /\ UNCHANGED <<byAddress, bySerial, byID>>
        /\ pc[t] = "EraseWait" /\ pc'[t] \in {"Idle", "AckPop"}
        /\ (InUse(t) => TimePasses)
    BY <1>0, <1>4 DEF EraseWait, Goto, At, Return
  <2>2. t = "listener" => pc["rpc"] # "Erase"
    <3>1. ASSUME TimePasses PROVE pc["rpc"] # "Erase"
      <4>1. pc["rpc"] \in Waiting \/ Blocked("rpc")
        BY <3>1 DEF TimePasses, Threads
      <4> QED  BY <4>1 DEF Waiting, Blocked
    <3> QED  BY <2>1, <3>1 DEF InUse
  <2>3. Leaving = Leaving' \union {ref[t]}
    BY <1>0, <1>1, <2>1, LeavingIs
  <2>4. saved' \ Leaving' = saved \ Leaving
    BY <2>1, <2>3
  <2>5. Addition'
    BY <1>0, <1>1, <2>1 DEF Maps, Addition, Adding
  <2>6. Removal'
    BY <1>0, <1>1, <2>1, <2>2 DEF Maps, Removal, Adding
  <2>7. ~revived' => Database'
    BY <1>0, <1>1, <2>1, <2>3, <2>4 DEF Maps, Database, Adding
  <2> QED  BY <1>0, <2>1, <2>5, <2>6, <2>7 DEF Maps
<1> QED  BY <1>2, <1>3, <1>4

\* An acknowledgement and what it may lead to: the peer is added, map by map.
LEMMA AdditionKeeps ==
  ASSUME MInv, PeersKept, Ack \/ Add \/ Save \/ AddID
  PROVE  Maps'
<1>0. /\ pc \in [Threads -> Labels] /\ ref \in [Threads -> Nat] /\ Maps
  BY DEF MInv, IInv, Types, DataType, PeerType
<1>1. /\ pc'["rpc"] = pc["rpc"] /\ ref'["rpc"] = ref["rpc"]
      /\ pc'["listener"] \notin {"Erase", "EraseWait"} /\ pc["listener"] \notin {"Erase", "EraseWait"}
      /\ Leaving' = Leaving
  <2>1. /\ pc'["rpc"] = pc["rpc"] /\ ref'["rpc"] = ref["rpc"]
        /\ pc'["listener"] \notin {"Erase", "EraseWait"} /\ pc["listener"] \notin {"Erase", "EraseWait"}
    BY <1>0 DEF Ack, Add, Save, AddID, At, Goto, Finish, locals, Threads
  <2> QED  BY <2>1, LeavingIs
<1>2. CASE Ack
  <2>1. /\ UNCHANGED <<byAddress, bySerial, byID, saved, revived, queue>> /\ pc["listener"] = "Ack"
        /\ pc'["listener"] \in {"Idle", "Delete", "AckPop", "Add"}
        /\ pc'["listener"] = "Add" => AckMeans = "paired" /\ held' = Registered
    BY <1>0, <1>2 DEF Ack, At, Goto, Finish, maps, queuing, Threads
  <2>2. pc'["listener"] = "Add" => byAddress = None /\ held' # None /\ NewPeer' # None
    BY <2>1 DEF AckMeans, AckMeansIf, NewPeer
  <2>3. Addition' /\ Removal' /\ (~revived' => Database')
    BY <1>0, <1>1, <2>1, <2>2 DEF Maps, Addition, Removal, Database, Adding
  <2> QED  BY <1>0, <2>1, <2>3 DEF Maps
<1>3. CASE ~Ack
  <2>0. pc["listener"] \in {"Add", "Save", "AddID"} /\ held' = held
    BY <1>3 DEF Add, Save, AddID, At, locals, task
  <2>1. held # None /\ NewPeer # None /\ NewPeer' = NewPeer
    BY <1>0, <2>0 DEF Maps, Addition, PeersKept, NewPeer
  <2>2. pc["rpc"] # "Erase"
    BY <1>0, <2>0 DEF Maps, Addition, Removal, Adding
  <2>3. CASE Add
    <3>1. /\ pc["listener"] = "Add" /\ pc'["listener"] = "Save"
          /\ byAddress' = NewPeer /\ bySerial' = NewPeer /\ UNCHANGED <<byID, saved>>
          /\ revived' = (revived \/ ref["rpc"] = NewPeer)
      BY <1>0, <2>3 DEF Add, At, Goto, NewPeer, Threads
    <3>2. byID = {} /\ byAddress = None
      BY <1>0, <3>1 DEF Maps, Addition, Adding
    <3>3. Addition' /\ Removal'
      BY <1>1, <2>1, <2>0, <2>2, <3>1, <3>2 DEF Addition, Removal, Adding
    <3>4. ~revived' => NewPeer \notin Leaving
      BY <1>1, <3>1, LeavingIs
    <3>5. ~revived' => Database'
      BY <1>0, <1>1, <2>1, <3>1, <3>4 DEF Maps, Database, Adding
    <3> QED  BY <3>1, <3>3, <3>5 DEF Maps
  <2>4. CASE Save
    <3>1. /\ pc["listener"] = "Save" /\ pc'["listener"] = "AddID"
          /\ saved' = saved \union {NewPeer} /\ UNCHANGED <<byAddress, bySerial, byID, revived>>
      BY <1>0, <2>4 DEF Save, At, Goto, NewPeer, Threads, history
    <3>2. byID = {} /\ byAddress = NewPeer
      BY <1>0, <3>1 DEF Maps, Addition, Adding
    <3>3. Addition' /\ Removal'
      BY <1>1, <2>1, <2>0, <2>2, <3>1, <3>2 DEF Addition, Removal, Adding
    <3>4. ~revived => saved \ Leaving = {} /\ NewPeer \notin Leaving /\ Leaving \intersect byID = {}
      BY <1>0, <3>1, <3>2 DEF Maps, Database, Adding
    <3>5. ~revived' => Database'
      BY <1>1, <2>1, <3>1, <3>4 DEF Database, Adding
    <3> QED  BY <1>0, <3>1, <3>3, <3>5 DEF Maps
  <2>5. CASE AddID
    <3>1. /\ pc["listener"] = "AddID" /\ pc'["listener"] = "ModeLock"
          /\ byID' = byID \union {NewPeer} /\ UNCHANGED <<byAddress, bySerial, saved, revived>>
      BY <1>0, <2>5 DEF AddID, At, Goto, NewPeer, Threads, history
    <3>2. byID = {} /\ byAddress = NewPeer
      BY <1>0, <3>1 DEF Maps, Addition, Adding
    <3>3. Addition' /\ Removal'
      BY <1>1, <2>1, <2>0, <2>2, <3>1, <3>2 DEF Addition, Removal, Adding
    <3>4. ~revived => saved \ Leaving = {NewPeer} /\ NewPeer \notin Leaving
      BY <1>0, <3>1 DEF Maps, Database, Adding
    <3>5. ~revived' => Database'
      BY <1>1, <2>1, <3>1, <3>2, <3>4 DEF Database, Adding
    <3> QED  BY <1>0, <3>1, <3>3, <3>5 DEF Maps
  <2> QED  BY <1>3, <2>3, <2>4, <2>5
<1> QED  BY <1>2, <1>3

LEMMA InitMInv == Init => MInv
<1> SUFFICES ASSUME Init PROVE MInv
  OBVIOUS
<1>0. /\ peerCount \in {0, 1} /\ byID = {peerCount} \ {0} /\ byAddress = peerCount /\ bySerial = peerCount
      /\ saved = byID /\ \A t \in Threads : pc[t] = "Idle" /\ ref[t] = None
      /\ air = <<>> /\ queueCount = 0 /\ requests = 0 /\ calls = 0 /\ message = NoMessage
  BY DEF Init
<1>1. IInv
  BY InitIInv
<1>2. DataType
  <2>1. queue \in [Queues -> Entry]
    <3>1. Empty \in Entry
      <4>1. <<>> \in Seq(Packets)
        BY SeqFacts
      <4> QED  BY <4>1 DEF Empty, Entry, None, QueueTypes
    <3> QED  BY <3>1 DEF Init
  <2>2. PeerType
    <3>1. ref \in [Threads -> Nat] /\ want \in Arguments /\ unpairID \in Nat
      BY ArgumentFacts DEF Init, None
    <3> QED  BY <1>0, <3>1 DEF PeerType
  <2>3. AirType
    BY <1>0, SeqFacts, PairingAssumption DEF AirType
  <2> QED  BY <1>0, <2>1, <2>2, <2>3 DEF Init, DataType, None
<1>3. Budget
  <2>1. IsFiniteSet(Asked(air)) /\ Cardinality(Asked(air)) = 0
    BY <1>0, FS_EmptySet DEF Asked
  <2>2. message.type # "request"
    BY <1>0 DEF NoMessage
  <2> QED  BY <1>0, <2>1, <2>2 DEF Budget, Due, One, Threads
<1>4. Maps
  <2>1. Leaving = {}
    BY <1>0, LeavingIs DEF Threads
  <2> QED  BY <1>0, <2>1 DEF Maps, Addition, Removal, Database, Adding, Threads, None
<1> QED  BY <1>1, <1>2, <1>3, <1>4 DEF MInv

LEMMA NextMInv == MInv /\ [Next]_vars => MInv'
<1> SUFFICES ASSUME MInv, [Next]_vars PROVE MInv'
  OBVIOUS
<1>1. IInv'
  BY NextIInv DEF MInv
<1>2. PeersKept
  BY NextPeersKept
<1>3. Maps'
  BY <1>2, MapsAsideSteps, MapsAsideKeeps, RemovalKeeps, AdditionKeeps DEF Next, Rpc, Listener
<1> QED  BY <1>1, <1>3, NextDataType, NextBudget DEF MInv

\* The maps of peers and the database agree whenever no peer is being added or
\* deleted, whatever RPC calls, requests and acknowledgements come in between,
\* unless an acknowledgement has added a peer which deleteDevice was deleting.
THEOREM PeersAgree == Spec => []MapsAgree
<1>1. ASSUME MInv PROVE MapsAgree
  <2>1. ~Changing => Leaving = {} /\ ~Adding /\ pc["listener"] # "AddID"
    BY LeavingIs DEF Changing, Adding
  <2> QED  BY <1>1, <2>1 DEF MInv, Maps, Addition, Database, MapsAgree
<1> QED  BY InitMInv, NextMInv, <1>1, PTL DEF Spec

-----------------------------------------------------------------------------
(* What a paired device is to the central.  Its acknowledgement of the       *)
(* inclusion is on the air or at the listener until the peer is in the map.  *)

Included == [type |-> "ack", of |-> "include"]
OnTheWay ==
    \/ \E i \in DOMAIN air : air[i] = Included
    \/ message = Included /\ pc["listener"] \in {"Access", "AccessPeer", "Ack"}
    \/ pc["listener"] = "Add"
PairedKnown == device = "paired" /\ ~disposing /\ ~missed /\ byAddress = None => OnTheWay
KInv == MInv /\ missed \in BOOLEAN /\ PairedKnown

\* Steps in which the acknowledgement stays where it is.
WayAside ==
    /\ UNCHANGED <<device, disposing, missed, byAddress, air>>
    /\ \/ UNCHANGED <<message, pc["listener"]>>
       \/ pc["listener"] \notin {"Access", "AccessPeer", "Ack", "Add"}

LEMMA WayAsideSteps ==
  ASSUME MInv
  PROVE  /\ ApiCalls \/ UnpairLock \/ UnpairJoin \/ Poll \/ Unpair => WayAside
         /\ \A t \in {"rpc", "listener"} : ModeLock(t) \/ ModeJoin(t) \/ Delete(t) \/ EraseWait(t) => WayAside
         /\ Request \/ Include \/ Save \/ AddID \/ AckPop => WayAside
         /\ Timer \/ Disposal => WayAside
         /\ Expire \/ Grow \/ Forget \/ UNCHANGED vars => WayAside
<1>0. pc \in [Threads -> Labels]
  BY DEF MInv, IInv, Types
<1> USE DEF WayAside, maps, outside, locals, task, history, Goto, Threads, At
<1>1. ApiCalls => WayAside
  BY <1>0 DEF ApiCalls, CallSetInstallMode, CallDeleteDevice, Configure, Call
<1>2. UnpairLock \/ UnpairJoin \/ Poll \/ Unpair => WayAside
  BY <1>0 DEF UnpairLock, UnpairJoin, Poll, Unpair, Reset, ResetQueue
<1>3. ASSUME NEW t \in {"rpc", "listener"}
      PROVE  ModeLock(t) \/ ModeJoin(t) \/ Delete(t) \/ EraseWait(t) => WayAside
  BY <1>0 DEF ModeLock, ModeLockIf, ModeEnter, ModeJoin, ModeJoinShowing, Delete, EraseWait
<1>4. Request \/ Include \/ Save \/ AddID \/ AckPop => WayAside
  BY <1>0 DEF Request, Include, Save, AddID, AckPop
<1>5. Timer \/ Disposal => WayAside
  BY <1>0 DEF Timer, TimerStart, TimerTick, TimerEnd, Disposal, StopUnpair, StopUnpairJoin,
              StopTimer, StopTimerJoin
<1>6. Expire \/ Grow \/ Forget \/ UNCHANGED vars => WayAside
  BY <1>0 DEF Expire, Grow, Forget, vars
<1> QED  BY <1>1, <1>2, <1>3, <1>4, <1>5, <1>6

LEMMA NextPairedKnown ==
  ASSUME KInv, [Next]_vars
  PROVE  missed' \in BOOLEAN /\ PairedKnown'
<1>0. /\ MInv /\ PairedKnown /\ missed \in BOOLEAN /\ pc \in [Threads -> Labels] /\ air \in Seq(Message)
  BY DEF KInv, MInv, IInv, Types, DataType, AirType
<1> USE DEF maps, outside, locals, task, Goto, Threads, At
<1>1. CASE WayAside
  BY <1>0, <1>1 DEF WayAside, PairedKnown, OnTheWay
<1>2. CASE Receive
  <2>1. /\ UNCHANGED <<device, disposing, missed, byAddress>> /\ pc["listener"] = "Idle"
        /\ air # <<>> /\ message' = Head(air) /\ air' = Tail(air) /\ pc'["listener"] = "Access"
    BY <1>0, <1>2 DEF Receive, history
  <2>2. \A i \in DOMAIN air : air[i] = Head(air) \/ \E j \in DOMAIN Tail(air) : Tail(air)[j] = air[i]
    <3>1. ASSUME NEW i \in DOMAIN air, i # 1
          PROVE  i - 1 \in DOMAIN Tail(air) /\ Tail(air)[i - 1] = air[i]
      BY <1>0, <2>1, <3>1
    <3>2. air[1] = Head(air)
      BY <1>0, <2>1
    <3> QED  BY <3>1, <3>2
  <2> QED  BY <1>0, <2>1, <2>2 DEF PairedKnown, OnTheWay
<1>3. CASE Access
  <2>1. /\ UNCHANGED <<device, disposing, missed, byAddress, air>> /\ pc["listener"] = "Access"
        /\ message.type # "request" => pc'["listener"] = "AccessPeer" /\ UNCHANGED message
    BY <1>0, <1>3 DEF Access, history, Continue
  <2> QED  BY <1>0, <2>1 DEF PairedKnown, OnTheWay, Included
<1>4. CASE AccessPeer
  <2>1. /\ UNCHANGED <<device, disposing, byAddress, air>> /\ pc["listener"] = "AccessPeer"
        /\ \/ /\ UNCHANGED <<message, missed>>
              /\ (message.type # "request" => pc'["listener"] = "Ack")
           \/ missed' \in BOOLEAN /\ (missed => missed') /\ (message.type = "ack" => missed')
    BY <1>0, <1>4 DEF AccessPeer, Continue, Known
  <2> QED  BY <1>0, <2>1 DEF PairedKnown, OnTheWay, Included
<1>5. CASE Nack \/ Ack
  <2>1. /\ UNCHANGED <<device, disposing, byAddress, air>> /\ pc["listener"] = "Ack"
        /\ (message = Included /\ byAddress = None => missed' \/ pc'["listener"] = "Add")
        /\ (missed => missed') /\ missed' \in BOOLEAN
    <3>1. CASE Nack
      BY <1>0, <3>1 DEF Nack, history, Included
    <3>2. CASE Ack
      <4>1. /\ UNCHANGED <<device, disposing, byAddress, air>> /\ pc["listener"] = "Ack"
            /\ (AckMeans = "paired" => pc'["listener"] = "Add")
        BY <1>0, <3>2 DEF Ack
      <4>2. missed' = (missed \/ (message.of = "include" /\ byAddress = None /\ AckMeans # "paired"))
        BY <3>2 DEF Ack
      <4>3. message = Included => message.of = "include"
        BY DEF Included
      <4> QED  BY <1>0, <4>1, <4>2, <4>3
    <3> QED  BY <1>5, <3>1, <3>2
  <2> QED  BY <1>0, <2>1 DEF PairedKnown, OnTheWay
<1>6. CASE Add
  <2>1. byAddress' # None /\ UNCHANGED missed
    BY <1>0, <1>6 DEF Add, MInv, Maps, Addition, NewPeer
  <2> QED  BY <1>0, <2>1 DEF PairedKnown
<1>7. ASSUME NEW t \in {"rpc", "listener"}, Erase(t)
      PROVE  missed' \in BOOLEAN /\ PairedKnown'
  <2>1. missed' = (missed \/ device = "paired") /\ UNCHANGED device
    BY <1>7 DEF Erase, EraseLeaving
  <2> QED  BY <1>0, <2>1 DEF PairedKnown
<1>8. CASE Press \/ Transmit
  <2>1. /\ UNCHANGED <<disposing, byAddress, message, pc>>
        /\ (missed => missed') /\ missed' \in BOOLEAN
        /\ air' = air \/ \E m \in Message : air' = Append(air, m)
        /\ \/ device' \in {device, "new"}
           \/ disposing \/ missed' \/ air' = Append(air, Included)
    <3>1. CASE Press
      BY <1>0, <3>1, Messages DEF Press, Emit, history
    <3>2. CASE Transmit
      <4> DEFINE p == Head(queue[registered].entries)
      <4>1. p \in Kinds /\ After(p) = IF p = "include" THEN "paired" ELSE IF p = "reset" THEN "new" ELSE device
        BY <3>2 DEF Transmit, FrontIs, After
      <4>2. /\ UNCHANGED <<disposing, byAddress, message, pc>>
            /\ \/ UNCHANGED <<device, air, missed>>
               \/ /\ device' = After(p) /\ UNCHANGED missed
                  /\ air' = IF disposing THEN air ELSE Append(air, [type |-> "ack", of |-> p])
               \/ device' = After(p) /\ missed' = (missed \/ p = "include") /\ UNCHANGED air
               \/ /\ UNCHANGED <<device, missed>>
                  /\ air' = IF disposing THEN air ELSE Append(air, [type |-> "nack", of |-> p])
        BY <3>2 DEF Transmit, Emit
      <4> QED  BY <1>0, <4>1, <4>2, Messages DEF Included
    <3> QED  BY <1>8, <3>1, <3>2
  <2>2. \A m \in Message : /\ \A i \in DOMAIN air : i \in DOMAIN Append(air, m) /\ Append(air, m)[i] = air[i]
                           /\ \E i \in DOMAIN Append(air, m) : Append(air, m)[i] = m
    <3>1. ASSUME NEW m \in Message
          PROVE  /\ \A i \in DOMAIN air : i \in DOMAIN Append(air, m) /\ Append(air, m)[i] = air[i]
                 /\ Len(air) + 1 \in DOMAIN Append(air, m) /\ Append(air, m)[Len(air) + 1] = m
      BY <1>0
    <3> QED  BY <3>1
  <2>3. Included \in Message
    BY Messages DEF Included, Kinds
  <2>4. OnTheWay => OnTheWay'
    <3>1. CASE air' = air
      BY <2>1, <3>1 DEF OnTheWay
    <3>2. CASE \E m \in Message : air' = Append(air, m)
      BY <2>1, <2>2, <3>2 DEF OnTheWay
    <3> QED  BY <2>1, <3>1, <3>2
  <2>5. air' = Append(air, Included) => OnTheWay'
    BY <2>2, <2>3 DEF OnTheWay
  <2> QED  BY <1>0, <2>1, <2>4, <2>5 DEF PairedKnown
<1>9. CASE Dispose
  BY <1>0, <1>9 DEF Dispose, PairedKnown
<1> QED
  BY <1>0, <1>1, <1>2, <1>3, <1>4, <1>5, <1>6, <1>7, <1>8, <1>9, WayAsideSteps
     DEF Next, Rpc, Listener, Environment

\* A device that takes itself for paired is in the map of peers once its answers
\* are through, unless one was lost or not recognised or a peer was deleted
\* while the device was paired, for any number of requests and transmissions.
THEOREM PairedIsKnown == Spec => []KnownIfPaired
<1>1. Init => KInv
  <2>1. Init => missed = FALSE /\ (device = "paired" => byAddress # None)
    BY DEF Init, None
  <2> QED  BY <2>1, InitMInv DEF KInv, PairedKnown
<1>2. KInv /\ [Next]_vars => KInv'
  BY NextMInv, NextPairedKnown DEF KInv
<1>3. KInv => KnownIfPaired
  BY DEF KInv, PairedKnown, OnTheWay, KnownIfPaired
<1> QED  BY <1>1, <1>2, <1>3, PTL DEF Spec

-----------------------------------------------------------------------------
(* What makes the central forget a device: as long as the packet last sent   *)
(* is the reset, an answer that is due is the answer to it; from there to    *)
(* the removal nothing can include the device again.                         *)

Plain == Packets \ {"include"}
NoInclusion == \A q \in Queues : queue[q].type = "UNPAIRING" => queue[q].entries \in Seq(Plain)
ResetAnswered == sent = "reset" /\ ~crossed /\ AnswerDue => device = "new"
Forgetting ==
    pc["listener"] \in {"Delete", "Erase"} =>
        /\ device = "new" \/ crossed
        /\ registered # None => ~FrontIs(registered, {"include"})
FInv == MInv /\ crossed \in BOOLEAN /\ NoInclusion /\ ResetAnswered /\ Forgetting

LEMMA NextNoInclusion ==
  ASSUME MInv, NoInclusion, [Next]_vars
  PROVE  NoInclusion'
<1>0. /\ queue \in [Queues -> Entry] /\ queue' \in [Queues -> Entry]
      /\ <<>> \in Seq(Plain) /\ \A e \in Seq(Plain) : e # <<>> => Tail(e) \in Seq(Plain)
  <2>1. queue' \in [Queues -> Entry]
    BY NextDataType DEF DataType
  <2> QED  BY <2>1, SeqFacts DEF MInv, DataType
<1>1. SUFFICES ASSUME NEW q \in Queues
               PROVE  \/ /\ queue'[q].type = queue[q].type
                         /\ \/ queue'[q].entries = queue[q].entries
                            \/ queue[q].entries # <<>> /\ queue'[q].entries = Tail(queue[q].entries)
                      \/ queue'[q].entries \in Seq(Plain)
                      \/ queue'[q].type # "UNPAIRING"
  BY <1>0 DEF NoInclusion
<1>2. CASE QueuesUntouched
  BY <1>2 DEF QueuesUntouched
<1>3. CASE Transmit \/ Expire
  <2>1. CASE Transmit
    BY <1>0, <2>1 DEF Transmit, Entry
  <2>2. CASE Expire
    BY <1>0, <2>2 DEF Expire, Entry, Empty
  <2> QED  BY <1>3, <2>1, <2>2
<1>4. ASSUME NEW type, NEW peer, NEW entries, type = "UNPAIRING" => entries \in Seq(Plain),
             NewQueue(type, peer, entries)
      PROVE  \/ queue'[q] = queue[q]
             \/ queue'[q].entries \in Seq(Plain)
             \/ queue'[q].type # "UNPAIRING"
  BY <1>0, <1>4 DEF NewQueue, Empty
<1>5. CASE ResetQueue \/ (\E p \in byID : Configure(p)) \/ Include
  <2>1. <<"reset", "answer">> \in Seq(Plain)
    BY DEF Plain, Packets
  <2>2. \/ queue' = queue
        \/ \E peer : NewQueue("UNPAIRING", peer, <<"reset", "answer">>)
        \/ \E peer, entries : NewQueue("CONFIG", peer, entries)
        \/ \E peer, entries : NewQueue("PAIRING", peer, entries)
    BY <1>5 DEF ResetQueue, Configure, Include, queuing
  <2> QED  BY <1>4, <2>1, <2>2
<1>6. ASSUME NEW p, PopFront(p)
      PROVE  /\ queue'[q].type = queue[q].type
             /\ \/ queue'[q].entries = queue[q].entries
                \/ queue[q].entries # <<>> /\ queue'[q].entries = Tail(queue[q].entries)
  BY <1>0, <1>6 DEF PopFront, Entry
<1>7. CASE Access \/ Nack \/ AckPop
  <2>1. \/ queue' = queue
        \/ \E p : PopFront(p)
        \/ \E p : queue' = [queue EXCEPT ![p].sends = 0] \/ queue' = [queue EXCEPT ![p].entries = <<>>]
    BY <1>7 DEF Access, Nack, AckPop, queuing
  <2>2. ASSUME NEW p, queue' = [queue EXCEPT ![p].sends = 0] \/ queue' = [queue EXCEPT ![p].entries = <<>>]
        PROVE  /\ queue'[q].type = queue[q].type
               /\ queue'[q].entries \in {queue[q].entries, <<>>}
    <3>1. CASE queue' = [queue EXCEPT ![p].sends = 0]
      BY <1>0, <3>1 DEF Entry
    <3>2. CASE queue' = [queue EXCEPT ![p].entries = <<>>]
      BY <1>0, <3>2 DEF Entry
    <3> QED  BY <2>2, <3>1, <3>2
  <2> QED  BY <1>0, <1>6, <2>1, <2>2
<1> QED  BY <1>2, <1>3, <1>5, <1>7, UntouchedSteps

LEMMA NextResetAnswered ==
  ASSUME MInv, crossed \in BOOLEAN, ResetAnswered, [Next]_vars
  PROVE  crossed' \in BOOLEAN /\ ResetAnswered'
<1>0. air \in Seq(Message)
  BY DEF MInv, DataType, AirType
<1> USE DEF queuing, outside, locals, task, history
<1>1. CASE UNCHANGED <<sent, crossed, device>> /\ (AnswerDue' => AnswerDue)
  BY <1>1 DEF ResetAnswered
<1>2. CASE UNCHANGED <<sent, crossed, device, air>> /\ message' \in {message, NoMessage}
  <2>1. AnswerDue' => AnswerDue
    BY <1>2 DEF AnswerDue, NoMessage
  <2> QED  BY <1>1, <1>2, <2>1
<1>3. CASE ApiCalls \/ UnpairLock \/ UnpairJoin \/ Poll \/ Unpair
  BY <1>2, <1>3 DEF ApiCalls, CallSetInstallMode, CallDeleteDevice, Configure, Call, NewQueue,
                    UnpairLock, UnpairJoin, Poll, Unpair, Reset, ResetQueue
<1>4. ASSUME NEW t \in {"rpc", "listener"},
             ModeLock(t) \/ ModeJoin(t) \/ Delete(t) \/ Erase(t) \/ EraseWait(t)
      PROVE  crossed' \in BOOLEAN /\ ResetAnswered'
  BY <1>2, <1>4 DEF ModeLock, ModeLockIf, ModeJoin, ModeJoinShowing, Delete, Erase, EraseLeaving, EraseWait
<1>5. CASE Access \/ AccessPeer \/ Request \/ Include
  BY <1>2, <1>5 DEF Access, AccessPeer, Request, Include, PopFront, NewQueue, Finish, Continue
<1>6. CASE Nack \/ Ack \/ Add \/ Save \/ AddID \/ AckPop
  BY <1>2, <1>6 DEF Nack, Ack, Add, Save, AddID, AckPop, PopFront, Finish
<1>7. CASE Timer \/ Disposal \/ Expire \/ UNCHANGED vars
  BY <1>2, <1>7 DEF Timer, TimerStart, TimerTick, TimerEnd, Disposal, StopUnpair, StopUnpairJoin,
              StopTimer, StopTimerJoin, Expire, vars
<1>8. CASE Receive
  <2>1. UNCHANGED <<sent, crossed, device>> /\ air # <<>> /\ message' = Head(air) /\ air' = Tail(air)
    BY <1>8 DEF Receive
  <2>2. \A i \in 1..Len(Tail(air)) : Tail(air)[i] = air[i + 1] /\ i + 1 \in 1..Len(air)
    BY <1>0, <2>1
  <2>3. Head(air) = air[1] /\ 1 \in 1..Len(air)
    BY <1>0, <2>1
  <2>4. AnswerDue' => AnswerDue
    BY <2>1, <2>2, <2>3 DEF AnswerDue
  <2> QED  BY <1>1, <2>1, <2>4
<1>9. CASE Dispose
  <2>1. UNCHANGED <<sent, crossed, device, message>> /\ air' = <<>>
    BY <1>9 DEF Dispose
  <2>2. AnswerDue' => AnswerDue
    BY <2>1 DEF AnswerDue
  <2> QED  BY <1>1, <2>1, <2>2
<1>10. CASE Press
  <2>1. /\ UNCHANGED <<sent, crossed, message>> /\ device' \in {device, "new"}
        /\ \E b \in BOOLEAN : air' = air \/ air' = Append(air, [type |-> "request", mine |-> b])
    BY <1>10 DEF Press, Emit
  <2>2. PICK b \in BOOLEAN : air' = air \/ air' = Append(air, [type |-> "request", mine |-> b])
    BY <2>1
  <2>3. \A i \in 1..Len(air') : air'[i].type = "ack" => i \in 1..Len(air) /\ air'[i] = air[i]
    <3>1. [type |-> "request", mine |-> b] \in Message
      BY Messages
    <3> QED  BY <1>0, <2>2, <3>1
  <2>4. AnswerDue' => AnswerDue
    BY <2>1, <2>3 DEF AnswerDue
  <2> QED  BY <2>1, <2>4 DEF ResetAnswered
<1>11. CASE Transmit
  <2> DEFINE p == Head(queue[registered].entries)
  <2>1. sent' = p /\ p \in Kinds /\ crossed' = (crossed \/ (p = "reset" /\ AnswerDue)) /\ UNCHANGED message
    BY <1>11 DEF Transmit, Remember, FrontIs
  <2>2. \/ UNCHANGED <<device, air>>
        \/ device' = After(p)
        \/ UNCHANGED device /\ air' = IF disposing THEN air ELSE Append(air, [type |-> "nack", of |-> p])
    BY <1>11 DEF Transmit, Emit
  <2>3. p = "reset" => \/ device' = "new"
                       \/ UNCHANGED device /\ (AnswerDue' => AnswerDue)
    <3>1. CASE UNCHANGED <<device, air>>
      BY <2>1, <3>1 DEF AnswerDue
    <3>2. CASE device' = After(p)
      BY <3>2 DEF After
    <3>3. CASE UNCHANGED device /\ air' = Append(air, [type |-> "nack", of |-> p])
      <4>1. \A i \in 1..Len(air') : air'[i].type = "ack" => i \in 1..Len(air) /\ air'[i] = air[i]
        BY <1>0, <2>1, <3>3, Messages
      <4> QED  BY <2>1, <3>3, <4>1 DEF AnswerDue
    <3> QED  BY <2>2, <3>1, <3>2, <3>3
  <2> HIDE DEF p
  <2> QED  BY <2>1, <2>3 DEF ResetAnswered
<1>12. CASE Grow \/ Forget
  BY <1>12 DEF Grow, Forget, ResetAnswered, AnswerDue
<1> QED
  BY <1>3, <1>4, <1>5, <1>6, <1>7, <1>8, <1>9, <1>10, <1>11, <1>12 DEF Next, Rpc, Listener, Environment

LEMMA WithinBudget ==
  ASSUME NEW n \in Nat, NEW due \in Nat, NEW r \in 0..Requests, NEW c \in 0..Calls, n + due <= r + c,
         NEW q \in 0..n, q # None
  PROVE  q \in Queues
  BY PairingAssumption DEF Queues, None

LEMMA RegisteredExists ==
  ASSUME MInv, [Next]_vars
  PROVE  registered' # None => registered' \in Queues
<1>1. Budget' /\ DataType'
  BY NextBudget, NextDataType
<1>2. Due' \in Nat
  <2>1. Cardinality(Asked(air')) \in Nat
    BY <1>1, FS_CardinalityType DEF Budget
  <2> QED  BY <2>1 DEF Due, One
<1>3. /\ queueCount' \in Nat /\ registered' \in 0..queueCount'
      /\ calls' \in 0..Calls /\ requests' \in 0..Requests
      /\ queueCount' + Due' <= requests' + calls'
  BY <1>1 DEF DataType, AirType, Budget
<1> QED  BY <1>2, <1>3, WithinBudget

LEMMA NextForgetting ==
  ASSUME FInv, [Next]_vars
  PROVE  Forgetting'
<1>0. /\ MInv /\ pc \in [Threads -> Labels] /\ queue \in [Queues -> Entry] /\ crossed \in BOOLEAN
      /\ registered # None => registered \in Queues
      /\ NoInclusion /\ ResetAnswered /\ Forgetting
  BY HeldExists DEF FInv, MInv, IInv, Types, DataType
<1> USE DEF queuing, outside, locals, task, history, Goto, Threads
<1>1. CASE pc'["listener"] \notin {"Delete", "Erase"}
  BY <1>1 DEF Forgetting
<1>2. CASE /\ pc["listener"] \in {"Delete", "Erase"}
           /\ UNCHANGED <<queue, registered, crossed>> /\ device' \in {device, "new"}
  BY <1>0, <1>2 DEF Forgetting, FrontIs
<1>3. CASE Listener
  <2>1. CASE Ack
    <3>1. /\ UNCHANGED <<device, crossed, queue, registered>> /\ message.type = "ack"
          /\ pc'["listener"] = "Delete" => AckMeans = "unpaired"
          /\ pc'["listener"] # "Erase"
      BY <1>0, <2>1 DEF Ack, Finish
    <3>2. CASE AckMeans = "unpaired"
      <4>1. /\ Registered # None /\ Registered = registered
            /\ queue[registered].type = "UNPAIRING" /\ Sent = "reset" /\ sent = "reset"
        BY <3>2 DEF AckMeans, AckMeansIf, Registered, Sent
      <4>2. device = "new" \/ crossed
        BY <1>0, <3>1, <4>1 DEF ResetAnswered, AnswerDue
      <4>3. ~FrontIs(registered, {"include"})
        <5>1. queue[registered].entries \in Seq(Plain)
          BY <1>0, <4>1 DEF NoInclusion
        <5> QED  BY <5>1, SeqFacts DEF FrontIs, Plain
      <4> QED  BY <3>1, <4>2, <4>3 DEF Forgetting, FrontIs
    <3>3. CASE AckMeans # "unpaired"
      BY <1>1, <3>1, <3>3 DEF Forgetting
    <3> QED  BY <3>2, <3>3
  <2>2. CASE Delete("listener")
    BY <1>0, <1>2, <2>2 DEF Delete, At
  <2>3. CASE pc'["listener"] \in {"Delete", "Erase"} /\ ~Ack /\ ~Delete("listener")
    <3>1. Receive \/ Access \/ AccessPeer \/ Request \/ Include \/ Nack => FALSE
      BY <1>0, <2>3 DEF Receive, Access, AccessPeer, Request, Include, Nack, Finish, Continue
    <3>2. Add \/ Save \/ AddID \/ AckPop => FALSE
      BY <1>0, <2>3 DEF Add, Save, AddID, AckPop, Finish
    <3>3. ModeLock("listener") \/ ModeJoin("listener") \/ Erase("listener") \/ EraseWait("listener") => FALSE
      BY <1>0, <2>3 DEF ModeLock, ModeLockIf, ModeEnter, ModeJoin, ModeJoinShowing, Erase, EraseLeaving,
                        EraseWait, Return
    <3> QED  BY <1>3, <2>3, <3>1, <3>2, <3>3 DEF Listener
  <2> QED  BY <1>1, <2>1, <2>2, <2>3
\* The other threads leave the listener where it is.
<1>4. ASSUME NEW type, NEW peer, NEW entries, entries # <<>>, Head(entries) # "include",
             NewQueue(type, peer, entries), UNCHANGED <<device, crossed, pc["listener"]>>
      PROVE  Forgetting'
  <2>1. registered' # None => queue'[registered'].entries \in {entries, <<>>} \/ registered' \notin Queues
    BY <1>4 DEF NewQueue
  <2>2. registered' \in Queues \/ registered' = None
    BY <1>0, RegisteredExists
  <2> QED  BY <1>0, <1>4, <2>1, <2>2 DEF Forgetting, FrontIs
<1>5. CASE ApiCalls
  <2>1. CASE \E p \in byID : Configure(p)
    <3>1. PICK p \in byID : Configure(p)
      BY <2>1
    <3>2. NewQueue("CONFIG", p, <<"other", "answer">>) /\ UNCHANGED <<device, crossed, pc["listener"]>>
      BY <1>0, <3>1 DEF Configure, Call
    <3> QED  BY <1>4, <3>2
  <2>2. CASE ~\E p \in byID : Configure(p)
    BY <1>0, <1>1, <1>2, <1>5, <2>2 DEF ApiCalls, CallSetInstallMode, CallDeleteDevice, Call
  <2> QED  BY <2>1, <2>2
<1>6. CASE Unpair
  <2>1. CASE ResetQueue /\ ~Gone
    <3>1. /\ NewQueue("UNPAIRING", ref["unpair"], <<"reset", "answer">>)
          /\ UNCHANGED <<device, crossed, pc["listener"]>>
      BY <1>0, <2>1 DEF ResetQueue
    <3> QED  BY <1>4, <3>1
  <2>2. CASE Reset \/ (ResetQueue /\ Gone)
    BY <1>0, <1>1, <1>2, <2>2 DEF Reset, ResetQueue
  <2> QED  BY <1>6, <2>1, <2>2 DEF Unpair
<1>7. CASE Rpc
  BY <1>0, <1>1, <1>2, <1>7 DEF Rpc, UnpairLock, UnpairJoin, Poll, ModeLock, ModeLockIf, ModeEnter, ModeJoin,
              ModeJoinShowing, Delete, Erase, EraseLeaving, EraseWait
<1>8. CASE Timer \/ Dispose \/ Disposal
  BY <1>0, <1>1, <1>2, <1>8 DEF Timer, TimerStart, TimerTick, TimerEnd, Dispose, Disposal, StopUnpair,
              StopUnpairJoin, StopTimer, StopTimerJoin
<1>9. CASE Environment \/ UNCHANGED vars
  BY <1>0, <1>1, <1>2, <1>9 DEF Environment, Press, Grow, Forget, vars
<1>10. CASE Expire
  <2>1. registered' = None /\ UNCHANGED <<device, crossed, pc>>
    BY <1>10 DEF Expire
  <2> QED  BY <1>0, <2>1 DEF Forgetting
<1>11. CASE Transmit
  <2> DEFINE p == Head(queue[registered].entries)
  <2>1. /\ registered \in Queues /\ registered # None /\ FrontIs(registered, Kinds)
        /\ UNCHANGED <<pc, registered>> /\ crossed' = (crossed \/ (p = "reset" /\ AnswerDue))
        /\ device' \in {device, After(p)} /\ queue' = [queue EXCEPT ![registered].sends = @ + 1]
    BY <1>0, <1>11 DEF Transmit
  <2>2. queue'[registered].entries = queue[registered].entries
    BY <1>0, <2>1 DEF Entry
  <2>3. ~FrontIs(registered, {"include"}) => device' \in {device, "new"}
    BY <2>1 DEF FrontIs, After
  <2> QED  BY <1>0, <2>1, <2>2, <2>3 DEF Forgetting, FrontIs
<1> QED
  BY <1>3, <1>5, <1>6, <1>7, <1>8, <1>9, <1>10, <1>11 DEF Next

\* An acknowledgement makes the central forget a device only if the device has
\* been reset, or if it may have been the answer to something else, for any
\* number of calls, requests and transmissions.
THEOREM ForgetsOnlyAfterReset == Spec => DeletedOnlyIfReset
<1>1. Init => FInv
  <2>1. Init => /\ crossed = FALSE /\ sent = "none" /\ pc["listener"] = "Idle"
                /\ \A q \in Queues : queue[q].type = "DEFAULT"
    BY DEF Init, Empty, Threads
  <2> QED  BY <2>1, InitMInv DEF FInv, NoInclusion, ResetAnswered, Forgetting
<1>2. FInv /\ [Next]_vars => FInv'
  BY NextMInv, NextNoInclusion, NextResetAnswered, NextForgetting DEF FInv
<1>3. FInv /\ [Next]_vars => [pc["listener"] = "Erase" /\ byAddress' = None => device = "new" \/ crossed]_vars
  BY DEF FInv, Forgetting
<1> QED  BY <1>1, <1>2, <1>3, PTL DEF Spec, DeletedOnlyIfReset

=============================================================================
