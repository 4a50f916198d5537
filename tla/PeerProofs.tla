------------------------------ MODULE PeerProofs ------------------------------
(***************************************************************************)
(* Proofs about a peer: the values it caches, saves and queues.            *)
(*                                                                         *)
(* Types come first, then the theorems that a waiting call succeeds for a  *)
(* reason, that the device ends up with the value queued last, and that    *)
(* cache and database follow the device.  Each rests on an invariant about *)
(* what is still under way.                                                *)
(***************************************************************************)
EXTENDS PeerValues, FiniteSetTheorems, SequenceTheorems, TLAPS

ValueQueue == [id : Ids, param : Params, values : [Params -> Values]]
ConfigQueue == [id : Ids, param : {Config}]

\* What an RPC thread works with, by where it is.
Setting ==
    [at : {"Cache", "Save", "Build", "Push", "Enqueue", "Wait"}, unread : SUBSET Params, packet : ValueQueue]
Configuring == [at : {"Push", "Enqueue"}, packet : ConfigQueue]
ClientStates == {Idle} \union Setting \union Configuring

\* The steps that read a value for the packet, and that queue it.
Builds(c) == \E p \in Params : Build(c, p)
Enqueues(c) == \E wait \in BOOLEAN : Enqueue(c, wait)

\* Only a send queue sends, and the listener works on a message.
TypeInv ==
    /\ TypeOK
    /\ client \in [Clients -> ClientStates]
    /\ calls \in 0..Calls /\ events \in 0..Events
    /\ turned \subseteq Params /\ unreported \in BOOLEAN /\ killed \in BOOLEAN
    /\ queueType = "NONE" => ~attached /\ sending = NoPacket
    /\ listener # "Idle" => message \in Message
    /\ listener \in {"Write", "Save"} => param \in Reported

\* The answer to the packet being sent is on its way; there is no other, and the
\* device has got the packet.
AnswerComing == listener = "Access" \/ \E i \in 1..Len(air) : air[i].ack
Acks ==
    /\ \A i \in 1..Len(air) : air[i].ack => /\ sending # NoPacket /\ air[i].counter = sending.id
                                            /\ listener # "Access"
                                            /\ \A j \in 1..Len(air) : air[j].ack => j = i
    /\ listener = "Access" => message.ack /\ message.counter = sending.id /\ sending # NoPacket
    /\ AnswerComing => /\ sending.id \in delivered
                       /\ \A p \in Carried(sending) \ turned : device[p] = sending.values[p]

\* A packet that was queued is pending until it has been delivered or replaced.
Accounted ==
    \A c \in Clients : client[c].at \in {"Enqueue", "Wait"} =>
        \/ client[c].packet.id \in delivered \union superseded
        \/ \E i \in 1..Len(pending) : pending[i].id = client[c].packet.id

\* A thread that has not queued its packet yet.
Underway(c) == client[c].at \in {"Cache", "Save", "Build", "Push"}

\* An id stands for one packet; what is put into the database and back is the
\* list of a process that has ended, so this is for the time before a kill.
Fresh ==
    ~killed =>
        /\ \A i, j \in 1..Len(pending) : pending[i].id = pending[j].id => i = j
        /\ \A i \in 1..Len(pending) : /\ pending[i].id <= calls
                                      /\ pending[i].id = sending.id => pending[i] = sending
        /\ sending.id <= calls
        /\ \A c \in Clients : Underway(c) =>
              /\ client[c].packet.id <= calls /\ client[c].packet.id # sending.id
              /\ \A i \in 1..Len(pending) : pending[i].id # client[c].packet.id
              /\ \A d \in Clients : Underway(d) /\ client[d].packet.id = client[c].packet.id => d = c

\* The value of a parameter queued last: a thread is about to queue another, or it
\* is in the last packet pending that has the parameter, or the device has it and
\* nothing older is sent.
Replacing(p) == \E c \in Clients : At(c, "Push") /\ p \in Carried(client[c].packet)
LastPending(p) ==
    \E i \in 1..Len(pending) : /\ p \in Carried(pending[i]) /\ pending[i].values[p] = newest[p]
                               /\ \A j \in 1..Len(pending) : j > i => p \notin Carried(pending[j])
AtDevice(p) ==
    /\ \A i \in 1..Len(pending) : p \notin Carried(pending[i])
    /\ device[p] = newest[p]
    /\ sending # NoPacket /\ p \in Carried(sending) => sending.values[p] = newest[p]
Following(p) == Replacing(p) \/ LastPending(p) \/ AtDevice(p)
Newest == ~killed => \A p \in Params \ turned : Following(p)

\* What the device told last is what it has, if it was not lost.
LastTold ==
    ~unreported /\ ~killed =>
        /\ air # <<>> => air[Len(air)].values = Told(device)
        /\ air = <<>> /\ listener # "Idle" => message.values = Told(device)

\* Something will make the cache and the database follow the device: a message
\* on the air, the one the listener works on, or the answer to a value that is
\* pending or going to be.
Preparing(p) == \E c \in Clients : Underway(c) /\ client[c].packet.param = p
Ahead(p) == air # <<>> \/ Preparing(p) \/ Queued(p)
Handling(p) ==
    \/ listener \in {"Access", "Type", "Counter"}
    \/ listener = "Exists" /\ p \in todo
    \/ listener \in {"Write", "Save"} /\ (p \in todo \/ p = param)
Synced ==
    ~unreported /\ ~killed =>
        \A p \in Reported :
            /\ \/ Ahead(p) \/ Handling(p)
               \/ cache[p] = device[p] /\ stored[p] = device[p]
            /\ listener = "Save" /\ p = param => Ahead(p) \/ cache[p] = device[p]

-----------------------------------------------------------------------------
(* Sequences                                                                *)

\* SMT knows tails only index by index.
LEMMA TailElements ==
  ASSUME NEW S, NEW s \in Seq(S), s # <<>>
  PROVE  /\ Tail(s) \in Seq(S) /\ Len(Tail(s)) = Len(s) - 1 /\ Len(s) \in Nat /\ Len(s) > 0
         /\ Head(s) = s[1] /\ Head(s) \in S
         /\ \A i \in 1..Len(Tail(s)) : Tail(s)[i] = s[i + 1]
OBVIOUS

LEMMA AppendElements ==
  ASSUME NEW S, NEW s \in Seq(S), NEW e \in S
  PROVE  /\ Append(s, e) \in Seq(S) /\ Len(Append(s, e)) = Len(s) + 1 /\ Len(s) \in Nat
         /\ \A i \in 1..Len(s) : Append(s, e)[i] = s[i]
         /\ Append(s, e)[Len(s) + 1] = e
OBVIOUS

\* remove leaves the queues of the other parameters, in their order.
LEMMA RemovedElements ==
  ASSUME NEW p, pending \in Seq(Queue), NEW list \in Removed(p)
  PROVE  /\ list \in Seq(Queue)
         /\ \A k \in 1..Len(list) : list[k].param # p
         /\ \E at :
               /\ \A k \in 1..Len(list) : at[k] \in 1..Len(pending) /\ list[k] = pending[at[k]]
               /\ \A j, k \in 1..Len(list) : j < k => at[j] < at[k]
               /\ \A i \in 1..Len(pending) : pending[i].param # p => \E k \in 1..Len(list) : at[k] = i
<1>1. Cardinality(Others(p)) \in Nat
  <2>1. IsFiniteSet(1..Len(pending))
    BY FS_Interval
  <2>2. Others(p) \subseteq 1..Len(pending)
    BY DEF Others
  <2> QED  BY <2>1, <2>2, FS_Subset, FS_CardinalityType
<1>2. PICK at \in InOrder(Others(p)) : list = [k \in DOMAIN at |-> pending[at[k]]]
  BY DEF Removed
<1> DEFINE n == Cardinality(Others(p))
<1>3. /\ at \in [1..n -> Others(p)]
      /\ \A i \in Others(p) : \E k \in DOMAIN at : at[k] = i
      /\ \A j, k \in DOMAIN at : j < k => at[j] < at[k]
  BY <1>2 DEF InOrder
<1>4. Others(p) \subseteq 1..Len(pending) /\ \A i \in Others(p) : pending[i].param # p
  BY DEF Others
<1>5. DOMAIN at = 1..n /\ \A k \in 1..n : at[k] \in 1..Len(pending)
  BY <1>3, <1>4
<1>6. \A k \in 1..n : pending[at[k]] \in Queue
  BY <1>5
<1>7. list \in [1..n -> Queue] /\ Len(list) = n /\ list \in Seq(Queue)
  <2>1. list \in [1..n -> Queue]
    BY <1>2, <1>5, <1>6
  <2> HIDE DEF n
  <2> QED  BY <1>1, <2>1 DEF n
<1>8. \A k \in 1..n : list[k] = pending[at[k]]
  BY <1>2, <1>5
<1>9. \A i \in 1..Len(pending) : pending[i].param # p => i \in Others(p)
  BY DEF Others
<1> HIDE DEF n
<1>10. /\ \A k \in 1..Len(list) : at[k] \in 1..Len(pending) /\ list[k] = pending[at[k]]
       /\ \A j, k \in 1..Len(list) : j < k => at[j] < at[k]
       /\ \A i \in 1..Len(pending) : pending[i].param # p => \E k \in 1..Len(list) : at[k] = i
  BY <1>3, <1>5, <1>7, <1>8, <1>9
<1>11. \A k \in 1..Len(list) : list[k].param # p
  BY <1>3, <1>4, <1>5, <1>7, <1>8
<1> QED  BY <1>7, <1>10, <1>11

-----------------------------------------------------------------------------
(* What the parts of a step do                                              *)

\* The counters and ids are numbers.
LEMMA Numbers ==
  /\ Calls \in Nat /\ Events \in Nat /\ Counter0 \in Nat /\ AirLimit \in Nat
  /\ Ids \subseteq Nat /\ Ids \subseteq Counters /\ 0 \notin Ids /\ NoPacket \notin Queue
  /\ \A n \in 0..Events : n < Events => Counter0 + n \in Counters
  /\ Config \notin Params /\ NoParam \notin Params
<1>1. Calls \in Nat /\ Events \in Nat /\ Counter0 \in Nat \ {0} /\ AirLimit \in Nat
  BY ValuesAssumption
<1>2. Ids \subseteq Nat /\ Ids \subseteq Counters /\ 0 \notin Ids
  BY <1>1 DEF Ids, Counters
<1>3. \A n \in 0..Events : n < Events => Counter0 + n \in Counters
  BY <1>1 DEF Counters
<1>4. NoPacket.id = 0 /\ \A q \in Queue : q.id \in Ids
  BY DEF NoPacket, Queue
<1> QED  BY <1>1, <1>2, <1>3, <1>4, ValuesAssumption

LEMMA QueueParts ==
  /\ Queue = ValueQueue \union ConfigQueue
  /\ \A q \in Queue : q.id \in Ids /\ q.param \in Params \union {Config}
  /\ \A q \in Queue : q.param \in Params <=> q \in ValueQueue
  /\ \A q \in ValueQueue : q.id \in Ids /\ q.param \in Params /\ q.values \in [Params -> Values]
<1>1. Config \notin Params
  BY Numbers
<1> QED  BY <1>1 DEF Queue, ValueQueue, ConfigQueue

\* What a packet carries are values of parameters.
LEMMA CarriedParts ==
  ASSUME NEW q \in Queue
  PROVE  /\ Carried(q) \subseteq Params
         /\ \A p \in Carried(q) : q \in ValueQueue /\ q.values[p] \in Values
<1>1. Frame \in [Params -> SUBSET Params]
  BY ValuesAssumption
<1>2. CASE q.param = Config
  BY <1>2 DEF Carried
<1>3. CASE q.param # Config
  <2>1. q.param \in Params /\ q \in ValueQueue /\ q.values \in [Params -> Values]
    BY <1>3, QueueParts
  <2>2. Carried(q) = Frame[q.param]
    BY <1>3 DEF Carried
  <2> QED  BY <1>1, <2>1, <2>2
<1> QED  BY <1>2, <1>3

LEMMA IdleState == Idle \in ClientStates /\ Idle.at = "Idle"
BY DEF ClientStates, Idle

LEMMA StateLabels ==
  ASSUME NEW r \in ClientStates
  PROVE  r.at \in ClientLabels
<1>1. CASE r = Idle
  BY <1>1 DEF Idle, ClientLabels
<1>2. CASE r \in Setting
  BY <1>2 DEF Setting, ClientLabels
<1>3. CASE r \in Configuring
  BY <1>3 DEF Configuring, ClientLabels
<1> QED  BY <1>1, <1>2, <1>3 DEF ClientStates

\* A thread that goes on takes its arguments along.
LEMMA GotoEffect ==
  ASSUME client \in [Clients -> ClientStates], NEW c \in Clients, NEW l, ~At(c, "Idle"),
         client' = [client EXCEPT ![c].at = l],
         \/ At(c, "Cache") /\ l = "Save"
         \/ At(c, "Save") /\ l = "Build"
         \/ At(c, "Build") /\ l = "Push"
         \/ At(c, "Push") /\ l = "Enqueue"
         \/ At(c, "Enqueue") /\ l = "Wait" /\ client[c].packet.param # Config
  PROVE  /\ client' \in [Clients -> ClientStates]
         /\ client'[c].at = l /\ client'[c].packet = client[c].packet
         /\ \A d \in Clients : d # c => client'[d] = client[d]
<1>1. client[c] \in ClientStates /\ client[c] # Idle
  BY DEF At, Idle
<1>2. client'[c] = [client[c] EXCEPT !.at = l] /\ client' = [d \in Clients |-> IF d = c THEN client'[c] ELSE client[d]]
  OBVIOUS
<1>3. client'[c] \in ClientStates /\ client'[c].at = l /\ client'[c].packet = client[c].packet
  <2>1. CASE client[c] \in Setting
    BY <2>1, <1>2 DEF ClientStates, Setting, At
  <2>2. CASE client[c] \in Configuring
    BY <2>2, <1>2 DEF ClientStates, Configuring, ConfigQueue, At
  <2> QED  BY <1>1, <2>1, <2>2 DEF ClientStates
<1> QED  BY <1>2, <1>3

\* The arguments of a thread.
LEMMA Arguments ==
  ASSUME client \in [Clients -> ClientStates], NEW c \in Clients
  PROVE  /\ client[c].at \in ClientLabels
         /\ ~At(c, "Idle") => client[c].packet \in Queue /\ client[c].packet.id \in Ids
         /\ client[c].at \in {"Cache", "Save", "Build"} =>
               /\ client[c] \in Setting /\ client[c].packet \in ValueQueue /\ client[c].packet.param \in Params
               /\ Given(c) \in Values /\ client[c].unread \subseteq Params
<1>1. client[c] \in ClientStates
  OBVIOUS
<1>2. CASE client[c] = Idle
  BY <1>2 DEF Idle, At, ClientLabels
<1>3. CASE client[c] \in Setting
  <2>1. client[c].packet \in ValueQueue /\ client[c].unread \subseteq Params /\ client[c].at \in ClientLabels
    BY <1>3 DEF Setting, ClientLabels
  <2>2. /\ client[c].packet \in Queue /\ client[c].packet.id \in Ids /\ client[c].packet.param \in Params
        /\ client[c].packet.values \in [Params -> Values]
    BY <2>1, QueueParts
  <2>3. Given(c) \in Values
    BY <2>2 DEF Given
  <2> QED  BY <1>3, <2>1, <2>2, <2>3
<1>4. CASE client[c] \in Configuring
  BY <1>4, QueueParts DEF At, ClientLabels, ConfigQueue, Configuring
<1> QED  BY <1>1, <1>2, <1>3, <1>4 DEF ClientStates

\* A place of the packet is filled.
LEMMA BuildEffect ==
  ASSUME TypeInv, NEW c \in Clients, Builds(c)
  PROVE  /\ client' \in [Clients -> ClientStates]
         /\ client[c].at = "Build" /\ client'[c].at = "Build" /\ client'[c].packet.id = client[c].packet.id
         /\ client'[c].packet.param = client[c].packet.param
         /\ \A d \in Clients : d # c => client'[d] = client[d]
<1>1. PICK p \in Params : Build(c, p)
  BY DEF Builds
<1>2. client[c] \in Setting /\ client[c].at = "Build"
  BY <1>1, Arguments DEF TypeInv, Build, At
<1>3. client[c].packet \in ValueQueue /\ client[c].unread \subseteq Params /\ cache[p] \in Values
  BY <1>2 DEF TypeInv, TypeOK, Setting
<1> DEFINE new == [client[c].packet EXCEPT !.values[p] = cache[p]]
           r == [client[c] EXCEPT !.packet = new, !.unread = @ \ {p}]
<1>4. new \in ValueQueue /\ new.id = client[c].packet.id /\ new.param = client[c].packet.param
  BY <1>3 DEF ValueQueue
<1>5. client' = [client EXCEPT ![c].packet.values[p] = cache[p], ![c].unread = @ \ {p}]
  BY <1>1 DEF Build
<1>6. client' = [client EXCEPT ![c] = r]
  BY <1>2, <1>3, <1>5 DEF Setting, ValueQueue, TypeInv
<1> HIDE DEF new
<1>7. r \in Setting /\ r.at = "Build" /\ r.packet = new
  BY <1>2, <1>3, <1>4 DEF Setting
<1>8. r \in ClientStates
  BY <1>7 DEF ClientStates
<1> HIDE DEF r
<1> QED  BY <1>2, <1>4, <1>6, <1>7, <1>8 DEF TypeInv

LEMMA CallEffect ==
  ASSUME TypeInv, NEW c \in Clients,
         \/ \E p \in Params, v \in Values : CallSetValue(c, p, v)
         \/ CallPutParamset(c)
  PROVE  /\ client' \in [Clients -> ClientStates] /\ At(c, "Idle")
         /\ calls < Calls /\ calls' = calls + 1 /\ client'[c].packet.id = calls'
         /\ client'[c].at \in {"Cache", "Push"} /\ (client'[c].at = "Push" => client'[c].packet.param = Config)
         /\ \A d \in Clients : d # c => client'[d] = client[d]
<1>1. calls \in 0..Calls /\ Calls \in Nat /\ (calls < Calls => calls + 1 \in Ids)
  BY Numbers DEF TypeInv, Ids
<1>2. ASSUME NEW p \in Params, NEW v \in Values, CallSetValue(c, p, v)
      PROVE  /\ client' \in [Clients -> ClientStates] /\ client'[c].at = "Cache" /\ client'[c].packet.id = calls + 1
             /\ \A d \in Clients : d # c => client'[d] = client[d]
  <2> DEFINE packet == [id |-> calls + 1, param |-> p, values |-> [q \in Params |-> v]]
             r == [at |-> "Cache", unread |-> Frame[p], packet |-> packet]
  <2>1. client' = [client EXCEPT ![c] = r] /\ calls < Calls
    BY <1>2 DEF CallSetValue
  <2>2. packet \in ValueQueue /\ packet.id = calls + 1
    BY <1>1, <2>1 DEF ValueQueue
  <2> HIDE DEF packet
  <2>3. r \in Setting /\ r.at = "Cache" /\ r.packet.id = calls + 1
    BY <2>2, ValuesAssumption DEF Setting
  <2>4. r \in ClientStates
    BY <2>3 DEF ClientStates
  <2> HIDE DEF r
  <2> QED  BY <2>1, <2>3, <2>4 DEF TypeInv
<1>3. ASSUME CallPutParamset(c)
      PROVE  /\ client' \in [Clients -> ClientStates] /\ client'[c].at = "Push" /\ client'[c].packet.id = calls + 1
             /\ client'[c].packet.param = Config
             /\ \A d \in Clients : d # c => client'[d] = client[d]
  <2> DEFINE packet == [id |-> calls + 1, param |-> Config]
             r == [at |-> "Push", packet |-> packet]
  <2>1. client' = [client EXCEPT ![c] = r] /\ calls < Calls
    BY <1>3 DEF CallPutParamset
  <2>2. packet \in ConfigQueue /\ packet.id = calls + 1 /\ packet.param = Config
    BY <1>1, <2>1 DEF ConfigQueue
  <2> HIDE DEF packet
  <2>3. r \in Configuring /\ r.at = "Push" /\ r.packet = packet
    BY <2>2 DEF Configuring
  <2>4. r \in ClientStates
    BY <2>3 DEF ClientStates
  <2> HIDE DEF r
  <2> QED  BY <2>1, <2>2, <2>3, <2>4 DEF TypeInv
<1>4. CASE \E p \in Params, v \in Values : CallSetValue(c, p, v)
  BY <1>2, <1>4, <1>1 DEF CallSetValue
<1>5. CASE CallPutParamset(c)
  BY <1>3, <1>5, <1>1 DEF CallPutParamset
<1> QED  BY <1>4, <1>5

\* A call that ends, or all of them.
LEMMA IdleEffect ==
  ASSUME client \in [Clients -> ClientStates], NEW c \in Clients, client' = [client EXCEPT ![c] = Idle]
  PROVE  /\ client' \in [Clients -> ClientStates] /\ client'[c].at = "Idle"
         /\ \A d \in Clients : d # c => client'[d] = client[d]
BY IdleState

\* Where a thread gets by a step and what it takes along.
LEMMA SetCacheEffect ==
  ASSUME TypeInv, NEW c \in Clients, SetCache(c)
  PROVE  /\ client' \in [Clients -> ClientStates] /\ client'[c].at = "Save" /\ client'[c].packet = client[c].packet
         /\ \A d \in Clients : d # c => client'[d] = client[d]
BY GotoEffect DEF SetCache, Goto, At, TypeInv

LEMMA SaveValueEffect ==
  ASSUME TypeInv, NEW c \in Clients, SaveValue(c)
  PROVE  /\ client' \in [Clients -> ClientStates] /\ client'[c].at = "Build" /\ client'[c].packet = client[c].packet
         /\ \A d \in Clients : d # c => client'[d] = client[d]
BY GotoEffect DEF SaveValue, Goto, At, TypeInv

LEMMA RemoveQueuedEffect ==
  ASSUME TypeInv, NEW c \in Clients, RemoveQueued(c)
  PROVE  /\ client' \in [Clients -> ClientStates] /\ client'[c].at = "Push" /\ client'[c].packet = client[c].packet
         /\ \A d \in Clients : d # c => client'[d] = client[d]
BY GotoEffect DEF RemoveQueued, Goto, At, TypeInv

LEMMA PushEffect ==
  ASSUME TypeInv, NEW c \in Clients, Push(c)
  PROVE  /\ client' \in [Clients -> ClientStates] /\ client'[c].at = "Enqueue" /\ client'[c].packet = client[c].packet
         /\ \A d \in Clients : d # c => client'[d] = client[d]
BY GotoEffect DEF Push, Goto, At, TypeInv

LEMMA EnqueueEffect ==
  ASSUME TypeInv, NEW c \in Clients, Enqueues(c)
  PROVE  /\ client' \in [Clients -> ClientStates]
         /\ \/ client'[c].at = "Wait" /\ client'[c].packet = client[c].packet
            \/ client'[c].at = "Idle"
         /\ \A d \in Clients : d # c => client'[d] = client[d]
<1>1. At(c, "Enqueue")
  BY DEF Enqueues, Enqueue
<1>2. CASE client[c].packet.param # Config /\ Goto(c, "Wait")
  BY <1>1, <1>2, GotoEffect DEF Goto, At, TypeInv
<1>3. CASE client' = [client EXCEPT ![c] = Idle]
  BY <1>3, IdleEffect DEF TypeInv
<1> QED  BY <1>2, <1>3 DEF Enqueues, Enqueue

LEMMA ReturnEffect ==
  ASSUME TypeInv, NEW c \in Clients, Return(c) \/ Unserved(c)
  PROVE  /\ client' \in [Clients -> ClientStates] /\ client'[c].at = "Idle"
         /\ \A d \in Clients : d # c => client'[d] = client[d]
BY IdleEffect DEF Return, Unserved, TypeInv

LEMMA LoadEffect ==
  ASSUME NEW list, LoadVariables(list)
  PROVE  client' \in [Clients -> ClientStates] /\ \A c \in Clients : client'[c].at = "Idle"
BY IdleState DEF LoadVariables

-----------------------------------------------------------------------------
(* Types                                                                    *)

\* The end of the process and its next start; without a kill the list stays.
Restarts == Shutdown \/ Kill \/ Die
RestartLoads == \E list \in {pending, savedPending} : LoadVariables(list)
LEMMA RestartEffect ==
  ASSUME Restarts
  PROVE  RestartLoads /\ (killed' \/ (LoadVariables(pending) /\ killed' = killed /\ Shutdown))
BY DEF Restarts, Shutdown, Kill, Die, Crash, Stop, RestartLoads

\* The steps of the listener, and those of the device and the send queue.
Listens(l) == PendingEmpty(l) \/ UseFront(l)
Hears == \/ Receive \/ Access \/ Type \/ Counter \/ (\E p \in Params : Exists(p)) \/ Write \/ SaveReported
         \/ (\E l \in BOOLEAN : Listens(l)) \/ EnqueueAwake
Elsewhere == Withdraw \/ Transmit \/ GiveUp \/ PushPending \/ \E p \in Reported, v \in Values, mine \in BOOLEAN : Report(p, v, mine)

LEMMA ClientTypes ==
  ASSUME TypeInv, [Next]_vars
  PROVE  client' \in [Clients -> ClientStates]
<1>1. ASSUME NEW c \in Clients, NEW p \in Params, NEW v \in Values, CallSetValue(c, p, v)
      PROVE  client' \in [Clients -> ClientStates]
  BY <1>1, CallEffect
<1>2. ASSUME NEW c \in Clients, CallPutParamset(c) \/ SetCache(c) \/ SaveValue(c) \/ Builds(c) \/ RemoveQueued(c) \/ Push(c)
                      \/ Enqueues(c) \/ Unserved(c) \/ Succeed(c) \/ GiveUpWaiting(c)
      PROVE  client' \in [Clients -> ClientStates]
  BY <1>2, CallEffect, SetCacheEffect, SaveValueEffect, BuildEffect, RemoveQueuedEffect, PushEffect, EnqueueEffect,
     ReturnEffect DEF Unserved, Succeed, GiveUpWaiting
<1>3. CASE Elsewhere \/ UNCHANGED vars
  BY <1>3 DEF Elsewhere, Withdraw, Transmit, GiveUp, PushPending, Report, vars, TypeInv
<1>4. CASE Hears
  BY <1>4 DEF Hears, Receive, Access, Type, TypeCheck, Counter, Exists, Write, SaveReported, Listens, PendingEmpty, UseFront,
     EnqueueAwake, TypeInv
<1>5. CASE Restarts
  BY <1>5, RestartEffect, LoadEffect DEF RestartLoads
<1> QED  BY <1>1, <1>2, <1>3, <1>4, <1>5 DEF Next, Builds, Enqueues, Elsewhere, Hears, Restarts, Listens

\* What a step of the pending queues and the send queue may leave behind.
QueueTypes ==
    /\ pending \in Seq(Queue) /\ savedPending \in Seq(Queue) /\ sending \in Queue \union {NoPacket}
    /\ attached \in BOOLEAN /\ loading \in BOOLEAN /\ queueType \in {"NONE", "DEFAULT", "PEER", "CONFIG"}
    /\ loading => attached /\ sending = NoPacket
    /\ queueType = "NONE" => ~attached /\ sending = NoPacket

LEMMA QueueTypesOf == TypeInv => QueueTypes
BY DEF TypeInv, TypeOK, QueueTypes

LEMMA PushQueueEffect ==
  ASSUME QueueTypes, PushPendingQueue
  PROVE  /\ pending = <<>> => sending' = sending /\ queueType' = queueType
         /\ pending # <<>> => /\ sending' = Head(pending) /\ sending' = pending[1] /\ sending' \in Queue
                              /\ queueType' \in {"PEER", "CONFIG"} /\ 1 \in 1..Len(pending)
<1>1. CASE pending = <<>>
  BY <1>1 DEF PushPendingQueue
<1>2. CASE pending # <<>>
  <2>1. Head(pending) = pending[1] /\ Head(pending) \in Queue /\ Len(pending) \in Nat /\ Len(pending) > 0
    BY <1>2, TailElements DEF QueueTypes
  <2> QED  BY <1>2, <2>1 DEF PushPendingQueue
<1> QED  BY <1>1, <1>2

\* enqueuePendingQueues starts a queue that does not send and then knows the list.
LEMMA EnqueuePendingEffect ==
  ASSUME QueueTypes, EnqueuePending
  PROVE  /\ pending' = pending /\ loading' = loading /\ attached' \in BOOLEAN /\ (attached => attached')
         /\ queueType' \in {"NONE", "DEFAULT", "PEER", "CONFIG"} /\ (queueType' = "NONE" => ~attached' /\ sending' = NoPacket)
         /\ \/ sending' = sending
            \/ sending = NoPacket /\ ~loading /\ pending # <<>> /\ sending' = pending[1] /\ sending' \in Queue
               /\ 1 \in 1..Len(pending)
<1>1. CASE queueType # "NONE" /\ attached /\ pending # <<>> /\ UNCHANGED send
  BY <1>1 DEF EnqueuePending, send, QueueTypes
<1>2. CASE /\ queueType = "NONE" \/ ~attached \/ pending = <<>>
           /\ attached' = TRUE /\ UNCHANGED loading
           /\ sending = NoPacket /\ pending # <<>> /\ PushPendingQueue
  BY <1>2, PushQueueEffect DEF EnqueuePending, QueueTypes
<1>3. CASE /\ attached' = TRUE /\ UNCHANGED loading /\ UNCHANGED sending
           /\ queueType' = IF queueType = "NONE" THEN "DEFAULT" ELSE queueType
  BY <1>3 DEF EnqueuePending, QueueTypes
<1> QED  BY <1>1, <1>2, <1>3 DEF EnqueuePending

\* The acknowledged packet leaves the send queue, and its queue the list.
LEMMA PoppedEffect ==
  ASSUME QueueTypes, Access, sending # NoPacket
  PROVE  /\ sending' = NoPacket /\ queueType' = queueType
         /\ attached' = (pending' # <<>>) /\ loading' = (pending' # <<>>)
         /\ pending' \in Seq(Queue)
         /\ \/ pending' = pending /\ \A i \in 1..Len(pending) : i = 1 => pending[1].id # sending.id
            \/ /\ 1 \in 1..Len(pending) /\ pending[1].id = sending.id /\ Len(pending') = Len(pending) - 1
               /\ \A i \in 1..Len(pending') : pending'[i] = pending[i + 1]
<1>1. pending' = Popped(pending, sending.id) /\ sending' = NoPacket /\ queueType' = queueType
      /\ attached' = (pending' # <<>>) /\ loading' = (pending' # <<>>)
  BY DEF Access
<1>2. CASE pending = <<>>
  BY <1>1, <1>2 DEF Popped, PopID, QueueTypes
<1>3. CASE pending # <<>>
  <2>1. /\ Tail(pending) \in Seq(Queue) /\ Len(Tail(pending)) = Len(pending) - 1 /\ Len(pending) \in Nat /\ Len(pending) > 0
        /\ Head(pending) = pending[1] /\ \A i \in 1..Len(Tail(pending)) : Tail(pending)[i] = pending[i + 1]
    BY <1>3, TailElements DEF QueueTypes
  <2>2. CASE Head(pending).id = sending.id
    <3>1. pending' = Tail(pending)
      BY <1>1, <1>3, <2>2 DEF Popped, PopID
    <3>2. /\ pending' \in Seq(Queue) /\ Len(pending') = Len(pending) - 1
          /\ \A i \in 1..Len(pending') : pending'[i] = pending[i + 1]
      BY <2>1, <3>1
    <3>3. 1 \in 1..Len(pending) /\ pending[1].id = sending.id
      BY <2>1, <2>2
    <3> QED  BY <1>1, <3>2, <3>3
  <2>3. CASE Head(pending).id # sending.id
    BY <1>1, <1>3, <2>1, <2>3 DEF Popped, PopID, QueueTypes
  <2> QED  BY <2>2, <2>3
<1> QED  BY <1>1, <1>2, <1>3

LEMMA QueueTypesStep ==
  ASSUME TypeInv, [Next]_vars
  PROVE  QueueTypes'
<1>0. QueueTypes
  BY QueueTypesOf
<1> USE DEF queuing, send, values
<1>1. ASSUME NEW c \in Clients, RemoveQueued(c)
      PROVE  QueueTypes'
  <2>1. pending' \in Seq(Queue)
    BY <1>0, <1>1, RemovedElements DEF RemoveQueued, QueueTypes
  <2> QED  BY <1>0, <1>1, <2>1 DEF RemoveQueued, QueueTypes
<1>2. ASSUME NEW c \in Clients, Push(c)
      PROVE  QueueTypes'
  <2>1. client[c].packet \in Queue
    BY <1>2, Arguments DEF Push, At, TypeInv
  <2>2. pending' \in Seq(Queue)
    BY <1>0, <1>2, <2>1, AppendElements DEF Push, QueueTypes
  <2> QED  BY <1>0, <1>2, <2>2 DEF Push, QueueTypes
<1>3. ASSUME UNCHANGED savedPending, EnqueuePending
      PROVE  QueueTypes'
  BY <1>0, <1>3, EnqueuePendingEffect DEF QueueTypes
<1>4. CASE Access
  <2>1. savedPending' = savedPending
    BY <1>4 DEF Access
  <2>2. CASE sending = NoPacket
    BY <1>0, <1>4, <2>1, <2>2 DEF Access, QueueTypes
  <2>3. CASE sending # NoPacket
    BY <1>0, <1>4, <2>1, <2>3, PoppedEffect DEF QueueTypes
  <2> QED  BY <2>2, <2>3
<1>5. CASE GiveUp
  BY <1>0, <1>5 DEF GiveUp, QueueTypes
<1>6. CASE PushPending
  BY <1>0, <1>6, PushQueueEffect DEF PushPending, QueueTypes
<1>7. CASE Restarts
  BY <1>0, <1>7, RestartEffect DEF RestartLoads, LoadVariables, QueueTypes
<1>8. ASSUME UNCHANGED <<queuing, savedPending>>
      PROVE  QueueTypes'
  BY <1>0, <1>8 DEF QueueTypes
<1>9. ASSUME NEW c \in Clients, NEW p \in Params, NEW v \in Values, CallSetValue(c, p, v)
      PROVE  UNCHANGED <<queuing, savedPending>>
  BY <1>9 DEF CallSetValue
<1>10. ASSUME NEW c \in Clients, CallPutParamset(c) \/ SetCache(c) \/ SaveValue(c) \/ Builds(c) \/ Unserved(c) \/ Succeed(c) \/ GiveUpWaiting(c)
       PROVE  UNCHANGED <<queuing, savedPending>>
  BY <1>10 DEF CallPutParamset, SetCache, SaveValue, Builds, Build, Unserved, Succeed, GiveUpWaiting, Return
<1>11. Withdraw \/ Transmit \/ UNCHANGED vars => UNCHANGED <<queuing, savedPending>>
  BY DEF Withdraw, Transmit, vars
<1>12. ASSUME NEW p \in Reported, NEW v \in Values, NEW mine \in BOOLEAN, Report(p, v, mine)
       PROVE  UNCHANGED <<queuing, savedPending>>
  BY <1>12 DEF Report
<1>13. Receive \/ Type \/ Counter \/ (\E p \in Params : Exists(p)) \/ Write \/ SaveReported
       \/ (\E l \in BOOLEAN : Listens(l)) => UNCHANGED <<queuing, savedPending>>
  BY DEF Receive, Type, TypeCheck, Counter, Exists, Write, SaveReported, Listens, PendingEmpty, UseFront
<1>14. EnqueueAwake \/ (\E c \in Clients : Enqueues(c)) =>
         UNCHANGED savedPending /\ (EnqueuePending \/ UNCHANGED queuing)
  BY DEF EnqueueAwake, Enqueues, Enqueue
<1> QED
  BY <1>1, <1>2, <1>3, <1>4, <1>5, <1>6, <1>7, <1>8, <1>9, <1>10, <1>11, <1>12, <1>13, <1>14
     DEF Next, Builds, Enqueues, Restarts, Listens

ValueTypes ==
    /\ cache \in [Params -> Values] /\ stored \in [Params -> Values] /\ device \in [Params -> Values]
    /\ newest \in [Params -> Values] /\ turned \subseteq Params
    /\ delivered \subseteq Ids /\ superseded \subseteq Ids
    /\ unreported \in BOOLEAN /\ killed \in BOOLEAN

LEMMA ValueTypesStep ==
  ASSUME TypeInv, [Next]_vars
  PROVE  ValueTypes'
<1> USE DEF values, history, outside
<1>0. ValueTypes /\ QueueTypes
  BY QueueTypesOf DEF TypeInv, TypeOK, ValueTypes
<1>1. ASSUME NEW c \in Clients, SetCache(c) \/ SaveValue(c)
      PROVE  ValueTypes'
  <2>1. client[c].packet.param \in Params /\ Given(c) \in Values
    BY <1>1, Arguments DEF SetCache, SaveValue, At, TypeInv
  <2> QED  BY <1>0, <1>1, <2>1 DEF SetCache, SaveValue, ValueTypes
<1>2. ASSUME NEW c \in Clients, Push(c)
      PROVE  ValueTypes'
  <2>1. client[c].packet \in Queue
    BY <1>2, Arguments DEF Push, At, TypeInv
  <2>2. \A p \in Carried(client[c].packet) : client[c].packet.values[p] \in Values
    BY <2>1, CarriedParts
  <2>3. newest' \in [Params -> Values]
    BY <1>0, <1>2, <2>2 DEF Push, ValueTypes
  <2> QED  BY <1>0, <1>2, <2>3 DEF Push, ValueTypes
<1>3. ASSUME NEW c \in Clients, RemoveQueued(c)
      PROVE  ValueTypes'
  <2>1. ToSet(pending) \subseteq Queue
    BY <1>0 DEF ToSet, QueueTypes
  <2>2. superseded' \subseteq Ids
    BY <1>0, <1>3, <2>1, QueueParts DEF RemoveQueued, ValueTypes
  <2> QED  BY <1>0, <1>3, <2>2 DEF RemoveQueued, ValueTypes
<1>4. CASE Transmit
  <2>1. sending \in Queue
    BY <1>0, <1>4 DEF Transmit, QueueTypes
  <2>2. \A p \in Carried(sending) : sending.values[p] \in Values
    BY <2>1, CarriedParts
  <2>3. device' \in [Params -> Values] /\ delivered' \subseteq Ids
    BY <1>0, <1>4, <2>1, <2>2, QueueParts DEF Transmit, ValueTypes
  <2> QED  BY <1>0, <1>4, <2>3 DEF Transmit, ValueTypes
<1>5. ASSUME NEW p \in Reported, NEW v \in Values, NEW mine \in BOOLEAN, Report(p, v, mine)
      PROVE  ValueTypes'
  BY <1>0, <1>5 DEF Report, ValueTypes
<1>6. CASE Write \/ SaveReported
  <2>1. message.values \in [Reported -> Values] /\ param \in Reported /\ Reported \subseteq Params
    BY <1>6, ValuesAssumption DEF Write, SaveReported, TypeInv, Message
  <2> QED  BY <1>0, <1>6, <2>1 DEF Write, SaveReported, ValueTypes
<1>7. CASE Restarts
  BY <1>0, <1>7 DEF Restarts, Shutdown, Kill, Die, Crash, Stop, LoadVariables, ValueTypes
<1>8. CASE Type \/ Counter
  BY <1>0, <1>8 DEF Type, TypeCheck, Counter, ValueTypes, Other, Repeated
<1>9. ASSUME NEW c \in Clients, NEW p \in Params, NEW v \in Values, CallSetValue(c, p, v)
      PROVE  ValueTypes'
  BY <1>0, <1>9 DEF CallSetValue, ValueTypes
<1>10. ASSUME NEW c \in Clients, CallPutParamset(c) \/ Builds(c) \/ Enqueues(c) \/ Unserved(c) \/ Succeed(c) \/ GiveUpWaiting(c)
       PROVE  ValueTypes'
  BY <1>0, <1>10 DEF CallPutParamset, Builds, Build, Enqueues, Enqueue, Unserved, Succeed, GiveUpWaiting, Return, ValueTypes
<1>11. CASE Withdraw \/ GiveUp \/ PushPending \/ UNCHANGED vars
  BY <1>0, <1>11 DEF Withdraw, GiveUp, PushPending, vars, ValueTypes
<1>12. CASE Receive \/ Access \/ (\E p \in Params : Exists(p)) \/ (\E l \in BOOLEAN : Listens(l)) \/ EnqueueAwake
  BY <1>0, <1>12 DEF Receive, Access, Exists, Listens, PendingEmpty, UseFront, EnqueueAwake, ValueTypes
<1> QED
  BY <1>1, <1>2, <1>3, <1>4, <1>5, <1>6, <1>7, <1>8, <1>9, <1>10, <1>11, <1>12 DEF Next, Builds, Enqueues, Restarts, Listens

\* The air and the listener.
HearTypes ==
    /\ listener \in ListenerLabels
    /\ message \in Message \union {NoMessage} /\ todo \subseteq Reported /\ param \in Reported \union {NoParam}
    /\ air \in Seq(Message) /\ Len(air) <= AirLimit
    /\ listener # "Idle" => message \in Message
    /\ listener \in {"Write", "Save"} => param \in Reported

LEMMA EmitEffect ==
  ASSUME HearTypes, NEW m \in Message, Emit(m)
  PROVE  /\ air' \in Seq(Message) /\ Len(air') = Len(air) + 1 /\ Len(air) \in Nat
         /\ \A i \in 1..Len(air) : air'[i] = air[i]
         /\ air'[Len(air')] = m /\ air' # <<>>
BY AppendElements DEF Emit, HearTypes

LEMMA ReceiveEffect ==
  ASSUME HearTypes, Receive
  PROVE  /\ air' \in Seq(Message) /\ Len(air') = Len(air) - 1 /\ Len(air) \in Nat /\ Len(air) > 0
         /\ \A i \in 1..Len(air') : air'[i] = air[i + 1]
         /\ \/ /\ message' = air[1] /\ message' \in Message /\ UNCHANGED <<todo, param, unreported>>
               /\ listener' = IF message'.ack THEN "Access" ELSE "Counter"
            \/ ~air[1].ack /\ unreported' = TRUE /\ UNCHANGED hearing
<1>1. /\ air' \in Seq(Message) /\ Len(air') = Len(air) - 1 /\ Len(air) \in Nat /\ Len(air) > 0
      /\ \A i \in 1..Len(air') : air'[i] = air[i + 1]
      /\ Head(air) = air[1] /\ Head(air) \in Message
  BY TailElements DEF Receive, HearTypes
<1>2. \/ /\ message' = Head(air) /\ UNCHANGED <<todo, param, unreported>>
         /\ listener' = IF message'.ack THEN "Access" ELSE "Counter"
      \/ ~Head(air).ack /\ unreported' = TRUE /\ UNCHANGED hearing
  BY DEF Receive, Hear
<1> QED  BY <1>1, <1>2

\* The device answers and reports what it has now, or that gets lost.
Answered ==
    \E m \in Message : Emit(m) /\ m.ack /\ m.counter = sending.id /\ m.values = Told(device') /\ unreported' = FALSE

LEMMA TransmitEffect ==
  ASSUME TypeInv, Transmit
  PROVE  (air' = air /\ unreported' = TRUE) \/ Answered
<1> DEFINE m == [ack |-> TRUE, counter |-> sending.id, values |-> Told(device'), mine |-> TRUE]
<1>1. sending.id \in Counters
  BY Numbers, QueueParts DEF Transmit, TypeInv, TypeOK
<1>2. device' \in [Params -> Values]
  BY ValueTypesStep DEF ValueTypes, Next
<1>3. m \in Message /\ m.ack /\ m.counter = sending.id /\ m.values = Told(device')
  <2>1. Told(device') \in [Reported -> Values]
    BY <1>2, ValuesAssumption DEF Told
  <2> QED  BY <1>1, <2>1 DEF Message
<1>4. (air' = air /\ unreported' = TRUE) \/ (Emit(m) /\ unreported' = FALSE)
  BY DEF Transmit
<1> HIDE DEF m
<1> QED  BY <1>3, <1>4 DEF Answered

Announced ==
    \E m \in Message : Emit(m) /\ ~m.ack /\ m.values = Told(device') /\ unreported' = FALSE

LEMMA ReportEffect ==
  ASSUME TypeInv, NEW p \in Reported, NEW v \in Values, NEW mine \in BOOLEAN, Report(p, v, mine)
  PROVE  (air' = air /\ unreported' = TRUE) \/ Announced
<1> DEFINE m == [ack |-> FALSE, counter |-> Counter0 + events, values |-> Told(device'), mine |-> mine]
<1>1. Counter0 + events \in Counters
  BY Numbers DEF Report, TypeInv
<1>2. device' \in [Params -> Values]
  BY ValueTypesStep DEF ValueTypes, Next
<1>3. m \in Message /\ ~m.ack /\ m.values = Told(device')
  <2>1. Told(device') \in [Reported -> Values]
    BY <1>2, ValuesAssumption DEF Told
  <2> QED  BY <1>1, <2>1 DEF Message
<1>4. (air' = air /\ unreported' = TRUE) \/ (Emit(m) /\ unreported' = FALSE)
  BY DEF Report
<1> HIDE DEF m
<1> QED  BY <1>3, <1>4 DEF Announced

LEMMA HearTypesStep ==
  ASSUME TypeInv, [Next]_vars
  PROVE  HearTypes'
<1>0. HearTypes /\ AirLimit \in Nat
  BY Numbers DEF TypeInv, TypeOK, HearTypes
<1> USE DEF hearing, outside
<1>1. CASE Transmit
  <2>1. CASE air' = air
    BY <1>0, <1>1, <2>1 DEF Transmit, HearTypes
  <2>2. ASSUME NEW m \in Message, Emit(m)
        PROVE  HearTypes'
    BY <1>0, <1>1, <2>2, EmitEffect DEF Transmit, HearTypes
  <2> QED  BY <1>1, <2>1, <2>2, TransmitEffect DEF Answered
<1>2. ASSUME NEW p \in Reported, NEW v \in Values, NEW mine \in BOOLEAN, Report(p, v, mine)
      PROVE  HearTypes'
  <2>1. CASE air' = air
    BY <1>0, <1>2, <2>1 DEF Report, HearTypes
  <2>2. ASSUME NEW m \in Message, Emit(m)
        PROVE  HearTypes'
    BY <1>0, <1>2, <2>2, EmitEffect DEF Report, HearTypes
  <2> QED  BY <1>2, <2>1, <2>2, ReportEffect DEF Announced
<1>3. CASE Receive
  <2>1. air' \in Seq(Message) /\ Len(air') <= AirLimit
    <3>1. air' \in Seq(Message) /\ Len(air') = Len(air) - 1 /\ Len(air) \in Nat /\ Len(air) <= AirLimit
      BY <1>0, <1>3, ReceiveEffect DEF HearTypes
    <3> QED  BY <1>0, <3>1
  <2>2. CASE UNCHANGED hearing
    BY <1>0, <2>1, <2>2 DEF HearTypes
  <2>3. CASE message' \in Message /\ UNCHANGED <<todo, param>> /\ listener' \in {"Access", "Counter"}
    BY <1>0, <2>1, <2>3 DEF HearTypes, ListenerLabels
  <2> QED  BY <1>0, <1>3, <2>2, <2>3, ReceiveEffect
<1>4. CASE Access \/ Type \/ Counter
  BY <1>0, <1>4 DEF Access, Type, TypeCheck, Counter, Hear, Rest, HearTypes, ListenerLabels
<1>5. CASE (\E p \in Params : Exists(p)) \/ Write \/ SaveReported
  BY <1>0, <1>5 DEF Exists, Write, SaveReported, Hear, HearTypes, ListenerLabels
<1>6. CASE (\E l \in BOOLEAN : Listens(l)) \/ EnqueueAwake
  BY <1>0, <1>6 DEF Listens, PendingEmpty, UseFront, EnqueueAwake, Hear, Rest, HearTypes, ListenerLabels
<1>7. CASE Restarts
  <2>1. Rest /\ air' = <<>>
    BY <1>7, RestartEffect DEF RestartLoads, LoadVariables
  <2> QED  BY <1>0, <2>1 DEF Rest, HearTypes, ListenerLabels
<1>8. ASSUME UNCHANGED <<hearing, air>>
      PROVE  HearTypes'
  BY <1>0, <1>8 DEF HearTypes
<1>9. ASSUME NEW c \in Clients, NEW p \in Params, NEW v \in Values, CallSetValue(c, p, v)
      PROVE  HearTypes'
  BY <1>8, <1>9 DEF CallSetValue
<1>10. ASSUME NEW c \in Clients, CallPutParamset(c) \/ SetCache(c) \/ SaveValue(c) \/ Builds(c) \/ RemoveQueued(c)
                   \/ Push(c) \/ Enqueues(c) \/ Unserved(c) \/ Succeed(c) \/ GiveUpWaiting(c)
       PROVE  HearTypes'
  BY <1>8, <1>10 DEF CallPutParamset, SetCache, SaveValue, Builds, Build, RemoveQueued, Push, Enqueues, Enqueue, Unserved, Succeed, GiveUpWaiting, Return
<1>11. CASE Withdraw \/ GiveUp \/ PushPending \/ UNCHANGED vars
  BY <1>8, <1>11 DEF Withdraw, GiveUp, PushPending, vars
<1> QED
  BY <1>1, <1>2, <1>3, <1>4, <1>5, <1>6, <1>7, <1>9, <1>10, <1>11 DEF Next, Builds, Enqueues, Restarts, Listens

LEMMA BoundsStep ==
  ASSUME TypeInv, [Next]_vars
  PROVE  calls' \in 0..Calls /\ events' \in 0..Events /\ served' \in BOOLEAN
<1> USE DEF bounds
<1>0. Calls \in Nat /\ Events \in Nat /\ calls \in 0..Calls /\ events \in 0..Events /\ served \in BOOLEAN
  BY Numbers DEF TypeInv, TypeOK
<1>1. ASSUME NEW c \in Clients, NEW p \in Params, NEW v \in Values, CallSetValue(c, p, v)
      PROVE  calls' \in 0..Calls /\ events' = events /\ served' = served
  BY <1>0, <1>1 DEF CallSetValue
<1>2. ASSUME NEW c \in Clients, CallPutParamset(c)
      PROVE  calls' \in 0..Calls /\ events' = events /\ served' = served
  BY <1>0, <1>2 DEF CallPutParamset
<1>3. ASSUME NEW p \in Reported, NEW v \in Values, NEW mine \in BOOLEAN, Report(p, v, mine)
      PROVE  calls' = calls /\ events' \in 0..Events /\ served' = served
  BY <1>0, <1>3 DEF Report
<1>4. CASE Restarts
  <2>1. calls' = calls /\ served' = TRUE /\ (events' = events \/ (events < Events /\ events' = events + 1))
    BY <1>4 DEF Restarts, Shutdown, Kill, Die, Crash, Stop, LoadVariables
  <2> QED  BY <1>0, <2>1
<1>5. ASSUME NEW c \in Clients, SetCache(c) \/ SaveValue(c) \/ Builds(c) \/ RemoveQueued(c)
                   \/ Push(c) \/ Enqueues(c) \/ Unserved(c) \/ Succeed(c) \/ GiveUpWaiting(c)
      PROVE  UNCHANGED <<bounds, served>>
  BY <1>5 DEF SetCache, SaveValue, Builds, Build, RemoveQueued, Push, Enqueues, Enqueue, Unserved, Succeed, GiveUpWaiting, Return
<1>6. Transmit \/ GiveUp \/ PushPending \/ Hears \/ UNCHANGED vars => UNCHANGED <<bounds, served>>
  BY DEF Transmit, GiveUp, PushPending, vars, Hears, Receive, Access, Type, TypeCheck, Counter, Exists, Write, SaveReported,
         Listens, PendingEmpty, UseFront, EnqueueAwake
<1>7. CASE Withdraw
  <2>1. calls' = calls /\ served' = FALSE /\ events < Events /\ events' = events + 1
    BY <1>7 DEF Withdraw
  <2>2. events + 1 \in 0..Events
    BY <1>0, <2>1
  <2>3. calls' \in 0..Calls /\ served' \in BOOLEAN
    BY <1>0, <2>1
  <2> QED  BY <2>1, <2>2, <2>3
<1> QED  BY <1>0, <1>1, <1>2, <1>3, <1>4, <1>5, <1>6, <1>7 DEF Next, Builds, Enqueues, Hears, Restarts, Listens

LEMMA TypeInvInit == Init => TypeInv
<1> SUFFICES ASSUME Init
             PROVE  TypeInv
  OBVIOUS
<1>1. <<>> \in Seq(Queue) /\ <<>> \in Seq(Message) /\ Len(<<>>) = 0 /\ AirLimit \in Nat /\ Calls \in Nat /\ Events \in Nat
  BY Numbers
<1>2. client \in [Clients -> ClientStates] /\ \A c \in Clients : client[c].at = "Idle"
  BY IdleState DEF Init
<1>3. QueueTypes
  BY <1>1 DEF Init, QueueTypes
<1>4. ValueTypes
  BY DEF Init, ValueTypes
<1>5. HearTypes
  BY <1>1, Numbers DEF Init, HearTypes, ListenerLabels
<1>6. calls \in 0..Calls /\ events \in 0..Events /\ served \in BOOLEAN
  BY <1>1 DEF Init
<1>7. \A c \in Clients : client[c].at \in ClientLabels
  BY <1>2 DEF ClientLabels
<1> QED
  BY <1>2, <1>3, <1>4, <1>5, <1>6, <1>7 DEF TypeInv, TypeOK, QueueTypes, ValueTypes, HearTypes

LEMMA TypeInvStep == TypeInv /\ [Next]_vars => TypeInv'
<1> SUFFICES ASSUME TypeInv, [Next]_vars
             PROVE  TypeInv'
  OBVIOUS
<1>1. client' \in [Clients -> ClientStates]
  BY ClientTypes
<1>2. \A c \in Clients : client'[c].at \in ClientLabels
  BY <1>1, StateLabels
<1> QED
  BY <1>1, <1>2, QueueTypesStep, ValueTypesStep, HearTypesStep, BoundsStep
     DEF TypeInv, TypeOK, QueueTypes, ValueTypes, HearTypes

\* Every variable keeps its type, for any number of threads, calls, reports and
\* restarts: in particular the thread of a send queue that looks for the next
\* pending packet is not alone with a packet that is being sent.
THEOREM TypeCorrect == Spec => []TypeOK
<1>1. TypeInv => TypeOK
  BY DEF TypeInv
<1> QED  BY <1>1, TypeInvInit, TypeInvStep, PTL DEF Spec

-----------------------------------------------------------------------------
(* Acknowledgements                                                         *)

\* A step of an RPC thread, and what those leave alone.
CallStep(c) ==
    \/ \E p \in Params, v \in Values : CallSetValue(c, p, v)
    \/ CallPutParamset(c) \/ SetCache(c) \/ SaveValue(c) \/ Builds(c) \/ RemoveQueued(c) \/ Push(c)
    \/ Enqueues(c) \/ Unserved(c) \/ Succeed(c) \/ GiveUpWaiting(c)

LEMMA CallKeeps ==
  ASSUME NEW c \in Clients, CallStep(c)
  PROVE  /\ UNCHANGED <<hearing, outside, delivered, turned, killed, lastCounter, served, unreported, savedPending,
                        events>>
         /\ UNCHANGED sending \/ Enqueues(c)
BY DEF CallStep, CallSetValue, CallPutParamset, SetCache, SaveValue, Builds, Build, RemoveQueued, Push, Enqueues, Enqueue, Unserved, Succeed,
       GiveUpWaiting, Return, hearing, outside, history, queuing, send, bounds

\* What a step of the listener leaves alone, but for Receive and Access.
HearsOn == \/ Type \/ Counter \/ (\E p \in Params : Exists(p)) \/ Write \/ SaveReported
           \/ (\E l \in BOOLEAN : Listens(l)) \/ EnqueueAwake

LEMMA HearsOnKeeps ==
  ASSUME HearsOn
  PROVE  /\ UNCHANGED <<outside, history, client, bounds, savedPending, pending, served>>
         /\ UNCHANGED sending \/ EnqueueAwake
         /\ listener # "Access" /\ listener' # "Access"
BY DEF HearsOn, Type, TypeCheck, Counter, Exists, Write, SaveReported, Listens, PendingEmpty, UseFront, EnqueueAwake,
       EnqueuePending, Hear, Rest, queuing, send

LEMMA AcksKept ==
  ASSUME Acks, UNCHANGED <<air, delivered, device, turned>>,
         sending' = sending \/ sending = NoPacket,
         UNCHANGED <<listener, message>> \/ (listener # "Access" /\ listener' # "Access")
  PROVE  Acks'
BY DEF Acks, AnswerComing

LEMMA AcksGone == ASSUME ~AnswerComing' PROVE Acks'
BY DEF Acks, AnswerComing

LEMMA AcksTransmit ==
  ASSUME TypeInv, Acks, Transmit
  PROVE  Acks'
<1>0. HearTypes /\ ValueTypes /\ QueueTypes
  BY QueueTypesOf DEF TypeInv, TypeOK, HearTypes, ValueTypes
<1>1. ~AnswerComing
  BY DEF Transmit, AnswerDue, Acks, AnswerComing
<1>2. /\ sending' = sending /\ listener' = listener /\ message' = message /\ turned' = turned
      /\ delivered' = delivered \union {sending.id} /\ sending # NoPacket
  BY DEF Transmit, queuing, send, hearing
<1>3. CASE air' = air
  <2>1. ~AnswerComing'
    BY <1>1, <1>2, <1>3 DEF AnswerComing
  <2> QED  BY <2>1, AcksGone
<1>4. ASSUME NEW m \in Message, Emit(m), m.ack, m.counter = sending.id
      PROVE  Acks'
  <2>1. /\ Len(air') = Len(air) + 1 /\ Len(air) \in Nat
        /\ \A i \in 1..Len(air) : air'[i] = air[i]
        /\ air'[Len(air')] = m
    BY <1>0, <1>4, EmitEffect
  <2>2. \A i \in 1..Len(air') : air'[i].ack => i = Len(air')
    BY <1>1, <2>1 DEF AnswerComing
  <2>3. listener # "Access"
    BY <1>1 DEF AnswerComing
  <2>4. \A p \in Carried(sending) : device'[p] = sending.values[p]
    <3>1. Carried(sending) \subseteq Params
      BY <1>0, CarriedParts DEF Transmit, QueueTypes
    <3> QED  BY <3>1 DEF Transmit
  <2> QED  BY <1>2, <1>4, <2>1, <2>2, <2>3, <2>4 DEF Acks, AnswerComing
<1> QED  BY <1>3, <1>4, TransmitEffect DEF Answered

LEMMA AcksReport ==
  ASSUME TypeInv, Acks, NEW p \in Reported, NEW v \in Values, NEW mine \in BOOLEAN, Report(p, v, mine)
  PROVE  Acks'
<1>0. HearTypes /\ ValueTypes
  BY DEF TypeInv, TypeOK, HearTypes, ValueTypes
<1>1. /\ sending' = sending /\ listener' = listener /\ message' = message /\ delivered' = delivered
      /\ \A r \in Params \ turned' : r \notin turned /\ device'[r] = device[r]
  BY <1>0 DEF Report, queuing, send, hearing, ValueTypes
<1>5. sending # NoPacket => Carried(sending) \subseteq Params
  BY QueueTypesOf, CarriedParts DEF QueueTypes
<1>6. AnswerComing => sending # NoPacket
  BY DEF Acks, AnswerComing
<1>2. CASE air' = air
  BY <1>1, <1>2, <1>5, <1>6 DEF Acks, AnswerComing
<1>3. ASSUME NEW m \in Message, Emit(m), ~m.ack
      PROVE  Acks'
  <2>1. /\ Len(air') = Len(air) + 1 /\ Len(air) \in Nat
        /\ \A i \in 1..Len(air) : air'[i] = air[i]
        /\ air'[Len(air')] = m
    BY <1>0, <1>3, EmitEffect
  <2>2. \A i \in 1..Len(air') : air'[i].ack => i \in 1..Len(air) /\ air'[i] = air[i]
    BY <1>3, <2>1
  <2>3. AnswerComing' => AnswerComing
    BY <1>1, <2>2 DEF AnswerComing
  <2> QED  BY <1>1, <1>5, <1>6, <2>2, <2>3 DEF Acks
<1> QED  BY <1>2, <1>3, ReportEffect DEF Announced

LEMMA AcksReceive ==
  ASSUME TypeInv, Acks, Receive
  PROVE  Acks'
<1>0. HearTypes
  BY DEF TypeInv, TypeOK, HearTypes
<1>1. /\ Len(air') = Len(air) - 1 /\ Len(air) \in Nat /\ Len(air) > 0
      /\ \A i \in 1..Len(air') : air'[i] = air[i + 1]
  BY <1>0, ReceiveEffect
<1>2. UNCHANGED <<sending, delivered, device, turned>> /\ listener = "Idle" /\ (air[1].ack => message' = air[1])
      /\ listener' \in {"Access", "Counter", "Idle"} /\ (listener' = "Access" <=> air[1].ack)
  <2>1. UNCHANGED <<sending, delivered, device, turned>> /\ listener = "Idle"
    BY DEF Receive, queuing, send, history
  <2> QED  BY <1>0, <2>1, ReceiveEffect DEF hearing
<1>3. CASE air[1].ack
  <2>1. \A i \in 1..Len(air') : ~air'[i].ack
    BY <1>1, <1>3 DEF Acks
  <2>2. AnswerComing /\ air[1].counter = sending.id /\ sending # NoPacket
    BY <1>1, <1>3 DEF Acks, AnswerComing
  <2> QED  BY <1>1, <1>2, <1>3, <2>1, <2>2 DEF Acks
<1>4. CASE ~air[1].ack
  <2>1. \A i \in 1..Len(air') : i + 1 \in 1..Len(air)
    BY <1>1
  <2>2. AnswerComing' => AnswerComing
    BY <1>1, <1>2, <1>4, <2>1 DEF AnswerComing
  <2>3. \A i \in 1..Len(air') : air'[i].ack => /\ sending # NoPacket /\ air'[i].counter = sending.id
                                              /\ \A j \in 1..Len(air') : air'[j].ack => j = i
    <3>1. ASSUME NEW i \in 1..Len(air'), air'[i].ack
          PROVE  /\ sending # NoPacket /\ air'[i].counter = sending.id
                 /\ \A j \in 1..Len(air') : air'[j].ack => j = i
      <4>1. i + 1 \in 1..Len(air) /\ air[i + 1].ack
        BY <1>1, <2>1, <3>1
      <4>2. ASSUME NEW j \in 1..Len(air'), air'[j].ack
            PROVE  j = i
        <5>1. j + 1 \in 1..Len(air) /\ air[j + 1].ack
          BY <1>1, <2>1, <4>2
        <5>2. j + 1 = i + 1
          BY <4>1, <5>1 DEF Acks
        <5> QED  BY <1>1, <5>2
      <4> QED  BY <1>1, <4>1, <4>2 DEF Acks
    <3> QED  BY <3>1
  <2> QED  BY <1>1, <1>2, <1>4, <2>2, <2>3 DEF Acks
<1> QED  BY <1>3, <1>4

LEMMA AcksStep ==
  ASSUME TypeInv, Acks, [Next]_vars
  PROVE  Acks'
<1>0. QueueTypes
  BY QueueTypesOf
<1>1. ASSUME NEW c \in Clients, CallStep(c)
      PROVE  Acks'
  <2>1. sending' = sending \/ sending = NoPacket
    BY <1>0, <1>1, CallKeeps, EnqueuePendingEffect DEF Enqueues, Enqueue
  <2> QED  BY <1>1, <2>1, CallKeeps, AcksKept DEF hearing, outside
<1>2. CASE HearsOn
  <2>1. sending' = sending \/ sending = NoPacket
    BY <1>0, <1>2, HearsOnKeeps, EnqueuePendingEffect DEF EnqueueAwake, queuing, send
  <2> QED  BY <1>2, <2>1, HearsOnKeeps, AcksKept DEF outside, history
<1>3. CASE Access
  <2>1. ~AnswerComing'
    BY <1>3 DEF Access, Acks, AnswerComing, Hear, outside
  <2> QED  BY <2>1, AcksGone
<1>4. CASE GiveUp
  <2>1. ~AnswerComing'
    BY <1>4 DEF GiveUp, AnswerDue, Acks, AnswerComing, hearing, outside
  <2> QED  BY <2>1, AcksGone
<1>5. CASE PushPending
  <2>1. sending = NoPacket
    BY <1>0, <1>5 DEF PushPending, QueueTypes
  <2> QED  BY <1>5, <2>1, AcksKept DEF PushPending, hearing, outside, history
<1>6. CASE Restarts
  <2>1. listener' = "Idle" /\ air' = <<>>
    BY <1>6, RestartEffect DEF RestartLoads, LoadVariables, Rest
  <2>2. ~AnswerComing'
    BY <2>1 DEF AnswerComing
  <2> QED  BY <2>2, AcksGone
<1>7. CASE Withdraw \/ UNCHANGED vars
  BY <1>7, AcksKept DEF Withdraw, vars, hearing, outside, history, queuing, send
<1> QED
  BY <1>1, <1>2, <1>3, <1>4, <1>5, <1>6, <1>7, AcksTransmit, AcksReport, AcksReceive
     DEF Next, Builds, Enqueues, CallStep, Restarts, HearsOn, Listens

-----------------------------------------------------------------------------
(* A call that succeeds                                                     *)

LEMMA AccountedKept ==
  ASSUME Accounted, pending' = pending, delivered \subseteq delivered', superseded' = superseded,
         \A c \in Clients : client'[c].at \in {"Enqueue", "Wait"} =>
             client[c].at \in {"Enqueue", "Wait"} /\ client'[c].packet = client[c].packet
  PROVE  Accounted'
BY DEF Accounted

LEMMA AccountedRemove ==
  ASSUME TypeInv, Accounted, NEW c \in Clients, RemoveQueued(c)
  PROVE  Accounted'
<1> DEFINE p == client[c].packet.param
<1>1. /\ client'[c].at = "Push" /\ \A d \in Clients : d # c => client'[d] = client[d]
  BY RemoveQueuedEffect
<1>2. /\ pending' \in Removed(p) /\ delivered' = delivered
      /\ superseded' = superseded \union {q.id : q \in {r \in ToSet(pending) : r.param = p}}
  BY DEF RemoveQueued
<1>3. pending \in Seq(Queue)
  BY QueueTypesOf DEF QueueTypes
<1>4. \A i \in 1..Len(pending) : pending[i].param # p => \E k \in 1..Len(pending') : pending'[k] = pending[i]
  <2>1. ASSUME NEW list \in Removed(p)
        PROVE  \A i \in 1..Len(pending) : pending[i].param # p => \E k \in 1..Len(list) : list[k] = pending[i]
    BY <1>3, RemovedElements
  <2> QED  BY <1>2, <2>1
<1>5. \A i \in 1..Len(pending) : pending[i].param = p => pending[i].id \in superseded'
  <2>1. \A i \in 1..Len(pending) : pending[i] \in ToSet(pending)
    BY <1>3 DEF ToSet
  <2> QED  BY <1>2, <2>1
<1>6. superseded \subseteq superseded'
  BY <1>2
<1> HIDE DEF p
<1> QED  BY <1>1, <1>2, <1>4, <1>5, <1>6 DEF Accounted

LEMMA AccountedStep ==
  ASSUME TypeInv, Acks, Accounted, [Next]_vars
  PROVE  Accounted'
<1>0. QueueTypes
  BY QueueTypesOf
<1> USE DEF queuing, history
<1>1. ASSUME NEW c \in Clients, NEW p \in Params, NEW v \in Values, CallSetValue(c, p, v)
      PROVE  Accounted'
  <2>1. client'[c].at \in {"Cache", "Push"} /\ \A d \in Clients : d # c => client'[d] = client[d]
    BY <1>1, CallEffect
  <2> QED  BY <1>1, <2>1, AccountedKept DEF CallSetValue
<1>2. ASSUME NEW c \in Clients, CallPutParamset(c)
      PROVE  Accounted'
  <2>1. client'[c].at \in {"Cache", "Push"} /\ \A d \in Clients : d # c => client'[d] = client[d]
    BY <1>2, CallEffect
  <2> QED  BY <1>2, <2>1, AccountedKept DEF CallPutParamset
<1>3. ASSUME NEW c \in Clients, SetCache(c) \/ SaveValue(c) \/ Builds(c) \/ Unserved(c) \/ Succeed(c) \/ GiveUpWaiting(c)
      PROVE  Accounted'
  <2>1. client'[c].at \in {"Save", "Build", "Idle"} /\ \A d \in Clients : d # c => client'[d] = client[d]
    BY <1>3, SetCacheEffect, SaveValueEffect, BuildEffect, ReturnEffect DEF Unserved, Succeed, GiveUpWaiting
  <2>2. UNCHANGED <<pending, delivered, superseded>>
    BY <1>3 DEF SetCache, SaveValue, Builds, Build, Unserved, Succeed, GiveUpWaiting, Return
  <2> QED  BY <2>1, <2>2, AccountedKept
<1>4. ASSUME NEW c \in Clients, Enqueues(c)
      PROVE  Accounted'
  <2>1. /\ \/ client'[c].at = "Wait" /\ client'[c].packet = client[c].packet
           \/ client'[c].at = "Idle"
        /\ \A d \in Clients : d # c => client'[d] = client[d]
    BY <1>4, EnqueueEffect
  <2>2. pending' = pending /\ UNCHANGED <<delivered, superseded>> /\ client[c].at = "Enqueue"
    BY <1>4 DEF Enqueues, Enqueue, EnqueuePending, At
  <2> QED  BY <2>1, <2>2, AccountedKept
<1>5. ASSUME NEW c \in Clients, Push(c)
      PROVE  Accounted'
  <2>1. /\ client'[c].at = "Enqueue" /\ client'[c].packet = client[c].packet
        /\ \A d \in Clients : d # c => client'[d] = client[d]
    BY <1>5, PushEffect
  <2>2. client[c].packet \in Queue
    BY <1>5, Arguments DEF Push, At, TypeInv
  <2>3. /\ Len(pending') = Len(pending) + 1 /\ Len(pending) \in Nat
        /\ \A i \in 1..Len(pending) : pending'[i] = pending[i]
        /\ pending'[Len(pending) + 1] = client[c].packet
    BY <1>0, <1>5, <2>2, AppendElements DEF Push, QueueTypes
  <2>4. \A i \in 1..Len(pending) : i \in 1..Len(pending')
    BY <2>3
  <2>5. Len(pending) + 1 \in 1..Len(pending') /\ UNCHANGED <<delivered, superseded>>
    BY <1>5, <2>3 DEF Push
  <2> QED  BY <2>1, <2>3, <2>4, <2>5 DEF Accounted
<1>6. CASE Access
  <2>1. UNCHANGED <<client, delivered, superseded>>
    BY <1>6 DEF Access
  <2>2. CASE sending = NoPacket
    BY <1>6, <2>1, <2>2, AccountedKept DEF Access
  <2>3. CASE sending # NoPacket
    <3>1. sending.id \in delivered
      BY <1>6 DEF Access, Acks, AnswerComing
    <3>2. \/ pending' = pending
          \/ /\ pending[1].id = sending.id /\ Len(pending') = Len(pending) - 1 /\ Len(pending) \in Nat
             /\ \A i \in 1..Len(pending') : pending'[i] = pending[i + 1]
      BY <1>0, <1>6, <2>3, PoppedEffect DEF QueueTypes
    <3>3. ASSUME NEW i \in 1..Len(pending), pending[i].id \notin delivered
          PROVE  \E k \in 1..Len(pending') : pending'[k] = pending[i]
      <4>1. CASE pending' = pending
        BY <4>1
      <4>2. CASE pending' # pending
        <5>1. i # 1
          BY <3>1, <3>2, <3>3, <4>2
        <5>2. i - 1 \in 1..Len(pending') /\ pending'[i - 1] = pending[i]
          BY <3>2, <4>2, <5>1
        <5> QED  BY <5>2
      <4> QED  BY <4>1, <4>2
    <3> QED  BY <2>1, <3>3 DEF Accounted
  <2> QED  BY <2>2, <2>3
<1>7. CASE HearsOn
  BY <1>7, HearsOnKeeps, AccountedKept
<1>8. CASE Restarts
  BY <1>8, RestartEffect, LoadEffect DEF RestartLoads, Accounted
<1>9. CASE Elsewhere \/ Receive \/ UNCHANGED vars
  BY <1>9, AccountedKept DEF Elsewhere, Withdraw, Transmit, GiveUp, PushPending, Report, Receive, vars
<1> QED
  BY <1>1, <1>2, <1>3, <1>4, <1>5, <1>6, <1>7, <1>8, <1>9, AccountedRemove
     DEF Next, Builds, Enqueues, Restarts, HearsOn, Listens, Elsewhere

LEMMA AccountedInit == Init => Acks /\ Accounted
BY IdleState DEF Init, Acks, AnswerComing, Accounted, Idle

\* setValue with wait reports success only after the device has got the packet,
\* or another call has replaced it, although it only sees that nothing is pending
\* any more: with any number of threads, losses, restarts and kills.  The one
\* success that means nothing is that of a call that finds the peer deleted, or no
\* queue made for it, when it comes to hand its packet over.
THEOREM SuccessIsEarned == Spec => SuccessMeansDelivered
<1>1. TypeInv /\ Acks /\ Accounted /\ [Next]_vars => TypeInv' /\ Acks' /\ Accounted'
  BY TypeInvStep, AcksStep, AccountedStep
<1>2. TypeInv /\ Accounted =>
        [\A c \in Clients : Succeed(c) \/ Unserved(c) =>
            \/ client[c].packet.id \in delivered \union superseded
            \/ At(c, "Enqueue") /\ ~served]_vars
  <2> SUFFICES ASSUME Accounted, NEW c \in Clients, Succeed(c) \/ Unserved(c)
               PROVE  \/ client[c].packet.id \in delivered \union superseded
                      \/ At(c, "Enqueue") /\ ~served
    OBVIOUS
  <2>1. CASE Succeed(c)
    BY <2>1 DEF Accounted, Succeed, Return, At
  <2>2. CASE Unserved(c)
    BY <2>2 DEF Unserved
  <2> QED  BY <2>1, <2>2
<1> QED  BY <1>1, <1>2, TypeInvInit, AccountedInit, PTL DEF Spec, SuccessMeansDelivered

-----------------------------------------------------------------------------
(* Ids                                                                      *)

LEMMA PendingIds ==
  ASSUME TypeInv
  PROVE  /\ \A i \in 1..Len(pending) : pending[i] \in Queue /\ pending[i].id \in Ids
         /\ sending # NoPacket => sending \in Queue /\ sending.id \in Ids
         /\ sending.id \in Nat /\ NoPacket.id = 0 /\ Len(pending) \in Nat /\ calls \in Nat
         /\ \A c \in Clients : Underway(c) => client[c].packet.id \in Ids
<1>1. pending \in Seq(Queue) /\ sending \in Queue \union {NoPacket}
  BY QueueTypesOf DEF QueueTypes
<1>2. \A c \in Clients : Underway(c) => client[c].packet.id \in Ids
  BY Arguments DEF Underway, At, TypeInv
<1>3. NoPacket.id = 0
  BY DEF NoPacket
<1>4. calls \in Nat
  BY Numbers DEF TypeInv
<1>5. Len(pending) \in Nat /\ \A i \in 1..Len(pending) : pending[i] \in Queue
  BY <1>1
<1>6. \A i \in 1..Len(pending) : pending[i].id \in Ids
  BY <1>5, QueueParts
<1>7. /\ sending # NoPacket => sending \in Queue /\ sending.id \in Ids
      /\ sending.id \in Nat
  <2>1. CASE sending = NoPacket
    BY <1>3, <2>1
  <2>2. CASE sending \in Queue
    <3>1. sending.id \in Ids
      BY <2>2, QueueParts
    <3> QED  BY <2>2, <3>1, Numbers
  <2> QED  BY <1>1, <2>1, <2>2
<1> QED  BY <1>2, <1>3, <1>4, <1>5, <1>6, <1>7

\* Queues may leave the list, and one of them may be sent next.
LEMMA FreshKept ==
  ASSUME TypeInv, Fresh, ~killed, NEW at,
         \A k \in 1..Len(pending') : at[k] \in 1..Len(pending) /\ pending'[k] = pending[at[k]],
         \A j, k \in 1..Len(pending') : at[j] = at[k] => j = k,
         sending' = sending \/ sending' = NoPacket \/ (\E i \in 1..Len(pending) : sending' = pending[i]),
         \A c \in Clients : Underway(c)' => Underway(c) /\ client'[c].packet.id = client[c].packet.id,
         calls' = calls
  PROVE  Fresh'
<1>0. \A i, j \in 1..Len(pending) : pending[i].id = pending[j].id => i = j
  BY DEF Fresh
<1>1. ASSUME NEW j \in 1..Len(pending'), NEW k \in 1..Len(pending'), pending'[j].id = pending'[k].id
      PROVE  j = k
  <2>1. at[j] \in 1..Len(pending) /\ at[k] \in 1..Len(pending) /\ pending[at[j]].id = pending[at[k]].id
    BY <1>1
  <2>2. at[j] = at[k]
    BY <1>0, <2>1
  <2> QED  BY <2>2
<1>2. sending'.id <= calls /\ \A k \in 1..Len(pending') : pending'[k].id <= calls
  BY PendingIds DEF Fresh
<1>3. \A k \in 1..Len(pending') : pending'[k].id = sending'.id => pending'[k] = sending'
  <2>1. CASE sending' = sending
    BY <2>1 DEF Fresh
  <2>2. CASE sending' = NoPacket
    BY <2>2, PendingIds, Numbers
  <2>3. CASE \E i \in 1..Len(pending) : sending' = pending[i]
    BY <2>3 DEF Fresh
  <2> QED  BY <2>1, <2>2, <2>3
<1>4. ASSUME NEW c \in Clients, Underway(c)'
      PROVE  /\ client'[c].packet.id <= calls /\ client'[c].packet.id # sending'.id
             /\ \A k \in 1..Len(pending') : pending'[k].id # client'[c].packet.id
             /\ \A d \in Clients : Underway(d)' /\ client'[d].packet.id = client'[c].packet.id => d = c
  <2>1. Underway(c) /\ client'[c].packet.id = client[c].packet.id /\ client[c].packet.id \in Ids
    BY <1>4, PendingIds
  <2>2. client'[c].packet.id # sending'.id
    <3>1. CASE sending' = sending
      BY <2>1, <3>1 DEF Fresh
    <3>2. CASE sending' = NoPacket
      BY <2>1, <3>2, PendingIds, Numbers
    <3>3. CASE \E i \in 1..Len(pending) : sending' = pending[i]
      BY <2>1, <3>3 DEF Fresh
    <3> QED  BY <3>1, <3>2, <3>3
  <2>3. \A k \in 1..Len(pending') : pending'[k].id # client'[c].packet.id
    BY <2>1 DEF Fresh
  <2>4. \A d \in Clients : Underway(d)' => Underway(d) /\ client'[d].packet.id = client[d].packet.id
    OBVIOUS
  <2>5. \A d \in Clients : Underway(d)' /\ client'[d].packet.id = client'[c].packet.id => d = c
    BY <2>1, <2>4 DEF Fresh
  <2> QED  BY <2>1, <2>2, <2>3, <2>5 DEF Fresh
<1> QED  BY <1>1, <1>2, <1>3, <1>4 DEF Fresh, Underway

LEMMA FreshSame ==
  ASSUME TypeInv, Fresh, killed' = killed, pending' = pending,
         sending' = sending \/ sending' = NoPacket \/ (\E i \in 1..Len(pending) : sending' = pending[i]),
         \A c \in Clients : Underway(c)' => Underway(c) /\ client'[c].packet.id = client[c].packet.id,
         calls' = calls
  PROVE  Fresh'
<1>1. CASE killed
  BY <1>1 DEF Fresh
<1>2. CASE ~killed
  <2> DEFINE at == [k \in 1..Len(pending) |-> k]
  <2>1. \A k \in 1..Len(pending') : at[k] \in 1..Len(pending) /\ pending'[k] = pending[at[k]]
    OBVIOUS
  <2>2. \A j, k \in 1..Len(pending') : at[j] = at[k] => j = k
    OBVIOUS
  <2>3. \E f : f = at
    OBVIOUS
  <2> HIDE DEF at
  <2> QED  BY <1>2, <2>1, <2>2, <2>3, FreshKept
<1> QED  BY <1>1, <1>2

LEMMA FreshCall ==
  ASSUME TypeInv, Fresh, NEW c \in Clients, UNCHANGED <<pending, sending, killed>>,
         \/ \E p \in Params, v \in Values : CallSetValue(c, p, v)
         \/ CallPutParamset(c)
  PROVE  Fresh'
<1>1. /\ calls' = calls + 1 /\ client'[c].packet.id = calls + 1 /\ calls \in Nat
      /\ \A d \in Clients : d # c => client'[d] = client[d]
  BY CallEffect, PendingIds
<1>2. CASE ~killed
  <2>1. /\ \A i \in 1..Len(pending) : pending[i].id <= calls /\ pending[i].id \in Nat
        /\ sending.id <= calls /\ sending.id \in Nat
        /\ \A d \in Clients : Underway(d) => client[d].packet.id <= calls /\ client[d].packet.id \in Nat
    BY <1>2, PendingIds, Numbers DEF Fresh
  <2>2. \A d \in Clients : d # c => (Underway(d)' <=> Underway(d))
    BY <1>1 DEF Underway
  <2>3. \A d \in Clients : Underway(d)' =>
            \/ d = c
            \/ /\ Underway(d) /\ client'[d] = client[d] /\ client[d].packet.id <= calls
               /\ client[d].packet.id # sending.id
    BY <1>1, <1>2, <2>2 DEF Fresh
  <2>4. ASSUME NEW d \in Clients, Underway(d)'
        PROVE  /\ client'[d].packet.id <= calls' /\ client'[d].packet.id # sending'.id
               /\ \A i \in 1..Len(pending') : pending'[i].id # client'[d].packet.id
               /\ \A e \in Clients : Underway(e)' /\ client'[e].packet.id = client'[d].packet.id => e = d
    <3>1. CASE d = c
      BY <1>1, <2>1, <2>3, <3>1
    <3>2. CASE d # c
      <4>1. Underway(d) /\ client'[d] = client[d] /\ client[d].packet.id <= calls /\ client[d].packet.id \in Nat
        BY <2>1, <2>3, <2>4, <3>2
      <4>2. /\ client[d].packet.id # sending.id
            /\ \A i \in 1..Len(pending) : pending[i].id # client[d].packet.id
            /\ \A e \in Clients : Underway(e) /\ client[e].packet.id = client[d].packet.id => e = d
        BY <1>2, <4>1 DEF Fresh
      <4>3. ASSUME NEW e \in Clients, Underway(e)', client'[e].packet.id = client'[d].packet.id
            PROVE  e = d
        <5>1. e # c
          BY <1>1, <4>1, <4>3
        <5> QED  BY <2>3, <4>1, <4>2, <4>3, <5>1
      <4> QED  BY <1>1, <4>1, <4>2, <4>3
    <3> QED  BY <3>1, <3>2
  <2>5. /\ \A i, j \in 1..Len(pending') : pending'[i].id = pending'[j].id => i = j
        /\ \A i \in 1..Len(pending') : /\ pending'[i].id <= calls'
                                       /\ pending'[i].id = sending'.id => pending'[i] = sending'
        /\ sending'.id <= calls'
    BY <1>1, <1>2, <2>1 DEF Fresh
  <2> QED  BY <2>4, <2>5 DEF Fresh, Underway
<1> QED  BY <1>2 DEF Fresh

LEMMA FreshPush ==
  ASSUME TypeInv, Fresh, NEW c \in Clients, Push(c)
  PROVE  Fresh'
<1>1. /\ client'[c].at = "Enqueue" /\ \A d \in Clients : d # c => client'[d] = client[d]
      /\ UNCHANGED <<sending, killed, calls>> /\ Underway(c)
  BY PushEffect DEF Push, send, bounds, At, Underway
<1>2. client[c].packet \in Queue /\ pending \in Seq(Queue)
  BY Arguments, QueueTypesOf DEF Push, At, TypeInv, QueueTypes
<1>3. /\ Len(pending') = Len(pending) + 1 /\ Len(pending) \in Nat
      /\ \A i \in 1..Len(pending) : pending'[i] = pending[i]
      /\ pending'[Len(pending) + 1] = client[c].packet
  BY <1>2, AppendElements DEF Push
<1>4. \A i \in 1..Len(pending') : i \in 1..Len(pending) \/ i = Len(pending) + 1
  BY <1>3
<1>5. ~Underway(c)' /\ \A d \in Clients : d # c => (Underway(d)' <=> Underway(d))
  BY <1>1 DEF Underway
<1>6. CASE ~killed
  <2>1. /\ \A i, j \in 1..Len(pending') : pending'[i].id = pending'[j].id => i = j
        /\ \A i \in 1..Len(pending') : pending'[i].id <= calls /\ (pending'[i].id = sending.id => pending'[i] = sending)
    <3>1. /\ \A i, j \in 1..Len(pending) : pending[i].id = pending[j].id => i = j
          /\ \A i \in 1..Len(pending) : /\ pending[i].id <= calls /\ pending[i].id # client[c].packet.id
                                        /\ pending[i].id = sending.id => pending[i] = sending
          /\ client[c].packet.id <= calls /\ client[c].packet.id # sending.id
      BY <1>1, <1>6 DEF Fresh
    <3>2. ASSUME NEW i \in 1..Len(pending'), NEW j \in 1..Len(pending'), pending'[i].id = pending'[j].id
          PROVE  i = j
      BY <1>3, <1>4, <3>1, <3>2
    <3>3. ASSUME NEW i \in 1..Len(pending')
          PROVE  pending'[i].id <= calls /\ (pending'[i].id = sending.id => pending'[i] = sending)
      BY <1>3, <1>4, <3>1
    <3> QED  BY <3>2, <3>3
  <2>2. ASSUME NEW d \in Clients, Underway(d)'
        PROVE  /\ client'[d].packet.id <= calls /\ client'[d].packet.id # sending.id
               /\ \A i \in 1..Len(pending') : pending'[i].id # client'[d].packet.id
               /\ \A e \in Clients : Underway(e)' /\ client'[e].packet.id = client'[d].packet.id => e = d
    <3>1. d # c /\ client'[d] = client[d] /\ Underway(d) /\ client[d].packet.id # client[c].packet.id
      BY <1>1, <1>5, <1>6, <2>2 DEF Fresh
    <3>2. \A e \in Clients : Underway(e)' => client'[e] = client[e] /\ Underway(e)
      BY <1>1, <1>5
    <3> QED  BY <1>3, <1>4, <1>6, <3>1, <3>2 DEF Fresh
  <2> QED  BY <1>1, <2>1, <2>2 DEF Fresh
<1> QED  BY <1>1, <1>6 DEF Fresh

LEMMA FreshRemove ==
  ASSUME TypeInv, Fresh, NEW c \in Clients, RemoveQueued(c)
  PROVE  Fresh'
<1> DEFINE p == client[c].packet.param
<1>1. /\ \A d \in Clients : Underway(d)' => Underway(d) /\ client'[d].packet.id = client[d].packet.id
      /\ UNCHANGED <<sending, killed, calls>> /\ pending' \in Removed(p)
  BY RemoveQueuedEffect DEF RemoveQueued, send, bounds, At, Underway
<1>2. pending \in Seq(Queue)
  BY QueueTypesOf DEF QueueTypes
<1>3. \A list \in Removed(p) : /\ Len(list) \in Nat
                               /\ \E at : /\ \A k \in 1..Len(list) : at[k] \in 1..Len(pending) /\ list[k] = pending[at[k]]
                                          /\ \A j, k \in 1..Len(list) : at[j] = at[k] => j = k
  <2>1. ASSUME NEW list \in Removed(p)
        PROVE  /\ Len(list) \in Nat
               /\ \E at : /\ \A k \in 1..Len(list) : at[k] \in 1..Len(pending) /\ list[k] = pending[at[k]]
                          /\ \A j, k \in 1..Len(list) : at[j] = at[k] => j = k
    <3>1. PICK at : /\ \A k \in 1..Len(list) : at[k] \in 1..Len(pending) /\ list[k] = pending[at[k]]
                    /\ \A j, k \in 1..Len(list) : j < k => at[j] < at[k]
                    /\ \A i \in 1..Len(pending) : pending[i].param # p => \E k \in 1..Len(list) : at[k] = i
      <4> HIDE DEF p
      <4> QED  BY <1>2, RemovedElements
    <3>2. list \in Seq(Queue)
      BY <1>2, RemovedElements
    <3>3. Len(list) \in Nat /\ \A j, k \in 1..Len(list) : at[j] = at[k] => j = k
      BY <3>1, <3>2
    <3> QED  BY <3>1, <3>3
  <2> QED  BY <2>1
<1>4. PICK at : /\ \A k \in 1..Len(pending') : at[k] \in 1..Len(pending) /\ pending'[k] = pending[at[k]]
                /\ \A j, k \in 1..Len(pending') : at[j] = at[k] => j = k
  BY <1>1, <1>3
<1> HIDE DEF p
<1>5. CASE ~killed
  BY <1>1, <1>4, <1>5, FreshKept
<1> QED  BY <1>1, <1>5 DEF Fresh

LEMMA FreshStep ==
  ASSUME TypeInv, Fresh, [Next]_vars
  PROVE  Fresh'
<1>0. QueueTypes
  BY QueueTypesOf
<1> USE DEF queuing, history, send, bounds
<1>1. ASSUME NEW c \in Clients, NEW p \in Params, NEW v \in Values, CallSetValue(c, p, v)
      PROVE  Fresh'
  BY <1>1, FreshCall DEF CallSetValue
<1>2. ASSUME NEW c \in Clients, CallPutParamset(c)
      PROVE  Fresh'
  BY <1>2, FreshCall DEF CallPutParamset
<1>3. ASSUME NEW c \in Clients, SetCache(c) \/ SaveValue(c) \/ Builds(c) \/ Unserved(c) \/ Succeed(c) \/ GiveUpWaiting(c)
      PROVE  Fresh'
  <2>1. \A d \in Clients : Underway(d)' => Underway(d) /\ client'[d].packet.id = client[d].packet.id
    BY <1>3, SetCacheEffect, SaveValueEffect, BuildEffect, ReturnEffect
       DEF SetCache, SaveValue, Builds, Build, Unserved, Succeed, GiveUpWaiting, Underway, At
  <2>2. UNCHANGED <<pending, sending, killed, calls>>
    BY <1>3 DEF SetCache, SaveValue, Builds, Build, Unserved, Succeed, GiveUpWaiting, Return
  <2> QED  BY <2>1, <2>2, FreshSame
<1>4. ASSUME NEW c \in Clients, Enqueues(c)
      PROVE  Fresh'
  <2>1. \A d \in Clients : Underway(d)' => Underway(d) /\ client'[d].packet.id = client[d].packet.id
    BY <1>4, EnqueueEffect DEF Underway
  <2>2. UNCHANGED <<killed, calls>> /\ EnqueuePending
    BY <1>4 DEF Enqueues, Enqueue
  <2> QED  BY <1>0, <2>1, <2>2, EnqueuePendingEffect, FreshSame
<1>5. CASE HearsOn
  <2>1. \A d \in Clients : Underway(d)' => Underway(d) /\ client'[d].packet.id = client[d].packet.id
    BY <1>5, HearsOnKeeps DEF Underway
  <2>2. UNCHANGED <<killed, calls, pending>> /\ (UNCHANGED sending \/ EnqueuePending)
    BY <1>5, HearsOnKeeps DEF EnqueueAwake
  <2> QED  BY <1>0, <2>1, <2>2, EnqueuePendingEffect, FreshSame
<1>6. CASE Access
  <2>1. /\ \A d \in Clients : Underway(d)' => Underway(d) /\ client'[d].packet.id = client[d].packet.id
        /\ UNCHANGED <<killed, calls>>
    BY <1>6 DEF Access, Underway
  <2>2. CASE pending' = pending
    BY <1>6, <2>1, <2>2, FreshSame DEF Access
  <2>3. CASE pending' # pending
    <3>1. /\ sending' = NoPacket /\ Len(pending') = Len(pending) - 1 /\ Len(pending) \in Nat
          /\ \A i \in 1..Len(pending') : pending'[i] = pending[i + 1]
      BY <1>0, <1>6, <2>3, PoppedEffect, PendingIds DEF Access
    <3> DEFINE at == [k \in 1..(Len(pending) - 1) |-> k + 1]
    <3>2. /\ \A k \in 1..Len(pending') : at[k] \in 1..Len(pending) /\ pending'[k] = pending[at[k]]
          /\ \A j, k \in 1..Len(pending') : at[j] = at[k] => j = k
      BY <3>1
    <3> HIDE DEF at
    <3>3. CASE ~killed
      BY <2>1, <3>1, <3>2, <3>3, FreshKept
    <3> QED  BY <2>1, <3>3 DEF Fresh
  <2> QED  BY <2>2, <2>3
<1>7. CASE PushPending
  <2>1. UNCHANGED <<client, killed, calls, pending>>
    BY <1>7 DEF PushPending
  <2> QED  BY <1>0, <1>7, <2>1, PushQueueEffect, FreshSame DEF PushPending, Underway
<1>8. CASE Withdraw \/ Transmit \/ GiveUp \/ Receive \/ UNCHANGED vars
  BY <1>8, FreshSame DEF Withdraw, Transmit, GiveUp, Receive, vars, Underway
<1>9. ASSUME NEW p \in Reported, NEW v \in Values, NEW mine \in BOOLEAN, Report(p, v, mine)
      PROVE  Fresh'
  BY <1>9, FreshSame DEF Report, Underway
<1>10. CASE Restarts
  <2>1. CASE killed'
    BY <2>1 DEF Fresh
  <2>2. CASE ~killed'
    <3>1. LoadVariables(pending) /\ killed' = killed
      BY <1>10, <2>2, RestartEffect
    <3>2. \A c \in Clients : ~Underway(c)'
      BY <3>1, LoadEffect DEF Underway
    <3> QED  BY <3>1, <3>2, FreshSame DEF LoadVariables
  <2> QED  BY <2>1, <2>2
<1> QED
  BY <1>1, <1>2, <1>3, <1>4, <1>5, <1>6, <1>7, <1>8, <1>9, <1>10, FreshPush, FreshRemove
     DEF Next, Builds, Enqueues, CallStep, Restarts, HearsOn, Listens

-----------------------------------------------------------------------------
(* The value queued last                                                    *)

\* Whoever does not queue a packet and leaves the list alone changes nothing,
\* even if the first one pending is sent next.
LEMMA FollowingKept ==
  ASSUME NEW p \in Params, Following(p), UNCHANGED <<pending, newest>>, device'[p] = device[p],
         \A c \in Clients : At(c, "Push") => client'[c] = client[c],
         sending' = sending \/ sending' = NoPacket \/ (\E i \in 1..Len(pending) : sending' = pending[i])
  PROVE  Following(p)'
<1>1. CASE Replacing(p)
  BY <1>1 DEF Following, Replacing, At
<1>2. CASE LastPending(p)
  BY <1>2 DEF Following, LastPending
<1>3. CASE AtDevice(p)
  BY <1>3 DEF Following, AtDevice
<1> QED  BY <1>1, <1>2, <1>3 DEF Following

LEMMA FollowingRemove ==
  ASSUME TypeInv, NEW p \in Params, Following(p), NEW c \in Clients, RemoveQueued(c)
  PROVE  Following(p)'
<1> DEFINE r == client[c].packet.param
<1>1. /\ client'[c].at = "Push" /\ client'[c].packet = client[c].packet
      /\ \A d \in Clients : d # c => client'[d] = client[d]
      /\ client[c].at = "Build"
      /\ UNCHANGED <<sending, newest, device>> /\ pending' \in Removed(r)
  BY RemoveQueuedEffect DEF RemoveQueued, send, outside, At
<1>2. pending \in Seq(Queue)
  BY QueueTypesOf DEF QueueTypes
<1>3. CASE p \in Carried(client[c].packet)
  BY <1>1, <1>3 DEF Following, Replacing, At
<1>4. CASE p \notin Carried(client[c].packet)
  <2>0. \A i \in 1..Len(pending) : p \in Carried(pending[i]) => pending[i].param # r
    BY <1>4 DEF Carried
  <2> HIDE DEF r
  <2>1. \A list \in Removed(r) : \E at :
            /\ \A k \in 1..Len(list) : at[k] \in 1..Len(pending) /\ list[k] = pending[at[k]]
            /\ \A j, k \in 1..Len(list) : j < k => at[j] < at[k]
            /\ \A i \in 1..Len(pending) : pending[i].param # r => \E k \in 1..Len(list) : at[k] = i
    BY <1>2, RemovedElements
  <2>2. PICK at :
            /\ \A k \in 1..Len(pending') : at[k] \in 1..Len(pending) /\ pending'[k] = pending[at[k]]
            /\ \A j, k \in 1..Len(pending') : j < k => at[j] < at[k]
            /\ \A i \in 1..Len(pending) : pending[i].param # r => \E k \in 1..Len(pending') : at[k] = i
    BY <1>1, <2>1
  <2>3. CASE Replacing(p)
    BY <1>1, <2>3 DEF Following, Replacing, At
  <2>4. CASE LastPending(p)
    <3>1. PICK i \in 1..Len(pending) : /\ p \in Carried(pending[i]) /\ pending[i].values[p] = newest[p]
                                       /\ \A j \in 1..Len(pending) : j > i => p \notin Carried(pending[j])
      BY <2>4 DEF LastPending
    <3>2. PICK k \in 1..Len(pending') : at[k] = i
      BY <2>0, <2>2, <3>1
    <3>3. \A j \in 1..Len(pending') : j > k => p \notin Carried(pending'[j])
      <4>1. pending' \in Seq(Queue)
        BY <1>1, <1>2, RemovedElements
      <4>2. ASSUME NEW j \in 1..Len(pending'), j > k
            PROVE  p \notin Carried(pending'[j])
        <5>1. k < j /\ at[k] < at[j]
          BY <2>2, <4>1, <4>2
        <5>2. at[j] \in 1..Len(pending) /\ at[j] > i /\ pending'[j] = pending[at[j]]
          BY <1>2, <2>2, <3>2, <5>1
        <5> QED  BY <3>1, <5>2
      <4> QED  BY <4>2
    <3> QED  BY <1>1, <2>2, <3>1, <3>2, <3>3 DEF Following, LastPending
  <2>5. CASE AtDevice(p)
    BY <1>1, <2>2, <2>5 DEF Following, AtDevice
  <2> QED  BY <2>3, <2>4, <2>5 DEF Following
<1> QED  BY <1>3, <1>4

LEMMA FollowingPush ==
  ASSUME TypeInv, NEW p \in Params, Following(p), NEW c \in Clients, Push(c)
  PROVE  Following(p)'
<1> DEFINE q == client[c].packet
<1>1. /\ client'[c].at = "Enqueue" /\ \A d \in Clients : d # c => client'[d] = client[d]
      /\ UNCHANGED <<sending, device>>
      /\ newest'[p] = IF p \in Carried(q) THEN q.values[p] ELSE newest[p]
  BY PushEffect DEF Push, send, outside
<1>2. q \in Queue /\ pending \in Seq(Queue) 
  BY Arguments, QueueTypesOf DEF Push, At, TypeInv, QueueTypes
<1>3. /\ Len(pending') = Len(pending) + 1 /\ Len(pending) \in Nat
      /\ \A i \in 1..Len(pending) : pending'[i] = pending[i]
      /\ pending'[Len(pending) + 1] = q
  BY <1>2, AppendElements DEF Push
<1>4. \A i \in 1..Len(pending') : i \in 1..Len(pending) \/ i = Len(pending) + 1
  BY <1>3
<1> HIDE DEF q
<1>5. CASE p \in Carried(q)
  <2>1. newest'[p] = q.values[p]
    BY <1>1, <1>5
  <2>2. Len(pending) + 1 \in 1..Len(pending') /\ \A j \in 1..Len(pending') : ~(j > Len(pending) + 1)
    BY <1>3
  <2> QED  BY <1>3, <1>5, <2>1, <2>2 DEF Following, LastPending
<1>6. CASE p \notin Carried(q)
  <2>1. newest'[p] = newest[p]
    BY <1>1, <1>6
  <2>2. CASE Replacing(p)
    <3>1. PICK d \in Clients : At(d, "Push") /\ p \in Carried(client[d].packet)
      BY <2>2 DEF Replacing
    <3>2. d # c
      BY <1>6, <3>1 DEF q
    <3> QED  BY <1>1, <3>1, <3>2 DEF Following, Replacing, At
  <2>3. CASE LastPending(p)
    <3>1. PICK i \in 1..Len(pending) : /\ p \in Carried(pending[i]) /\ pending[i].values[p] = newest[p]
                                       /\ \A j \in 1..Len(pending) : j > i => p \notin Carried(pending[j])
      BY <2>3 DEF LastPending
    <3>2. i \in 1..Len(pending') /\ \A j \in 1..Len(pending') : j > i => p \notin Carried(pending'[j])
      BY <1>3, <1>4, <1>6, <3>1
    <3> QED  BY <1>3, <2>1, <3>1, <3>2 DEF Following, LastPending
  <2>4. CASE AtDevice(p)
    <3>1. \A k \in 1..Len(pending') : p \notin Carried(pending'[k])
      BY <1>3, <1>4, <1>6, <2>4 DEF AtDevice
    <3> QED  BY <1>1, <2>1, <2>4, <3>1 DEF Following, AtDevice
  <2> QED  BY <2>2, <2>3, <2>4 DEF Following
<1> QED  BY <1>5, <1>6

\* What leaves the list has been delivered.
LEMMA FollowingAccess ==
  ASSUME TypeInv, Acks, Fresh, ~killed, NEW p \in Params \ turned, Following(p), Access
  PROVE  Following(p)'
<1>1. /\ UNCHANGED <<client, newest, device>>
  BY DEF Access, outside, history
<1>2. QueueTypes
  BY QueueTypesOf
<1>3. sending # NoPacket /\ (p \in Carried(sending) => device[p] = sending.values[p])
  BY DEF Access, Acks, AnswerComing
<1>4. CASE pending' = pending
  <2>1. sending' = NoPacket
    BY <1>2, <1>3, PoppedEffect
  <2> QED  BY <1>1, <1>4, <2>1, FollowingKept
<1>5. CASE pending' # pending
  <2>1. /\ sending' = NoPacket /\ 1 \in 1..Len(pending) /\ pending[1].id = sending.id
        /\ Len(pending') = Len(pending) - 1 /\ Len(pending) \in Nat
        /\ \A i \in 1..Len(pending') : pending'[i] = pending[i + 1]
    BY <1>2, <1>3, <1>5, PoppedEffect, PendingIds
  <2>2. pending[1] = sending
    BY <2>1 DEF Fresh
  <2>3. CASE Replacing(p)
    BY <1>1, <2>3 DEF Following, Replacing, At
  <2>4. CASE LastPending(p)
    <3>1. PICK i \in 1..Len(pending) : /\ p \in Carried(pending[i]) /\ pending[i].values[p] = newest[p]
                                       /\ \A j \in 1..Len(pending) : j > i => p \notin Carried(pending[j])
      BY <2>4 DEF LastPending
    <3>2. CASE i = 1
      <4>1. device[p] = newest[p]
        BY <1>3, <2>2, <3>1, <3>2
      <4>2. \A k \in 1..Len(pending') : p \notin Carried(pending'[k])
        <5>1. \A k \in 1..Len(pending') : k + 1 \in 1..Len(pending) /\ k + 1 > 1
          BY <2>1
        <5> QED  BY <2>1, <3>1, <3>2, <5>1
      <4> QED  BY <1>1, <2>1, <4>1, <4>2 DEF Following, AtDevice
    <3>3. CASE i # 1
      <4>1. i - 1 \in 1..Len(pending') /\ pending'[i - 1] = pending[i]
        BY <2>1, <3>1, <3>3
      <4>2. \A k \in 1..Len(pending') : k > i - 1 => k + 1 \in 1..Len(pending) /\ k + 1 > i
        BY <2>1
      <4>3. \A k \in 1..Len(pending') : k > i - 1 => p \notin Carried(pending'[k])
        BY <2>1, <3>1, <4>2
      <4> QED  BY <1>1, <3>1, <4>1, <4>3 DEF Following, LastPending
    <3> QED  BY <3>2, <3>3
  <2>5. CASE AtDevice(p)
    <3>1. \A k \in 1..Len(pending') : k + 1 \in 1..Len(pending)
      BY <2>1
    <3>2. \A k \in 1..Len(pending') : p \notin Carried(pending'[k])
      BY <2>1, <2>5, <3>1 DEF AtDevice
    <3> QED  BY <1>1, <2>1, <2>5, <3>2 DEF Following, AtDevice
  <2> QED  BY <2>3, <2>4, <2>5 DEF Following
<1> QED  BY <1>4, <1>5

LEMMA FollowingTransmit ==
  ASSUME TypeInv, NEW p \in Params, Following(p), Transmit
  PROVE  Following(p)'
<1>1. /\ UNCHANGED <<client, newest, pending, sending>> /\ sending # NoPacket
      /\ device'[p] = IF p \in Carried(sending) THEN sending.values[p] ELSE device[p]
  BY DEF Transmit, queuing, send
<1>2. CASE Replacing(p)
  BY <1>1, <1>2 DEF Following, Replacing, At
<1>3. CASE LastPending(p)
  BY <1>1, <1>3 DEF Following, LastPending
<1>4. CASE AtDevice(p)
  <2>1. device'[p] = newest[p]
    BY <1>1, <1>4 DEF AtDevice
  <2> QED  BY <1>1, <1>4, <2>1 DEF Following, AtDevice
<1> QED  BY <1>2, <1>3, <1>4 DEF Following

LEMMA NewestStep ==
  ASSUME TypeInv, Acks, Fresh, Newest, [Next]_vars
  PROVE  Newest'
<1> SUFFICES ASSUME ~killed', NEW p \in Params \ turned'
             PROVE  Following(p)'
  BY DEF Newest
<1>0. QueueTypes
  BY QueueTypesOf
<1> USE DEF queuing, history, send, outside
<1>1. ASSUME NEW c \in Clients, CallStep(c)
      PROVE  Following(p)'
  <2>1. UNCHANGED <<killed, turned, device>> /\ Following(p)
    BY <1>1, CallKeeps DEF Newest
  <2>2. CASE RemoveQueued(c) \/ Push(c)
    BY <2>1, <2>2, FollowingRemove, FollowingPush
  <2>3. CASE \/ \E r \in Params, v \in Values : CallSetValue(c, r, v)
             \/ CallPutParamset(c)
    <3>1. At(c, "Idle") /\ \A d \in Clients : d # c => client'[d] = client[d]
      BY <2>3, CallEffect
    <3>2. UNCHANGED <<pending, newest, sending>>
      BY <2>3 DEF CallSetValue, CallPutParamset
    <3> QED  BY <2>1, <3>1, <3>2, FollowingKept DEF At
  <2>4. CASE SetCache(c) \/ SaveValue(c) \/ Builds(c) \/ Unserved(c) \/ Succeed(c) \/ GiveUpWaiting(c)
    <3>1. ~At(c, "Push") /\ \A d \in Clients : d # c => client'[d] = client[d]
      BY <2>4, SetCacheEffect, SaveValueEffect, BuildEffect, ReturnEffect
         DEF SetCache, SaveValue, Builds, Build, Unserved, Succeed, GiveUpWaiting, Return, At
    <3>2. UNCHANGED <<pending, newest, sending>>
      BY <2>4 DEF SetCache, SaveValue, Builds, Build, Unserved, Succeed, GiveUpWaiting, Return
    <3> QED  BY <2>1, <3>1, <3>2, FollowingKept DEF At
  <2>5. CASE Enqueues(c)
    <3>1. ~At(c, "Push") /\ \A d \in Clients : d # c => client'[d] = client[d]
      BY <2>5, EnqueueEffect DEF Enqueues, Enqueue, At
    <3>2. UNCHANGED newest /\ EnqueuePending
      BY <2>5 DEF Enqueues, Enqueue
    <3> QED  BY <1>0, <2>1, <3>1, <3>2, EnqueuePendingEffect, FollowingKept DEF At
  <2> QED  BY <1>1, <2>2, <2>3, <2>4, <2>5 DEF Builds, Enqueues, CallStep
<1>2. CASE HearsOn
  <2>1. UNCHANGED <<client, newest, device, pending>> /\ Following(p) /\ (UNCHANGED sending \/ EnqueuePending)
    BY <1>2, HearsOnKeeps DEF Newest, EnqueueAwake
  <2> QED  BY <1>0, <2>1, EnqueuePendingEffect, FollowingKept
<1>3. CASE Access
  <2>1. ~killed /\ p \in Params \ turned /\ Following(p)
    BY <1>3 DEF Access, Newest
  <2> QED  BY <1>3, <2>1, FollowingAccess
<1>4. CASE Transmit
  <2>1. Following(p)
    BY <1>4 DEF Transmit, Newest
  <2> QED  BY <1>4, <2>1, FollowingTransmit
<1>5. CASE Withdraw \/ GiveUp \/ Receive \/ UNCHANGED vars
  <2>1. UNCHANGED <<client, newest, device, pending>> /\ Following(p) /\ (UNCHANGED sending \/ sending' = NoPacket)
    BY <1>5 DEF Withdraw, GiveUp, Receive, vars, Newest
  <2> QED  BY <2>1, FollowingKept
<1>6. CASE PushPending
  <2>1. UNCHANGED <<client, newest, device, pending>> /\ Following(p) /\ PushPendingQueue
    BY <1>6 DEF PushPending, Newest
  <2> QED  BY <1>0, <2>1, PushQueueEffect, FollowingKept
<1>7. ASSUME NEW r \in Reported, NEW v \in Values, NEW mine \in BOOLEAN, Report(r, v, mine)
      PROVE  Following(p)'
  <2>1. UNCHANGED <<client, newest, pending, sending>> /\ p \notin turned /\ ~killed /\ device'[p] = device[p]
    BY <1>7 DEF Report, TypeInv, TypeOK
  <2> QED  BY <2>1, FollowingKept DEF Newest
<1>8. CASE Restarts
  <2>1. LoadVariables(pending) /\ ~killed /\ \A c \in Clients : ~At(c, "Push")
    <3>1. LoadVariables(pending) /\ killed' = killed /\ Shutdown
      BY <1>8, RestartEffect
    <3> QED  BY <3>1 DEF Shutdown, Stop, Busy, At
  <2>2. UNCHANGED <<newest, device, pending>> /\ sending' = NoPacket /\ Following(p)
    BY <2>1 DEF LoadVariables, Newest
  <2> QED  BY <2>1, <2>2, FollowingKept
<1> QED
  BY <1>1, <1>2, <1>3, <1>4, <1>5, <1>6, <1>7, <1>8 DEF Next, Builds, Enqueues, CallStep, Restarts, HearsOn, Listens

LEMMA NewestInit == Init => Fresh /\ Newest
<1> SUFFICES ASSUME Init
             PROVE  Fresh /\ Newest
  OBVIOUS
<1>1. Len(pending) = 0 /\ pending = <<>> /\ sending = NoPacket /\ NoPacket.id = 0 /\ calls = 0 /\ newest = device
  BY DEF Init, NoPacket
<1>2. \A c \in Clients : ~Underway(c)
  BY DEF Init, Underway, Idle
<1> QED  BY <1>1, <1>2 DEF Fresh, Newest, Following, AtDevice

\* Of several queued packets that carry a parameter the device ends up with what
\* the one queued last carries, whichever threads build, queue, replace and send
\* them, across losses, queues that are given up and regular restarts, for any
\* number of each and whatever parameters share a frame.  (What the packet queued
\* last carries may be older than the value set last: see LastPacketWins.)
THEOREM LastPacketDelivered == Spec => []LastPacketWins
<1>1. TypeInv /\ Acks /\ Fresh /\ Newest /\ [Next]_vars => TypeInv' /\ Acks' /\ Fresh' /\ Newest'
  BY TypeInvStep, AcksStep, FreshStep, NewestStep
<1>2. TypeInv /\ Newest => LastPacketWins
  <2> SUFFICES ASSUME Newest, Quiet, ~killed, NEW p \in Params \ turned
               PROVE  device[p] = newest[p]
    BY DEF LastPacketWins
  <2>1. ~Replacing(p) /\ ~LastPending(p)
    BY DEF Quiet, Busy, Replacing, At, LastPending
  <2> QED  BY <2>1 DEF Newest, Following, AtDevice
<1> QED  BY <1>1, <1>2, TypeInvInit, AccountedInit, NewestInit, PTL DEF Spec

-----------------------------------------------------------------------------
(* The cache and the device                                                 *)

LEMMA LastToldKept ==
  ASSUME LastTold, UNCHANGED <<air, device>>, unreported => unreported', killed => killed',
         listener' # "Idle" => listener # "Idle" /\ message' = message
  PROVE  LastTold'
BY DEF LastTold

LEMMA LastToldStep ==
  ASSUME TypeInv, LastTold, [Next]_vars
  PROVE  LastTold'
<1>0. HearTypes /\ unreported \in BOOLEAN
  BY DEF TypeInv, TypeOK, HearTypes
<1> USE DEF outside, history, hearing
<1>1. ASSUME NEW c \in Clients, CallStep(c)
      PROVE  LastTold'
  BY <1>1, CallKeeps, LastToldKept
<1>2. ASSUME NEW m \in Message, Emit(m), m.values = Told(device'), UNCHANGED listener
      PROVE  LastTold'
  BY <1>0, <1>2, EmitEffect DEF LastTold
<1>3. ASSUME unreported' = TRUE
      PROVE  LastTold'
  BY <1>3 DEF LastTold
<1>4. CASE Transmit
  <2>1. UNCHANGED listener
    BY <1>4 DEF Transmit
  <2> QED  BY <1>2, <1>3, <1>4, <2>1, TransmitEffect DEF Answered
<1>5. ASSUME NEW r \in Reported, NEW v \in Values, NEW mine \in BOOLEAN, Report(r, v, mine)
      PROVE  LastTold'
  <2>1. UNCHANGED listener
    BY <1>5 DEF Report
  <2> QED  BY <1>2, <1>3, <1>5, <2>1, ReportEffect DEF Announced
<1>6. CASE Receive /\ ~unreported'
  <2>1. /\ Len(air') = Len(air) - 1 /\ Len(air) \in Nat /\ Len(air) > 0 /\ air' \in Seq(Message)
        /\ \A i \in 1..Len(air') : air'[i] = air[i + 1]
        /\ message' = air[1] /\ UNCHANGED unreported
    BY <1>0, <1>6, ReceiveEffect
  <2>2. UNCHANGED <<device, killed>> /\ air # <<>>
    BY <1>6 DEF Receive
  <2>3. air' # <<>> => air'[Len(air')] = air[Len(air)]
    BY <2>1
  <2>4. air' = <<>> => message' = air[Len(air)]
    <3>1. Len(<<>>) = 0
      OBVIOUS
    <3>2. ASSUME air' = <<>>
          PROVE  Len(air) = 1
      <4>1. Len(air') = 0
        BY <3>1, <3>2
      <4> QED  BY <2>1, <4>1
    <3> QED  BY <2>1, <3>2
  <2>5. ~unreported /\ (air' # <<>> \/ air' = <<>>)
    BY <1>6, <2>1
  <2>6. ~killed' => air[Len(air)].values = Told(device)
    BY <2>2, <2>5 DEF LastTold
  <2> QED  BY <2>2, <2>3, <2>4, <2>6 DEF LastTold
<1>7. CASE Access \/ Type \/ Counter
  <2>1. /\ UNCHANGED <<air, device, killed>> /\ listener # "Idle" /\ (unreported => unreported')
        /\ listener' # "Idle" => message' = message
    BY <1>0, <1>7 DEF Access, Type, TypeCheck, Counter, Hear, Rest
  <2> QED  BY <2>1, LastToldKept
<1>8. CASE \/ (\E p \in Params : Exists(p)) \/ Write \/ SaveReported \/ (\E l \in BOOLEAN : Listens(l)) \/ EnqueueAwake
  <2>1. /\ UNCHANGED <<air, device, killed, unreported>> /\ listener # "Idle"
        /\ listener' # "Idle" => message' = message
    BY <1>8 DEF Exists, Write, SaveReported, Listens, PendingEmpty, UseFront, EnqueueAwake, Hear, Rest
  <2> QED  BY <2>1, LastToldKept
<1>9. CASE Restarts
  <2>1. air' = <<>> /\ listener' = "Idle"
    BY <1>9, RestartEffect DEF RestartLoads, LoadVariables, Rest
  <2> QED  BY <2>1 DEF LastTold
<1>10. CASE Withdraw \/ GiveUp \/ PushPending \/ UNCHANGED vars
  BY <1>10, LastToldKept DEF Withdraw, GiveUp, PushPending, vars
<1> QED
  BY <1>0, <1>1, <1>3, <1>4, <1>5, <1>6, <1>7, <1>8, <1>9, <1>10 DEF Next, Builds, Enqueues, CallStep, Restarts, Listens

\* One parameter in step with the device.
Level(p) == cache[p] = device[p] /\ stored[p] = device[p]
InStep(p) ==
    /\ Ahead(p) \/ Handling(p) \/ Level(p)
    /\ listener = "Save" /\ p = param => Ahead(p) \/ cache[p] = device[p]

LEMMA SyncedIs == Synced <=> (~unreported /\ ~killed => \A p \in Reported : InStep(p))
BY DEF Synced, InStep, Level

\* A call goes on: what it has begun for a parameter stays ahead of the cache.
LEMMA AheadKept ==
  ASSUME TypeInv, NEW p \in Params, Ahead(p), NEW c \in Clients, CallStep(c)
  PROVE  Ahead(p)'
<1>0. air' = air
  BY CallKeeps DEF outside
<1> SUFFICES ASSUME Preparing(p) \/ Queued(p)
             PROVE  Ahead(p)'
  BY <1>0 DEF Ahead
<1>1. ASSUME pending' = pending, \A d \in Clients : d # c => client'[d] = client[d],
             Underway(c) => Underway(c)' /\ client'[c].packet.param = client[c].packet.param
      PROVE  Ahead(p)'
  BY <1>1 DEF Ahead, Preparing, Queued, Underway
<1>2. CASE \/ \E r \in Params, v \in Values : CallSetValue(c, r, v)
           \/ CallPutParamset(c)
  <2>1. At(c, "Idle") /\ \A d \in Clients : d # c => client'[d] = client[d]
    BY <1>2, CallEffect
  <2>2. pending' = pending
    BY <1>2 DEF CallSetValue, CallPutParamset, queuing
  <2> QED  BY <1>1, <2>1, <2>2 DEF At, Underway
<1>3. CASE SetCache(c) \/ SaveValue(c) \/ Builds(c)
  BY <1>1, <1>3, SetCacheEffect, SaveValueEffect, BuildEffect DEF SetCache, SaveValue, Builds, Build, queuing, Underway
<1>4. CASE Enqueues(c) \/ Unserved(c) \/ Succeed(c) \/ GiveUpWaiting(c)
  <2>1. ~Underway(c) /\ \A d \in Clients : d # c => client'[d] = client[d]
    BY <1>4, EnqueueEffect, ReturnEffect DEF Enqueues, Enqueue, Unserved, Succeed, GiveUpWaiting, Return, At, Underway
  <2>2. pending' = pending
    BY <1>4 DEF Enqueues, Enqueue, EnqueuePending, Unserved, Succeed, GiveUpWaiting, Return, queuing
  <2> QED  BY <1>1, <2>1, <2>2
<1>5. CASE RemoveQueued(c)
  <2> DEFINE r == client[c].packet.param
  <2>1. /\ Underway(c) /\ Underway(c)' /\ client'[c].packet = client[c].packet
        /\ \A d \in Clients : d # c => client'[d] = client[d]
        /\ pending' \in Removed(r)
    BY <1>5, RemoveQueuedEffect DEF RemoveQueued, At, Underway
  <2>2. CASE Preparing(p)
    BY <2>1, <2>2 DEF Ahead, Preparing, Underway
  <2>3. CASE Queued(p) /\ p # r
    <3> HIDE DEF r
    <3>1. pending \in Seq(Queue)
      BY QueueTypesOf DEF QueueTypes
    <3>2. \A list \in Removed(r) :
              \A i \in 1..Len(pending) : pending[i].param # r => \E k \in 1..Len(list) : list[k] = pending[i]
      BY <3>1, RemovedElements
    <3>3. Queued(p)'
      BY <2>1, <2>3, <3>2 DEF Queued
    <3> QED  BY <3>3 DEF Ahead
  <2>4. CASE p = r
    BY <2>1, <2>4 DEF Ahead, Preparing
  <2> QED  BY <2>2, <2>3, <2>4
<1>6. CASE Push(c)
  <2> DEFINE q == client[c].packet
  <2>1. /\ \A d \in Clients : d # c => client'[d] = client[d]
        /\ q \in Queue /\ pending \in Seq(Queue) /\ pending' = Append(pending, q)
    BY <1>6, PushEffect, Arguments, QueueTypesOf DEF Push, At, TypeInv, QueueTypes
  <2>2. /\ Len(pending') = Len(pending) + 1 /\ Len(pending) \in Nat
        /\ \A i \in 1..Len(pending) : pending'[i] = pending[i]
        /\ pending'[Len(pending) + 1] = q
    BY <2>1, AppendElements
  <2>3. CASE Queued(p) \/ q.param = p
    <3>1. Queued(p)'
      BY <2>2, <2>3 DEF Queued
    <3> QED  BY <3>1 DEF Ahead
  <2>4. CASE Preparing(p) /\ q.param # p
    BY <2>1, <2>4 DEF Ahead, Preparing, Underway
  <2> QED  BY <2>3, <2>4
<1> QED  BY <1>2, <1>3, <1>4, <1>5, <1>6 DEF Builds, Enqueues, CallStep

\* Whoever writes the cache or the database has a packet under way.
LEMMA CallLevels ==
  ASSUME TypeInv, NEW p \in Params, NEW c \in Clients, CallStep(c)
  PROVE  Ahead(p)' \/ (cache'[p] = cache[p] /\ stored'[p] = stored[p])
<1>1. CASE SetCache(c) \/ SaveValue(c)
  <2>1. /\ client'[c].packet = client[c].packet /\ Underway(c)'
        /\ cache \in [Params -> Values] /\ stored \in [Params -> Values]
    BY <1>1, SetCacheEffect, SaveValueEffect DEF Underway, TypeInv, TypeOK
  <2>2. CASE client[c].packet.param = p
    BY <2>1, <2>2 DEF Ahead, Preparing
  <2>3. CASE client[c].packet.param # p
    BY <1>1, <2>1, <2>3 DEF SetCache, SaveValue
  <2> QED  BY <2>2, <2>3
<1>2. CASE ~(SetCache(c) \/ SaveValue(c))
  BY <1>2 DEF Builds, Enqueues, CallStep, CallSetValue, CallPutParamset, Builds, Build, RemoveQueued, Push, Enqueues, Enqueue, Unserved, Succeed, GiveUpWaiting, Return,
              values
<1> QED  BY <1>1, <1>2

\* What the listener writes is what the device has, or a newer message is on the air.
LEMMA InStepHears ==
  ASSUME TypeInv, LastTold, Synced, ~unreported', ~killed', NEW p \in Reported, Access \/ HearsOn
  PROVE  InStep(p)'
<1> USE DEF outside, history, hearing, Hear
<1>0. /\ p \in Params /\ Reported \subseteq Params
      /\ cache \in [Params -> Values] /\ stored \in [Params -> Values] /\ unreported \in BOOLEAN
      /\ UNCHANGED <<air, device, client, killed>>
  BY HearsOnKeeps, ValuesAssumption DEF TypeInv, TypeOK, Access
<1>1. CASE Access
  BY <1>1 DEF Access, InStep, Handling
<1>2. CASE Type
  <2>1. listener' = "Counter"
    BY <1>0, <1>2 DEF Type, TypeCheck, Other
  <2> QED  BY <2>1 DEF InStep, Handling
<1> SUFFICES ASSUME HearsOn, ~Type
             PROVE  InStep(p)'
  BY <1>1, <1>2
<1>3. /\ ~unreported /\ ~killed /\ listener # "Idle" /\ InStep(p)
      /\ air = <<>> => message.values[p] = device[p]
  <2>1. ~unreported /\ ~killed /\ listener # "Idle"
    BY <1>0 DEF HearsOn, Type, TypeCheck, Counter, Exists, Write, SaveReported, Listens, PendingEmpty, UseFront, EnqueueAwake
  <2> QED  BY <2>1, SyncedIs DEF LastTold, Told
<1>4. pending' = pending
  BY HearsOnKeeps
<1>5. Ahead(p)' <=> Ahead(p)
  BY <1>0, <1>4 DEF Ahead, Preparing, Queued, Underway
<1>6. CASE Counter
  <2>1. CASE Repeated
    <3>1. message.values[p] = cache[p] /\ message.values[p] = stored[p] /\ UNCHANGED values /\ listener' = "Idle"
      BY <1>0, <1>6, <2>1 DEF Counter, Rest, Told
    <3> QED  BY <1>0, <1>3, <3>1 DEF InStep, Ahead, Level, values
  <2>2. CASE ~Repeated
    BY <1>6, <2>2 DEF Counter, InStep, Handling
  <2> QED  BY <2>1, <2>2
<1>7. ASSUME NEW q \in Params, Exists(q)
      PROVE  InStep(p)'
  <2>1. /\ listener = "Exists" /\ q \in todo /\ todo' = todo \ {q} /\ UNCHANGED values
        /\ \/ Queued(q) /\ listener' = IF todo' = {} THEN "Empty" ELSE "Exists"
           \/ param' = q /\ listener' = "Write"
    BY <1>7 DEF Exists
  <2>2. CASE p = q
    BY <1>5, <2>1, <2>2 DEF InStep, Handling, Ahead
  <2>3. CASE p # q /\ p \in todo
    BY <2>1, <2>3 DEF InStep, Handling
  <2>4. CASE p # q /\ p \notin todo
    BY <1>0, <1>3, <1>5, <2>1, <2>4 DEF InStep, Handling, Level, values
  <2> QED  BY <2>2, <2>3, <2>4
<1>8. CASE Write
  <2>1. /\ listener = "Write" /\ listener' = "Save" /\ UNCHANGED <<todo, param, message, stored>> /\ param \in Reported
        /\ cache' = [cache EXCEPT ![param] = message.values[param]]
    BY <1>8 DEF Write, TypeInv
  <2>2. CASE p = param
    BY <1>0, <1>3, <2>1, <2>2 DEF InStep, Handling, Ahead
  <2>3. CASE p # param
    BY <1>0, <1>3, <1>5, <2>1, <2>3 DEF InStep, Handling, Level
  <2> QED  BY <2>2, <2>3
<1>9. CASE SaveReported
  <2>1. /\ listener = "Save" /\ listener' = IF todo = {} THEN "Empty" ELSE "Exists"
        /\ UNCHANGED <<todo, message, cache>> /\ param \in Reported
        /\ stored' = [stored EXCEPT ![param] = message.values[param]]
    BY <1>9 DEF SaveReported, TypeInv
  <2>2. CASE p = param
    BY <1>0, <1>3, <1>5, <2>1, <2>2 DEF InStep, Ahead, Level
  <2>3. CASE p # param
    BY <1>0, <1>3, <1>5, <2>1, <2>3 DEF InStep, Handling, Level
  <2> QED  BY <2>2, <2>3
<1>10. CASE (\E l \in BOOLEAN : Listens(l)) \/ EnqueueAwake
  <2>1. /\ listener \in {"Empty", "Front", "Enqueue"} /\ listener' \in {"Idle", "Front", "Enqueue"}
        /\ UNCHANGED values
    BY <1>10 DEF Listens, PendingEmpty, UseFront, EnqueueAwake, Rest
  <2> QED  BY <1>0, <1>3, <1>5, <2>1 DEF InStep, Handling, Level, values
<1> QED  BY <1>6, <1>7, <1>8, <1>9, <1>10 DEF HearsOn

LEMMA SyncedStep ==
  ASSUME TypeInv, LastTold, Synced, [Next]_vars
  PROVE  Synced'
<1> SUFFICES ASSUME ~unreported', ~killed', NEW p \in Reported
             PROVE  InStep(p)'
  BY DEF Synced, InStep, Level
<1> USE DEF outside, history, hearing, values
<1>0. HearTypes /\ unreported \in BOOLEAN
  BY DEF TypeInv, TypeOK, HearTypes
<1>1. ASSUME NEW c \in Clients, CallStep(c)
      PROVE  InStep(p)'
  <2>1. UNCHANGED <<listener, todo, param, device, unreported, killed>>
    BY <1>1, CallKeeps
  <2>2. InStep(p)
    BY <2>1, SyncedIs
  <2>3. Ahead(p) => Ahead(p)'
    BY <1>1, AheadKept, ValuesAssumption
  <2>4. Ahead(p)' \/ (cache'[p] = cache[p] /\ stored'[p] = stored[p])
    BY <1>1, CallLevels, ValuesAssumption
  <2> QED  BY <2>1, <2>2, <2>3, <2>4 DEF InStep, Handling, Level
<1>2. ASSUME NEW m \in Message, Emit(m), UNCHANGED listener
      PROVE  InStep(p)'
  <2>1. air' # <<>>
    BY <1>0, <1>2, EmitEffect
  <2> QED  BY <2>1 DEF InStep, Ahead
<1>3. CASE Transmit
  <2>1. UNCHANGED listener
    BY <1>3 DEF Transmit
  <2> QED  BY <1>2, <1>3, <2>1, TransmitEffect DEF Answered
<1>4. ASSUME NEW r \in Reported, NEW v \in Values, NEW mine \in BOOLEAN, Report(r, v, mine)
      PROVE  InStep(p)'
  <2>1. UNCHANGED listener
    BY <1>4 DEF Report
  <2> QED  BY <1>2, <1>4, <2>1, ReportEffect DEF Announced
<1>5. CASE Receive
  <2>1. listener' \in {"Access", "Counter"}
    BY <1>0, <1>5, ReceiveEffect
  <2> QED  BY <2>1 DEF InStep, Handling
<1>6. CASE Access \/ HearsOn
  BY <1>6, InStepHears
<1>7. CASE Withdraw \/ GiveUp \/ PushPending \/ UNCHANGED vars
  <2>1. UNCHANGED <<client, listener, todo, param, device, air, unreported, killed, cache, stored, pending>>
    BY <1>7 DEF Withdraw, GiveUp, PushPending, vars, queuing
  <2>2. InStep(p)
    BY <2>1, SyncedIs
  <2> QED  BY <2>1, <2>2 DEF InStep, Handling, Level, Ahead, Preparing, Queued, Underway
<1>8. CASE Restarts
  <2>1. LoadVariables(pending) /\ ~killed /\ Shutdown
    BY <1>8, RestartEffect
  <2>2. /\ ~unreported /\ air = <<>> /\ listener = "Idle" /\ \A c \in Clients : client[c].at = "Idle"
    BY <1>0, <2>1 DEF Shutdown, Stop, Busy, At
  <2>3. InStep(p) /\ ~Preparing(p) /\ ~Handling(p)
    BY <2>1, <2>2, SyncedIs DEF Preparing, Underway, Handling
  <2>4. UNCHANGED <<pending, device, stored>> /\ cache' = stored /\ listener' = "Idle"
    BY <2>1 DEF LoadVariables, Rest
  <2> QED  BY <2>2, <2>3, <2>4 DEF InStep, Level, Ahead, Queued
<1> QED
  BY <1>1, <1>3, <1>4, <1>5, <1>6, <1>7, <1>8 DEF Next, Builds, Enqueues, CallStep, Restarts, HearsOn, Listens

LEMMA SyncedInit == Init => LastTold /\ Synced
BY DEF Init, LastTold, Synced

\* However calls and reports overlap, once everything is quiet the cache and the
\* database have the device's values of the parameters it reports, if what it told
\* last was not lost: for any number of parameters, threads, calls, reports and
\* regular restarts.
THEOREM CacheCatchesUp == Spec => []CacheFollowsDevice
<1>1. TypeInv /\ LastTold /\ Synced /\ [Next]_vars => TypeInv' /\ LastTold' /\ Synced'
  BY TypeInvStep, LastToldStep, SyncedStep
<1>2. TypeInv /\ Synced => CacheFollowsDevice
  <2> SUFFICES ASSUME TypeInv, Synced, Quiet, ~unreported, ~killed
               PROVE  \A p \in Reported : cache[p] = device[p] /\ stored[p] = device[p]
    BY DEF CacheFollowsDevice
  <2>1. \A p \in Reported : ~Ahead(p) /\ ~Handling(p)
    BY DEF Quiet, Busy, At, Ahead, Preparing, Queued, Underway, Handling
  <2> QED  BY <2>1 DEF Synced
<1> QED  BY <1>1, <1>2, TypeInvInit, SyncedInit, PTL DEF Spec
=============================================================================
