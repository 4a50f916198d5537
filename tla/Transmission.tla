---------------------------- MODULE Transmission ----------------------------
(***************************************************************************)
(* When a packet goes out to a device: MAXCentral::sendPacket with the two *)
(* PacketManagers, which remember the packet last sent to a device and the *)
(* one last received from it.  The threads of the device's send queue and  *)
(* the listener (which answers, too) call sendPacket; the listener records *)
(* what it hears; each manager has a worker that forgets old packets.  The *)
(* records are shared: a thread changes the time of one it got a pointer   *)
(* to, which the map may have replaced or forgotten meanwhile.             *)
(*                                                                         *)
(* Time passes in ticks while every thread sleeps or is idle (a step takes *)
(* no time); the workers run whenever they like.  Of a time the model has  *)
(* the age, which is negative if the time is yet to come.  A thread sleeps *)
(* whole ticks; the millisecond sendPacket sleeps less is below a tick.    *)
(***************************************************************************)
EXTENDS Integers, FiniteSets

CONSTANTS
    Sendable,    \* thread -> the packets it sends
    Heard,       \* packets the device sends
    Stealthy,    \* packets that are sent stealthily: they are not remembered
    Delay,       \* responseDelay of the interface
    Repeat,      \* an equal packet before that is a repetition (200 ms)
    Keep,        \* a packet is remembered that long (2000 ms)
    Events,      \* bound on the calls of sendPacket and the packets heard
    MaxInfos     \* bound on the records somebody knows

Threads == DOMAIN Sendable
Listener == "listener"

ASSUME TransmissionAssumption ==
    /\ Listener \in Threads
    /\ Delay \in Nat \ {0} /\ Repeat \in Nat /\ Keep \in Nat /\ Events \in Nat /\ MaxInfos \in Nat
    /\ Delay < Repeat /\ Repeat < Keep

Managers == {"sent", "received"}
Ids == 1..MaxInfos
None == 0
NoPacket == "none"
NoInfo == [packet |-> NoPacket, age |-> 0]

VARIABLES
    packets,     \* _packets of _sentPackets and of _receivedPackets
    info,        \* the MAXPacketInfo objects
    disposing,   \* whether the managers were disposed
    thread,      \* [at, packet, old, left, alone]: left is what remains of
                 \* its sleep, alone that no other call and no packet came in between
    worker,      \* [at, id] of the managers' workers
    air,         \* the last transmission: packet, age and alone
    heard,       \* the last packet heard: its age and whether it was a repetition
    since,       \* age of the last insertion into _sentPackets
    events

vars == <<packets, info, disposing, thread, worker, air, heard, since, events>>
ghosts == <<air, heard, since, events>>

Idle == [at |-> "Idle", packet |-> NoPacket, old |-> None, left |-> 0,
         alone |-> TRUE]

Init ==
    /\ packets = [m \in Managers |-> None]
    /\ info = [i \in Ids |-> NoInfo]
    /\ disposing = FALSE
    /\ thread = [t \in Threads |-> Idle]
    /\ worker = [m \in Managers |-> [at |-> "Sleep", id |-> None]]
    /\ air = [packet |-> NoPacket, age |-> Delay, alone |-> FALSE]
    /\ heard = [age |-> Delay, repeated |-> FALSE]
    /\ since = Keep + 1
    /\ events = 0

-----------------------------------------------------------------------------
(* Helpers                                                                  *)

At(t, l) == thread[t].at = l /\ thread[t].left = 0
Busy == {t \in Threads : thread[t].at # "Idle"}

\* The thread t goes on with these fields; everyone else is not alone.
Disturb(t, record) ==
    thread' = [u \in Threads |->
                  IF u = t THEN record
                  ELSE IF u \in Busy THEN [thread[u] EXCEPT !.alone = FALSE] ELSE thread[u]]

\* Objects nobody knows any more are gone.
Known == {packets[m] : m \in Managers} \union {thread[t].old : t \in Threads}
         \union {worker[m].id : m \in Managers}
Objects(new) == info' = [i \in Ids |-> IF i \in Known' THEN new[i] ELSE NoInfo]
Fresh == CHOOSE i \in Ids \ Known : TRUE

Older(age, cap) == IF age < cap THEN age + 1 ELSE age

-----------------------------------------------------------------------------
(* PacketManager                                                            *)

Found(m) == IF disposing THEN None ELSE packets[m]      \* getInfo

\* set() in two sections of _packetMutex.  The first one leaves an equal packet
\* if it is a repetition and erases any other one ...
Equal(t, m) == packets[m] # None /\ info[packets[m]].packet = thread[t].packet
Erase(m, kept) ==
    /\ packets' = [packets EXCEPT ![m] = IF kept THEN @ ELSE None]
    /\ UNCHANGED worker
    /\ Objects(info)
\* ... the second one inserts the packet, unless another thread was faster.
Insert(t, m) ==
    /\ UNCHANGED worker
    /\ IF packets[m] = None
         THEN /\ Ids \ Known # {}
              /\ packets' = [packets EXCEPT ![m] = Fresh]
              /\ Objects([info EXCEPT ![Fresh] = [packet |-> thread[t].packet, age |-> 0]])
         ELSE UNCHANGED packets /\ Objects(info)

\* The worker looks at a packet, and deletePacket takes it away if it is still
\* that one and old enough.  (Looking at a packet that is too young has no effect.)
Pick(m) ==
    /\ worker[m].at = "Sleep" /\ ~disposing
    /\ packets[m] # None /\ info[packets[m]].age >= Keep
    /\ worker' = [worker EXCEPT ![m] = [at |-> "Delete", id |-> packets[m]]]
    /\ UNCHANGED <<packets, info, disposing, thread, ghosts>>
DeleteOlder(m, age) ==
    /\ worker[m].at = "Delete"
    /\ worker' = [worker EXCEPT ![m] = [at |-> "Sleep", id |-> None]]
    /\ packets' = [packets EXCEPT ![m] =
                      IF ~disposing /\ @ = worker[m].id /\ @ # None /\ info[@].age > age
                        THEN None ELSE @]
    /\ UNCHANGED <<disposing, thread, ghosts>>
    /\ Objects(info)
DeleteEarly(m) == DeleteOlder(m, Keep - 1)
Delete(m) == DeleteOlder(m, Keep)

\* MAXCentral::dispose disposes both managers, one after the other.
Dispose ==
    /\ ~disposing
    /\ disposing' = TRUE
    /\ UNCHANGED <<packets, info, thread, worker, ghosts>>

-----------------------------------------------------------------------------
(* sendPacket                                                               *)

SendPacket(t, p) ==
    /\ At(t, "Idle") /\ events < Events
    /\ events' = events + 1
    /\ Disturb(t, [at |-> "Look", packet |-> p, old |-> None, left |-> 0, alone |-> Busy = {}])
    /\ UNCHANGED <<packets, info, disposing, worker, air, heard, since>>

Look(t) ==
    /\ At(t, "Look")
    /\ thread' = [thread EXCEPT ![t].old = Found("sent"),
                                ![t].at = IF thread[t].packet \in Stealthy THEN "Wait" ELSE "Erase"]
    /\ UNCHANGED <<packets, info, disposing, worker, ghosts>>

\* The time passed to set() is 0: an equal packet always is a repetition.
Goes(t, l) == thread' = [thread EXCEPT ![t].at = l]
EraseSent(t) ==
    LET kept == disposing \/ Equal(t, "sent")
    IN  /\ At(t, "Erase")
        /\ Goes(t, IF kept THEN "Wait" ELSE "Insert")
        /\ Erase("sent", kept)
        /\ UNCHANGED <<disposing, ghosts>>
InsertSent(t) ==
    /\ At(t, "Insert")
    /\ Goes(t, "Wait")
    /\ Insert(t, "sent")
    /\ since' = IF packets["sent"] = None THEN 0 ELSE since
    /\ UNCHANGED <<disposing, air, heard, events>>

\* Wait for responseDelay since the packet before: its record gets the time at
\* which this one goes out.
Wait(t) ==
    LET old == thread[t].old
        left == IF old # None /\ info[old].age < Delay THEN Delay - info[old].age ELSE 0
    IN  /\ At(t, "Wait")
        /\ thread' = [thread EXCEPT ![t].at = "Answer", ![t].old = None, ![t].left = left]
        /\ UNCHANGED <<packets, worker>>
        /\ Objects(IF old = None THEN info ELSE [info EXCEPT ![old].age = @ - left])
        /\ UNCHANGED <<disposing, ghosts>>

\* keepAlive for a stealthy packet; then responseDelay since the device was
\* heard or the last packet sent.
AnswerAfter(t, delay) ==
    LET old == Found("received")
        alive == Found("sent")
        age == info[old].age
    IN  /\ At(t, "Answer")
        /\ thread' = [thread EXCEPT ![t].at = "Air", ![t].old = old,
                         ![t].left = IF old # None /\ age \in 0..(delay - 1) THEN delay - age ELSE 0]
        /\ info' = IF thread[t].packet \in Stealthy /\ alive # None THEN [info EXCEPT ![alive].age = 0] ELSE info
        /\ UNCHANGED <<packets, disposing, worker, ghosts>>
AnswerAtOnce(t) == AnswerAfter(t, 0)
Answer(t) == AnswerAfter(t, Delay)

\* The record of what was heard gets the time of this transmission.
TransmitStamping(t, stamped) ==
    /\ At(t, "Air")
    /\ air' = [packet |-> thread[t].packet, age |-> 0, alone |-> thread[t].alone]
    /\ thread' = [thread EXCEPT ![t] = Idle]
    /\ UNCHANGED <<packets, disposing, worker, heard, since, events>>
    /\ Objects(IF stamped # None THEN [info EXCEPT ![stamped].age = 0] ELSE info)
TransmitUnstamped(t) == TransmitStamping(t, None)
Transmit(t) == TransmitStamping(t, thread[t].old)

-----------------------------------------------------------------------------
(* onPacketReceived                                                         *)

Hear(p) ==
    /\ At(Listener, "Idle") /\ events < Events
    /\ events' = events + 1
    /\ Disturb(Listener, [Idle EXCEPT !.at = "Heard", !.packet = p])
    /\ heard' = [age |-> 0, repeated |-> FALSE]
    /\ UNCHANGED <<packets, info, disposing, worker, air, since>>
EraseHeard ==
    LET repeated == Equal(Listener, "received") /\ info[packets["received"]].age < Repeat
        kept == disposing \/ repeated
    IN  /\ At(Listener, "Heard")
        /\ thread' = [thread EXCEPT ![Listener] =
                         IF kept THEN Idle ELSE [@ EXCEPT !.at = "InsertHeard"]]
        /\ Erase("received", kept)
        /\ heard' = [heard EXCEPT !.repeated = repeated]
        /\ UNCHANGED <<disposing, air, since, events>>
InsertHeard ==
    /\ At(Listener, "InsertHeard")
    /\ thread' = [thread EXCEPT ![Listener] = Idle]
    /\ Insert(Listener, "received")
    /\ UNCHANGED <<disposing, ghosts>>

-----------------------------------------------------------------------------
Tick ==
    /\ \A t \in Busy : thread[t].left > 0
    /\ info' = [i \in Ids |-> IF i \in Known THEN [info[i] EXCEPT !.age = Older(@, Keep + 1)] ELSE NoInfo]
    /\ thread' = [t \in Threads |-> IF t \in Busy THEN [thread[t] EXCEPT !.left = @ - 1] ELSE Idle]
    /\ air' = [air EXCEPT !.age = Older(@, Delay)]
    /\ heard' = [heard EXCEPT !.age = Older(@, Delay)]
    /\ since' = Older(since, Keep + 1)
    /\ UNCHANGED <<packets, disposing, worker, events>>

Call(t) == \E p \in Sendable[t] : SendPacket(t, p)
Sending(t) == Look(t) \/ EraseSent(t) \/ InsertSent(t) \/ Wait(t) \/ Answer(t) \/ Transmit(t)
Receiving == EraseHeard \/ InsertHeard
Working(m) == Pick(m) \/ Delete(m)

Next ==
    \/ \E t \in Threads : Call(t) \/ Sending(t)
    \/ \E p \in Heard : Hear(p)
    \/ Receiving
    \/ \E m \in Managers : Working(m)
    \/ Dispose
    \/ Tick

Spec == Init /\ [][Next]_vars

-----------------------------------------------------------------------------
SendLabels == {"Idle", "Look", "Erase", "Insert", "Wait", "Answer", "Air"}
ListenLabels == {"Heard", "InsertHeard"}

\* Types; the two managers share no record, and a known record has a packet.
TypeOK ==
    /\ \A m \in Managers : packets[m] \in Ids \union {None}
    /\ \A i \in Ids : info[i].age \in Int /\ info[i].age <= Keep + 1
    /\ packets["sent"] # packets["received"] \/ packets["sent"] = None
    /\ disposing \in BOOLEAN
    /\ \A t \in Threads : /\ thread[t].at \in SendLabels \union
                                (IF t = Listener THEN ListenLabels ELSE {})
                          /\ thread[t].old \in Ids \union {None}
                          /\ thread[t].left \in Nat
    /\ \A m \in Managers : worker[m].at \in {"Sleep", "Delete"} /\ worker[m].id \in Ids \union {None}
    /\ \A i \in Known \ {None} : info[i].packet # NoPacket

\* The thread t transmits, and nothing happened beside its call.
Transmits(t) == thread[t].at = "Air" /\ thread'[t].at = "Idle"
Alone(t) == thread[t].alone /\ ~disposing

\* Of two packets sent to a device that was heard lately the second one goes out
\* responseDelay after the first, unless their calls overlapped or a packet came
\* in while one of them waited.
Spaced ==
    [][\A t \in Threads :
          Transmits(t) /\ Alone(t) /\ air.alone /\ thread[t].old # None => air.age >= Delay]_vars

\* An answer goes out responseDelay after the packet it answers, unless that
\* packet was a repetition.
Answered ==
    [][\A t \in Threads :
          Transmits(t) /\ Alone(t) => heard.age >= Delay \/ heard.repeated]_vars

\* handleAck finds the packet the device acknowledges: the packet last sent is
\* remembered for two seconds from the time it was given to sendPacket first,
\* whatever the worker does, unless two calls overlapped.
Remembered ==
    (air.alone /\ air.packet \notin Stealthy /\ ~disposing /\ since <= Keep
       /\ \A t \in Busy : thread[t].at \in ListenLabels)
    => packets["sent"] # None /\ info[packets["sent"]].packet = air.packet
=============================================================================
