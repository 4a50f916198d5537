----------------------------- MODULE PacketProofs -----------------------------
(***************************************************************************)
(* Proofs about packets: when they are sent (Transmission), how fields are *)
(* written into them (Codec), and what they tell the device of the         *)
(* parameters (Configuration).                                             *)
(*                                                                         *)
(* The first part is about Transmission, for any threads, packets, delays  *)
(* and bounds.  The second part is about setPosition and getPosition for   *)
(* payloads of any length, every position and every size.  The third one   *)
(* uses it for any device description that satisfies                       *)
(* ConfigurationAssumption: the device has nothing that was never set, and *)
(* has what the cache shows when nothing is under way.                     *)
(***************************************************************************)
EXTENDS Transmission, Configuration, FiniteSetTheorems, SequenceTheorems, TLAPS

-----------------------------------------------------------------------------
(* Transmission: when packets are sent                                      *)

ToSend == UNION {Sendable[t] : t \in Threads}
Packets == ToSend \union Heard \union {NoPacket}
IdOrNone == Ids \union {None}

RecordsType == packets \in [Managers -> IdOrNone] /\ info \in [Ids -> [packet : Packets, age : Int]]
ThreadRecord == [at : SendLabels \union ListenLabels, packet : Packets,
                 old : IdOrNone, left : Nat, alone : BOOLEAN]
ThreadType ==
    /\ thread \in [Threads -> ThreadRecord]
    /\ \A t \in Threads : thread[t].at \in ListenLabels => t = Listener
WorkerType == worker \in [Managers -> [at : {"Sleep", "Delete"}, id : IdOrNone]]
GhostType ==
    /\ disposing \in BOOLEAN
    /\ air \in [packet : Packets, age : 0..Delay, alone : BOOLEAN]
    /\ heard \in [age : 0..Delay, repeated : BOOLEAN]
    /\ since \in 0..(Keep + 1)
Types == RecordsType /\ ThreadType /\ WorkerType /\ GhostType

Sender(t) == t \in Busy /\ thread[t].at \notin ListenLabels /\ thread[t].alone

\* A call that is alone is the only thing that goes on.
Sole == \A t \in Threads : Sender(t) => Busy = {t}

\* The packet last sent is no older than its insertion.
Young == packets["sent"] # None => info[packets["sent"]].age <= since

\* A call that is alone finds the packet it put into _sentPackets.
Holds(p) == packets["sent"] # None /\ info[packets["sent"]].packet = p
OwnSent(t, p) ==
    /\ thread[t].at = "Insert" => packets["sent"] = None
    /\ (thread[t].at \in {"Wait", "Answer", "Air"} /\ p \notin Stealthy /\ since <= Keep) => Holds(p)
Mine == \A t \in Threads : Sender(t) /\ ~disposing => OwnSent(t, thread[t].packet)

\* No thread changes the record of the packet heard as if it were one sent.
Apart ==
    /\ packets["sent"] # None => packets["sent"] # packets["received"]
    /\ \A t \in Threads : thread[t].at \in {"Erase", "Insert", "Wait"} /\ thread[t].old # None
                             => thread[t].old # packets["received"]

\* The packet heard has a time in the past, and no later one than when it came in.
Received(age) == packets["received"] # None /\ info[packets["received"]].age <= age
Past == packets["received"] # None => info[packets["received"]].age >= 0
Hearing ==
    /\ thread[Listener].at = "InsertHeard" => packets["received"] = None
    /\ (thread[Listener].at \notin ListenLabels /\ ~disposing /\ ~heard.repeated /\ heard.age < Delay)
       => Received(heard.age)

\* A transmission stamps it.
Stamped ==
    (air.alone /\ ~disposing /\ packets["received"] # None)
    => air.age >= Delay \/ Received(air.age)

\* A call about to transmit has waited for both.
Waited ==
    \A t \in Threads : Sender(t) /\ ~disposing /\ thread[t].at = "Air" =>
       /\ packets["received"] \in {thread[t].old, None}
       /\ heard.repeated \/ heard.age + thread[t].left >= Delay
       /\ air.alone /\ thread[t].old # None => air.age + thread[t].left >= Delay

Claims == Sole /\ Young /\ Mine /\ Apart /\ Past /\ Hearing /\ Stamped /\ Waited /\ Remembered
IInv == Types /\ Claims

-----------------------------------------------------------------------------
(* The records                                                               *)

\* There is a fresh record whenever one can be made, and nobody knows it.
LEMMA FreshIsUnknown ==
  ASSUME Ids \ Known # {}
  PROVE  Fresh \in Ids /\ Fresh \notin Known
  BY DEF Fresh

\* No record is None.
LEMMA NoneIsNoId == None \notin Ids
  BY TransmissionAssumption DEF None, Ids

\* A record a manager has got stays.
LEMMA ObjectsKeep ==
  ASSUME NEW new, Objects(new), NEW m \in Managers, packets'[m] \in Ids
  PROVE  info'[packets'[m]] = new[packets'[m]]
<1>1. packets'[m] \in Known'
  BY DEF Known
<1> QED
  BY <1>1 DEF Objects

LEMMA NoInfoType == NoPacket \in Packets /\ NoInfo \in [packet : Packets, age : Int]
<1>1. NoPacket \in Packets
  BY DEF Packets
<1> QED
  BY <1>1 DEF NoInfo

LEMMA ObjectsType ==
  ASSUME NEW new \in [Ids -> [packet : Packets, age : Int]], Objects(new)
  PROVE  info' \in [Ids -> [packet : Packets, age : Int]]
  BY NoInfoType DEF Objects

\* Time: an age only grows, by one and not beyond the cap.
LEMMA OlderType ==
  \A cap \in Nat : \A age \in 0..cap : Older(age, cap) \in 0..cap
  BY DEF Older

LEMMA OlderMonotone ==
  \A cap \in Nat : \A a, b \in Int : a <= b /\ b <= cap => Older(a, cap) <= Older(b, cap)
  BY DEF Older

-----------------------------------------------------------------------------
(* Type correctness                                                          *)

LEMMA NextRecordsType ==
  ASSUME RecordsType, ThreadType, [Next]_vars
  PROVE  RecordsType'
<1> USE DEF RecordsType
<1>1. ASSUME NEW t \in Threads, Call(t) \/ Look(t) PROVE RecordsType'
  BY <1>1 DEF Call, SendPacket, Look
<1>2. ASSUME NEW t \in Threads, EraseSent(t) PROVE RecordsType'
  <2>1. Objects(info) /\ packets' \in [Managers -> IdOrNone]
    BY <1>2 DEF EraseSent, Erase, Managers, IdOrNone
  <2> QED
    BY <2>1, ObjectsType
<1>3. ASSUME NEW t \in Threads, NEW m \in Managers, Insert(t, m) PROVE RecordsType'
  <2>1. CASE packets[m] = None
    <3> DEFINE new == [info EXCEPT ![Fresh] = [packet |-> thread[t].packet, age |-> 0]]
    <3>1. Fresh \in Ids /\ packets' = [packets EXCEPT ![m] = Fresh] /\ Objects(new)
      BY <1>3, <2>1, FreshIsUnknown DEF Insert
    <3>2. thread[t].packet \in Packets
      BY DEF ThreadType, ThreadRecord
    <3>3. new \in [Ids -> [packet : Packets, age : Int]]
      BY <3>1, <3>2
    <3> HIDE DEF new
    <3>4. info' \in [Ids -> [packet : Packets, age : Int]]
      BY <3>1, <3>3, ObjectsType
    <3> QED
      BY <3>1, <3>4 DEF IdOrNone
  <2>2. CASE packets[m] # None
    BY <1>3, <2>2, ObjectsType DEF Insert
  <2> QED
    BY <2>1, <2>2
<1>4. ASSUME NEW t \in Threads, Wait(t) PROVE RecordsType'
  <2> DEFINE old == thread[t].old
             left == IF old # None /\ info[old].age < Delay THEN Delay - info[old].age ELSE 0
             new == IF old = None THEN info ELSE [info EXCEPT ![old].age = @ - left]
  <2>1. Objects(new) /\ packets' = packets
    BY <1>4 DEF Wait
  <2>2. old \in IdOrNone
    BY DEF ThreadType, ThreadRecord
  <2>3. new \in [Ids -> [packet : Packets, age : Int]]
    <3>1. CASE old = None
      BY <3>1
    <3>2. CASE old # None
      <4>1. old \in Ids /\ info[old] \in [packet : Packets, age : Int]
        BY <2>2, <3>2 DEF IdOrNone
      <4>2. left \in Int
        BY <4>1, TransmissionAssumption
      <4> HIDE DEF left, old
      <4> QED
        BY <3>2, <4>1, <4>2
    <3> QED
      BY <3>1, <3>2
  <2> HIDE DEF new
  <2> QED
    BY <2>1, <2>3, ObjectsType
<1>5. ASSUME NEW t \in Threads, Answer(t) PROVE RecordsType'
  <2>1. Found("sent") \in IdOrNone
    BY DEF Found, IdOrNone, Managers
  <2> QED
    BY <1>5, <2>1 DEF Answer, AnswerAfter, IdOrNone
<1>6. ASSUME NEW t \in Threads, Transmit(t) PROVE RecordsType'
  <2> DEFINE new == IF thread[t].old # None THEN [info EXCEPT ![thread[t].old].age = 0] ELSE info
  <2>1. Objects(new) /\ packets' = packets
    BY <1>6 DEF Transmit, TransmitStamping
  <2>2. new \in [Ids -> [packet : Packets, age : Int]]
    BY DEF ThreadType, ThreadRecord, IdOrNone
  <2> HIDE DEF new
  <2> QED
    BY <2>1, <2>2, ObjectsType
<1>7. ASSUME EraseHeard PROVE RecordsType'
  <2>1. Objects(info) /\ packets' \in [Managers -> IdOrNone]
    BY <1>7 DEF EraseHeard, Erase, Managers, IdOrNone
  <2> QED
    BY <2>1, ObjectsType
<1>8. ASSUME NEW m \in Managers, Delete(m) PROVE RecordsType'
  <2>1. Objects(info) /\ packets' \in [Managers -> IdOrNone]
    BY <1>8 DEF Delete, DeleteOlder, IdOrNone
  <2> QED
    BY <2>1, ObjectsType
<1>9. CASE Tick
  <2>1. ASSUME NEW i \in Ids
        PROVE  [info[i] EXCEPT !.age = Older(@, Keep + 1)] \in [packet : Packets, age : Int]
    BY DEF Older
  <2> QED
    BY <1>9, <2>1, NoInfoType DEF Tick
<1>10. CASE (\E p \in Heard : Hear(p)) \/ (\E m \in Managers : Pick(m)) \/ Dispose \/ UNCHANGED vars
  BY <1>10 DEF Hear, Pick, Dispose, vars
<1>11. ASSUME NEW t \in Threads, InsertSent(t) PROVE RecordsType'
  BY <1>3, <1>11 DEF InsertSent, Managers
<1>12. CASE InsertHeard
  BY <1>3, <1>12, TransmissionAssumption DEF InsertHeard, Managers
<1> QED
  BY <1>1, <1>2, <1>4, <1>5, <1>6, <1>7, <1>8, <1>9, <1>10, <1>11, <1>12
     DEF Next, Sending, Receiving, Working

\* What becomes of one thread decides about the type.
LEMMA ThreadStep ==
  ASSUME ThreadType, NEW t \in Threads, NEW r \in ThreadRecord,
         r.at \in ListenLabels => t = Listener,
         thread' = [thread EXCEPT ![t] = r]
  PROVE  ThreadType'
  BY DEF ThreadType

LEMMA NextThreadType ==
  ASSUME RecordsType, ThreadType, [Next]_vars
  PROVE  ThreadType'
<1> USE DEF ThreadType
<1>1. ASSUME NEW t \in Threads, Call(t) PROVE ThreadType'
  <2>1. PICK p \in Sendable[t] : SendPacket(t, p)
    BY <1>1 DEF Call
  <2>2. p \in Packets
    <3>1. p \in ToSend
      BY DEF ToSend
    <3> QED
      BY <3>1 DEF Packets
  <2>3. (Busy = {}) \in BOOLEAN
    OBVIOUS
  <2> QED
    BY <2>1, <2>2, <2>3 DEF SendPacket, Disturb, SendLabels, ThreadRecord, ListenLabels, IdOrNone, At
<1>2. ASSUME NEW t \in Threads, Look(t) PROVE ThreadType'
  <2>1. Found("sent") \in IdOrNone
    BY DEF RecordsType, Found, IdOrNone, Managers
  <2> QED
    BY <1>2, <2>1 DEF Look, SendLabels, ThreadRecord, ListenLabels, At
<1>3. ASSUME NEW t \in Threads, EraseSent(t) \/ InsertSent(t) PROVE ThreadType'
  BY <1>3 DEF EraseSent, InsertSent, Goes, SendLabels, ThreadRecord, ListenLabels, At
<1>4. ASSUME NEW t \in Threads, Wait(t) PROVE ThreadType'
  <2> DEFINE old == thread[t].old
             left == IF old # None /\ info[old].age < Delay THEN Delay - info[old].age ELSE 0
  <2>1. left \in Nat
    <3>1. CASE old # None /\ info[old].age < Delay
      <4>1. info[old].age \in Int
        BY <3>1 DEF RecordsType, ThreadRecord, IdOrNone
      <4> QED
        BY <3>1, <4>1, TransmissionAssumption
    <3> QED
      BY <3>1
  <2>2. thread' = [thread EXCEPT ![t].at = "Answer", ![t].old = None, ![t].left = left]
    BY <1>4 DEF Wait
  <2> HIDE DEF left, old
  <2> DEFINE r == [thread[t] EXCEPT !.at = "Answer", !.old = None, !.left = left]
  <2>3. r \in ThreadRecord /\ r.at = "Answer"
    BY <2>1 DEF SendLabels, IdOrNone, ThreadRecord
  <2>4. thread' = [thread EXCEPT ![t] = r]
    BY <2>2 DEF ThreadRecord
  <2> HIDE DEF r
  <2> QED
    BY <2>3, <2>4, ThreadStep DEF ListenLabels
<1>5. ASSUME NEW t \in Threads, Answer(t) PROVE ThreadType'
  <2> DEFINE old == Found("received")
             age == info[old].age
             left == IF old # None /\ age \in 0..(Delay - 1) THEN Delay - age ELSE 0
  <2>1. old \in IdOrNone
    BY DEF RecordsType, Found, IdOrNone, Managers
  <2>2. left \in Nat
    BY TransmissionAssumption
  <2>3. thread' = [thread EXCEPT ![t].at = "Air", ![t].old = old, ![t].left = left]
    BY <1>5 DEF Answer, AnswerAfter
  <2> HIDE DEF left, age, old
  <2> DEFINE r == [thread[t] EXCEPT !.at = "Air", !.old = old, !.left = left]
  <2>4. r \in ThreadRecord /\ r.at = "Air"
    BY <2>1, <2>2 DEF SendLabels, ThreadRecord
  <2>5. thread' = [thread EXCEPT ![t] = r]
    BY <2>3 DEF ThreadRecord
  <2> HIDE DEF r
  <2> QED
    BY <2>4, <2>5, ThreadStep DEF ListenLabels
<1>6. Idle \in ThreadRecord
  BY NoInfoType DEF ThreadRecord, Idle, SendLabels, IdOrNone
<1>7. ASSUME NEW t \in Threads, Transmit(t) PROVE ThreadType'
  BY <1>6, <1>7 DEF Transmit, TransmitStamping, Idle, ListenLabels
<1>8. ASSUME NEW p \in Heard, Hear(p) PROVE ThreadType'
  <2> DEFINE r == [Idle EXCEPT !.at = "Heard", !.packet = p]
  <2>1. p \in Packets
    BY DEF Packets
  <2>2. r \in ThreadRecord
    BY <1>6, <2>1 DEF ThreadRecord, ListenLabels
  <2>3. Disturb(Listener, r)
    BY <1>8 DEF Hear
  <2> HIDE DEF r
  <2> QED
    BY <2>2, <2>3 DEF Disturb, ThreadRecord
<1>9. CASE Receiving
  <2> DEFINE r == [thread[Listener] EXCEPT !.at = "InsertHeard"]
  <2>1. Listener \in Threads /\ r \in ThreadRecord
    BY TransmissionAssumption DEF ThreadRecord, ListenLabels
  <2>2. thread' = [thread EXCEPT ![Listener] = Idle] \/ thread' = [thread EXCEPT ![Listener] = r]
    BY <1>9 DEF Receiving, EraseHeard, InsertHeard
  <2> HIDE DEF r
  <2> QED
    BY <1>6, <2>1, <2>2, ThreadStep
<1>10. CASE (\E m \in Managers : Working(m)) \/ Dispose \/ UNCHANGED vars
  BY <1>10 DEF Working, Pick, Delete, DeleteOlder, Dispose, vars
<1>11. CASE Tick
  BY <1>6, <1>11 DEF Tick, Idle, ListenLabels, ThreadRecord
<1> QED
  BY <1>1, <1>2, <1>3, <1>4, <1>5, <1>7, <1>8, <1>9, <1>10, <1>11 DEF Next, Sending

LEMMA NextWorkerType ==
  ASSUME RecordsType, WorkerType, [Next]_vars
  PROVE  WorkerType'
<1>1. CASE \E m \in Managers : Working(m)
  BY <1>1 DEF Working, Pick, Delete, DeleteOlder, WorkerType, RecordsType, IdOrNone
<1>2. CASE Receiving
  BY <1>2 DEF Receiving, EraseHeard, InsertHeard, Insert, Erase, WorkerType
<1>3. CASE \E t \in Threads : Call(t) \/ Sending(t)
  BY <1>3 DEF Call, SendPacket, Sending, Look, EraseSent, Erase, InsertSent, Insert, Wait,
     Answer, AnswerAfter, Transmit, TransmitStamping, WorkerType
<1>4. CASE (\E p \in Heard : Hear(p)) \/ Dispose \/ Tick \/ UNCHANGED vars
  BY <1>4 DEF Hear, Dispose, Tick, vars, WorkerType
<1> QED
  BY <1>1, <1>2, <1>3, <1>4 DEF Next

LEMMA NextGhostType ==
  ASSUME ThreadType, GhostType, [Next]_vars
  PROVE  GhostType'
<1> USE TransmissionAssumption DEF GhostType
<1>1. CASE \E m \in Managers : Working(m)
  BY <1>1 DEF Working, Pick, Delete, DeleteOlder, ghosts
<1>2. CASE EraseHeard
  <2>1. (Equal(Listener, "received") /\ info[packets["received"]].age < Repeat) \in BOOLEAN
    BY DEF Equal
  <2> QED
    BY <1>2, <2>1 DEF EraseHeard
<1>3. CASE InsertHeard
  BY <1>3 DEF InsertHeard, ghosts
<1>4. ASSUME NEW t \in Threads, Call(t) \/ Look(t) \/ EraseSent(t) \/ Wait(t) \/ Answer(t)
      PROVE  GhostType'
  BY <1>4 DEF Call, SendPacket, Look, EraseSent, Wait, Answer, AnswerAfter, ghosts
<1>5. ASSUME NEW t \in Threads, InsertSent(t) PROVE GhostType'
  BY <1>5 DEF InsertSent
<1>6. ASSUME NEW t \in Threads, Transmit(t) PROVE GhostType'
  BY <1>6 DEF Transmit, TransmitStamping, ThreadType, ThreadRecord
<1>7. CASE \E p \in Heard : Hear(p)
  BY <1>7 DEF Hear
<1>8. CASE Tick
  <2>1. Older(air.age, Delay) \in 0..Delay /\ Older(heard.age, Delay) \in 0..Delay
    BY OlderType
  <2>2. Older(since, Keep + 1) \in 0..(Keep + 1)
    BY OlderType
  <2> QED
    BY <1>8, <2>1, <2>2 DEF Tick
<1>9. CASE Dispose \/ UNCHANGED vars
  BY <1>9 DEF Dispose, vars, ghosts
<1> QED
  BY <1>1, <1>2, <1>3, <1>4, <1>5, <1>6, <1>7, <1>8, <1>9 DEF Next, Sending, Receiving

-----------------------------------------------------------------------------
(* What the operations do to the records of the managers                     *)

\* The manager keeps its record as it is; the record stays, with its packet and
\* this age; it is forgotten; a record nobody knew takes its place.
Same(m) == packets'[m] = packets[m] /\ (packets[m] # None => info'[packets[m]] = info[packets[m]])
Aged(m, age) ==
    packets[m] # None => /\ info'[packets[m]].packet = info[packets[m]].packet
                         /\ info'[packets[m]].age = age
Lost(m) == packets'[m] = None
Made(m, p) == packets'[m] \in Ids \ Known /\ info'[packets'[m]] = [packet |-> p, age |-> 0]

LEMMA EraseEffect ==
  ASSUME RecordsType, NEW m \in Managers, NEW kept \in BOOLEAN, Erase(m, kept)
  PROVE  /\ IF kept THEN Same(m) ELSE Lost(m)
         /\ \A n \in Managers \ {m} : Same(n)
<1>1. /\ packets' = [packets EXCEPT ![m] = IF kept THEN @ ELSE None]
      /\ Objects(info)
  BY DEF Erase
<1>2. ASSUME NEW n \in Managers, packets'[n] = packets[n] PROVE Same(n)
  BY <1>1, <1>2, ObjectsKeep DEF Same, RecordsType, IdOrNone
<1> QED
  BY <1>1, <1>2 DEF Lost, RecordsType

LEMMA InsertEffect ==
  ASSUME RecordsType, NEW t \in Threads, NEW m \in Managers, Insert(t, m)
  PROVE  /\ IF packets[m] = None THEN Made(m, thread[t].packet) ELSE Same(m)
         /\ \A n \in Managers \ {m} : Same(n)
<1>1. CASE packets[m] = None
  <2> DEFINE new == [info EXCEPT ![Fresh] = [packet |-> thread[t].packet, age |-> 0]]
  <2>1. packets' = [packets EXCEPT ![m] = Fresh] /\ Objects(new) /\ Fresh \in Ids /\ Fresh \notin Known
    BY <1>1, FreshIsUnknown DEF Insert
  <2>2. new[Fresh] = [packet |-> thread[t].packet, age |-> 0]
    BY <2>1 DEF RecordsType
  <2>3. \A i \in Ids : i # Fresh => new[i] = info[i]
    BY DEF RecordsType
  <2> HIDE DEF new
  <2>4. packets'[m] = Fresh
    BY <2>1 DEF RecordsType
  <2>5. Made(m, thread[t].packet)
    BY <2>1, <2>2, <2>4, ObjectsKeep DEF Made
  <2>6. ASSUME NEW n \in Managers \ {m} PROVE Same(n)
    <3>1. packets'[n] = packets[n] /\ packets[n] \in Known
      BY <2>1 DEF RecordsType, Known
    <3>2. CASE packets[n] # None
      <4>1. packets[n] \in Ids /\ packets[n] # Fresh
        BY <2>1, <3>1, <3>2 DEF RecordsType, IdOrNone
      <4> QED
        BY <2>1, <2>3, <3>1, <4>1, ObjectsKeep DEF Same
    <3> QED
      BY <3>1, <3>2 DEF Same
  <2> QED
    BY <1>1, <2>5, <2>6
<1>2. CASE packets[m] # None
  <2>1. packets' = packets /\ Objects(info)
    BY <1>2 DEF Insert
  <2>2. ASSUME NEW n \in Managers PROVE Same(n)
    BY <2>1, ObjectsKeep DEF Same, RecordsType, IdOrNone
  <2> QED
    BY <1>2, <2>2
<1> QED
  BY <1>1, <1>2

LEMMA DeleteEffect ==
  ASSUME RecordsType, NEW m \in Managers, Delete(m)
  PROVE  \A n \in Managers : Same(n) \/ (Lost(n) /\ info[packets[n]].age > Keep)
<1>1. /\ packets' = [packets EXCEPT ![m] =
                        IF ~disposing /\ @ = worker[m].id /\ @ # None /\ info[@].age > Keep
                          THEN None ELSE @]
      /\ Objects(info)
  BY DEF Delete, DeleteOlder
<1>2. ASSUME NEW n \in Managers, packets'[n] = packets[n] PROVE Same(n)
  BY <1>1, <1>2, ObjectsKeep DEF Same, RecordsType, IdOrNone
<1> QED
  BY <1>1, <1>2 DEF Lost, RecordsType

\* The same for the whole steps that erase, insert or delete.
LEMMA EraseSentEffect ==
  ASSUME RecordsType, GhostType, NEW t \in Threads, EraseSent(t)
  PROVE  /\ Same("received")
         /\ IF disposing \/ Equal(t, "sent") THEN Same("sent") ELSE Lost("sent")
<1> DEFINE kept == disposing \/ Equal(t, "sent")
<1>1. kept \in BOOLEAN
  BY DEF GhostType, Equal
<1>2. Erase("sent", kept)
  BY DEF EraseSent
<1> HIDE DEF kept
<1>3. Same("received") /\ IF kept THEN Same("sent") ELSE Lost("sent")
  BY <1>1, <1>2, EraseEffect DEF Managers
<1> QED
  BY <1>3 DEF kept

LEMMA EraseHeardEffect ==
  ASSUME RecordsType, ThreadType, GhostType, EraseHeard
  PROVE  /\ Same("sent")
         /\ IF disposing \/ heard'.repeated
              THEN Same("received") /\ thread'[Listener].at = "Idle"
              ELSE Lost("received") /\ thread'[Listener].at = "InsertHeard"
<1> DEFINE repeated == Equal(Listener, "received") /\ info[packets["received"]].age < Repeat
           kept == disposing \/ repeated
<1>1. kept \in BOOLEAN /\ repeated \in BOOLEAN
  BY DEF GhostType, Equal
<1>2. Erase("received", kept) /\ heard' = [heard EXCEPT !.repeated = repeated]
  BY DEF EraseHeard
<1> HIDE DEF repeated
<1>3. kept <=> disposing \/ heard'.repeated
  BY <1>1, <1>2 DEF GhostType
<1>4. thread' = [thread EXCEPT ![Listener] = IF kept THEN Idle ELSE [@ EXCEPT !.at = "InsertHeard"]]
  BY DEF EraseHeard, repeated
<1> HIDE DEF kept
<1>5. Same("sent") /\ IF kept THEN Same("received") ELSE Lost("received")
  BY <1>1, <1>2, EraseEffect DEF Managers
<1>6. thread'[Listener].at = IF kept THEN "Idle" ELSE "InsertHeard"
  BY <1>1, <1>4, TransmissionAssumption DEF ThreadType, ThreadRecord, Idle
<1> QED
  BY <1>3, <1>5, <1>6

LEMMA InsertSentEffect ==
  ASSUME RecordsType, NEW t \in Threads, InsertSent(t)
  PROVE  /\ Same("received")
         /\ IF packets["sent"] = None THEN Made("sent", thread[t].packet) ELSE Same("sent")
<1>1. Insert(t, "sent")
  BY DEF InsertSent
<1> QED
  BY <1>1, InsertEffect DEF Managers

LEMMA InsertHeardEffect ==
  ASSUME RecordsType, InsertHeard
  PROVE  /\ Same("sent")
         /\ \/ packets["received"] = None /\ \E p : Made("received", p)
            \/ packets["received"] # None /\ Same("received")
<1>1. Insert(Listener, "received")
  BY DEF InsertHeard
<1> QED
  BY <1>1, InsertEffect, TransmissionAssumption DEF Managers

LEMMA WorkingEffect ==
  ASSUME RecordsType, NEW m \in Managers, Working(m)
  PROVE  \A n \in Managers : Same(n) \/ (Lost(n) /\ info[packets[n]].age > Keep)
<1>1. CASE Pick(m)
  BY <1>1 DEF Pick, Same
<1> QED
  BY <1>1, DeleteEffect DEF Working

LEMMA WaitEffect ==
  ASSUME RecordsType, ThreadType, NEW t \in Threads, Wait(t)
  PROVE  /\ packets' = packets
         /\ \A m \in Managers :
               Same(m) \/ (packets[m] = thread[t].old /\ \E age \in Int : age <= info[packets[m]].age /\ Aged(m, age))
<1> DEFINE old == thread[t].old
           left == IF old # None /\ info[old].age < Delay THEN Delay - info[old].age ELSE 0
           new == IF old = None THEN info ELSE [info EXCEPT ![old].age = @ - left]
<1>1. Objects(new) /\ packets' = packets
  BY DEF Wait
<1>2. ASSUME NEW m \in Managers, packets[m] # None
      PROVE  Same(m) \/ (packets[m] = old /\ \E age \in Int : age <= info[packets[m]].age /\ Aged(m, age))
  <2>1. packets[m] \in Ids /\ info'[packets[m]] = new[packets[m]]
    <3> HIDE DEF new
    <3> QED
      BY <1>1, <1>2, ObjectsKeep DEF RecordsType, IdOrNone
  <2>2. CASE packets[m] # old
    <3>1. new[packets[m]] = info[packets[m]]
      BY <2>1, <2>2 DEF RecordsType
    <3> QED
      BY <1>1, <2>1, <3>1 DEF Same
  <2>3. CASE packets[m] = old
    <3>1. info[old] \in [packet : Packets, age : Int]
      BY <2>1, <2>3 DEF RecordsType
    <3>2. left \in Nat
      BY <3>1, TransmissionAssumption
    <3> HIDE DEF left
    <3>3. new[old] = [info[old] EXCEPT !.age = @ - left]
      BY <1>2, <2>1, <2>3 DEF RecordsType
    <3> HIDE DEF new, old
    <3>4. info'[packets[m]].packet = info[packets[m]].packet
      BY <2>1, <2>3, <3>1, <3>3
    <3>5. info'[packets[m]].age = info[packets[m]].age - left
      BY <2>1, <2>3, <3>1, <3>3
    <3>6. \A a \in Int : \A n \in Nat : a - n \in Int /\ a - n <= a
      OBVIOUS
    <3>7. info[packets[m]].age \in Int
      BY <2>3, <3>1
    <3>8. Aged(m, info[packets[m]].age - left)
      BY <3>4, <3>5 DEF Aged
    <3> QED
      BY <2>3, <3>2, <3>6, <3>7, <3>8
  <2> QED
    BY <2>2, <2>3
<1> QED
  BY <1>1, <1>2 DEF Same

LEMMA AnswerEffect ==
  ASSUME RecordsType, Apart, NEW t \in Threads, Answer(t)
  PROVE  packets' = packets /\ Same("received") /\ (Same("sent") \/ Aged("sent", 0))
<1> DEFINE alive == Found("sent")
<1>1. /\ packets' = packets
      /\ info' = info \/ (alive # None /\ info' = [info EXCEPT ![alive].age = 0])
  BY DEF Answer, AnswerAfter
<1>2. alive # None => alive = packets["sent"] /\ alive # packets["received"]
  BY DEF Found, Apart
<1>3. packets["sent"] \in IdOrNone /\ packets["received"] \in IdOrNone
  BY DEF RecordsType, Managers
<1> HIDE DEF alive
<1> QED
  BY <1>1, <1>2, <1>3 DEF RecordsType, IdOrNone, Same, Aged

LEMMA TransmitEffect ==
  ASSUME RecordsType, NEW t \in Threads, Transmit(t)
  PROVE  /\ packets' = packets
         /\ \A m \in Managers :
               IF packets[m] = thread[t].old THEN Aged(m, 0) ELSE Same(m)
<1> DEFINE old == thread[t].old
           new == IF old # None THEN [info EXCEPT ![old].age = 0] ELSE info
<1>1. Objects(new) /\ packets' = packets
  BY DEF Transmit, TransmitStamping
<1>2. ASSUME NEW m \in Managers, packets[m] # None
      PROVE  IF packets[m] = old THEN Aged(m, 0) ELSE Same(m)
  <2>1. packets[m] \in Ids /\ info'[packets[m]] = new[packets[m]]
    <3> HIDE DEF new
    <3> QED
      BY <1>1, <1>2, ObjectsKeep DEF RecordsType, IdOrNone
  <2> QED
    BY <1>1, <1>2, <2>1 DEF RecordsType, Same, Aged
<1> QED
  BY <1>1, <1>2 DEF Same, Aged

LEMMA TickEffect ==
  ASSUME RecordsType, Tick
  PROVE  /\ packets' = packets
         /\ \A m \in Managers : Aged(m, Older(info[packets[m]].age, Keep + 1))
<1>1. packets' = packets
  BY DEF Tick
<1>2. ASSUME NEW m \in Managers, packets[m] # None PROVE Aged(m, Older(info[packets[m]].age, Keep + 1))
  <2>1. packets[m] \in Ids /\ packets[m] \in Known
    BY <1>2 DEF RecordsType, IdOrNone, Known
  <2>2. info'[packets[m]] = [info[packets[m]] EXCEPT !.age = Older(@, Keep + 1)]
    BY <2>1 DEF Tick
  <2> QED
    BY <2>1, <2>2 DEF RecordsType, Aged
<1> QED
  BY <1>1, <1>2 DEF Aged

-----------------------------------------------------------------------------
(* A call that is alone                                                      *)

\* What the steps of sendPacket do to their thread.
LEMMA CallStep ==
  ASSUME ThreadType, NEW t \in Threads, Look(t) \/ EraseSent(t) \/ InsertSent(t) \/ Wait(t) \/ Answer(t)
  PROVE  /\ thread[t].at \in SendLabels \ {"Idle"} /\ thread'[t].at \in SendLabels \ {"Idle"}
         /\ thread'[t].alone = thread[t].alone /\ thread'[t].packet = thread[t].packet
         /\ \A u \in Threads \ {t} : thread'[u] = thread[u]
<1>1. CASE Look(t)
  BY <1>1 DEF Look, At, ThreadType, ThreadRecord, SendLabels
<1>2. CASE EraseSent(t)
  BY <1>2 DEF EraseSent, Goes, At, ThreadType, ThreadRecord, SendLabels
<1>3. CASE InsertSent(t)
  BY <1>3 DEF InsertSent, Goes, At, ThreadType, ThreadRecord, SendLabels
<1>4. CASE Wait(t)
  BY <1>4 DEF Wait, At, ThreadType, ThreadRecord, SendLabels
<1>5. CASE Answer(t)
  BY <1>5 DEF Answer, AnswerAfter, At, ThreadType, ThreadRecord, SendLabels
<1> QED
  BY <1>1, <1>2, <1>3, <1>4, <1>5

\* A new call, or a packet that comes in.
LEMMA DisturbStep ==
  ASSUME ThreadType, NEW t \in Threads, NEW r \in ThreadRecord, Disturb(t, r)
  PROVE  /\ thread'[t] = r
         /\ \A u \in Threads \ {t} : /\ thread'[u].at = thread[u].at
                                     /\ thread'[u].old = thread[u].old
                                     /\ u \in Busy => ~thread'[u].alone
  BY DEF Disturb, ThreadType, ThreadRecord

LEMMA CallDisturbs ==
  ASSUME ThreadType, NEW t \in Threads, NEW p \in Sendable[t], SendPacket(t, p)
  PROVE  \E r \in ThreadRecord : /\ r.at = "Look" /\ r.packet = p /\ (r.alone => Busy = {})
                                 /\ Disturb(t, r)
<1> DEFINE r == [at |-> "Look", packet |-> p, old |-> None, left |-> 0, alone |-> Busy = {}]
<1>1. Disturb(t, r)
  BY DEF SendPacket
<1>2. p \in Packets
  <2>1. p \in ToSend
    BY DEF ToSend
  <2> QED
    BY <2>1 DEF Packets
<1>3. (Busy = {}) \in BOOLEAN
  OBVIOUS
<1>4. r \in ThreadRecord /\ r.at = "Look" /\ r.packet = p /\ (r.alone => Busy = {})
  BY <1>2, <1>3 DEF ThreadRecord, SendLabels, IdOrNone
<1> HIDE DEF r
<1> QED
  BY <1>1, <1>4

LEMMA HearDisturbs ==
  ASSUME ThreadType, NEW p \in Heard, Hear(p)
  PROVE  \E r \in ThreadRecord : r.at = "Heard" /\ Disturb(Listener, r)
<1> DEFINE r == [Idle EXCEPT !.at = "Heard", !.packet = p]
<1>1. p \in Packets
  BY DEF Packets
<1>2. Idle \in ThreadRecord
  BY NoInfoType DEF ThreadRecord, Idle, SendLabels, IdOrNone
<1>3. r \in ThreadRecord /\ r.at = "Heard"
  BY <1>1, <1>2 DEF ThreadRecord, ListenLabels
<1>4. Disturb(Listener, r)
  BY DEF Hear
<1> HIDE DEF r
<1> QED
  BY <1>3, <1>4

\* The listener leaves the sending threads alone.
LEMMA ReceivingStep ==
  ASSUME ThreadType, Receiving
  PROVE  /\ thread[Listener].at \in ListenLabels
         /\ thread'[Listener].at \in {"Idle", "InsertHeard"}
         /\ \A t \in Threads \ {Listener} : thread'[t] = thread[t]
  BY TransmissionAssumption
     DEF Receiving, EraseHeard, InsertHeard, At, ThreadType, ThreadRecord, ListenLabels, Idle

LEMMA TickStep ==
  ASSUME ThreadType, Tick
  PROVE  /\ Busy' = Busy
         /\ \A t \in Threads : /\ thread'[t].at = thread[t].at
                               /\ t \in Busy => /\ thread[t].left > 0
                                                /\ thread'[t] = [thread[t] EXCEPT !.left = @ - 1]
<1>1. \A t \in Threads : /\ thread'[t].at = thread[t].at
                         /\ t \in Busy => /\ thread[t].left > 0
                                          /\ thread'[t] = [thread[t] EXCEPT !.left = @ - 1]
  BY DEF Tick, ThreadType, ThreadRecord, Busy, Idle
<1>2. \A t \in Threads : thread'[t].at = thread[t].at
  BY <1>1
<1>3. Busy' = Busy
  BY ONLY <1>2 DEF Busy
<1> QED
  BY <1>1, <1>3

LEMMA NextSole ==
  ASSUME ThreadType, Sole, [Next]_vars
  PROVE  Sole'
<1> USE DEF Sole
<1>1. ASSUME NEW t \in Threads, Call(t) PROVE Sole'
  <2>1. PICK p \in Sendable[t] : SendPacket(t, p)
    BY <1>1 DEF Call
  <2>2. PICK r \in ThreadRecord : r.at = "Look" /\ (r.alone => Busy = {}) /\ Disturb(t, r)
    BY <2>1, CallDisturbs
  <2> QED
    BY <2>2, DisturbStep DEF Sender, Busy
<1>2. ASSUME NEW p \in Heard, Hear(p) PROVE Sole'
  <2>1. PICK r \in ThreadRecord : r.at = "Heard" /\ Disturb(Listener, r)
    BY <1>2, HearDisturbs
  <2> QED
    BY <2>1, DisturbStep, TransmissionAssumption DEF Sender, Busy, ListenLabels
<1>3. ASSUME NEW t \in Threads, Look(t) \/ EraseSent(t) \/ InsertSent(t) \/ Wait(t) \/ Answer(t)
      PROVE  Sole'
  <2>1. Busy' = Busy /\ \A u \in Threads : Sender(u)' => Sender(u)
    BY <1>3, CallStep DEF Sender, Busy, SendLabels, ListenLabels
  <2> QED
    BY <2>1
<1>4. ASSUME NEW t \in Threads, Transmit(t) PROVE Sole'
  <2>1. t \in Busy /\ t \notin Busy' /\ \A u \in Threads \ {t} : thread'[u] = thread[u]
    BY <1>4 DEF Transmit, TransmitStamping, At, Busy, Idle, ThreadType
  <2> QED
    BY <2>1 DEF Sender, Busy
<1>5. CASE Receiving
  BY <1>5, ReceivingStep, TransmissionAssumption DEF Sender, Busy, ListenLabels
<1>6. CASE Tick
  <2>1. Busy' = Busy
    BY <1>6, TickStep
  <2>2. ASSUME NEW t \in Threads, Sender(t)' PROVE Sender(t)
    <3>1. t \in Busy
      BY <2>1, <2>2 DEF Sender
    <3>2. thread'[t] = [thread[t] EXCEPT !.left = @ - 1]
      BY <1>6, <3>1, TickStep
    <3> QED
      BY <2>2, <3>1, <3>2 DEF Sender, ThreadType, ThreadRecord
  <2> QED
    BY <2>1, <2>2
<1>7. CASE (\E m \in Managers : Working(m)) \/ Dispose \/ UNCHANGED vars
  BY <1>7 DEF Working, Pick, Delete, DeleteOlder, Dispose, vars, Sender, Busy
<1> QED
  BY <1>1, <1>2, <1>3, <1>4, <1>5, <1>6, <1>7 DEF Next, Sending

-----------------------------------------------------------------------------
(* The times of the records                                                  *)

\* A step that touches neither the managers nor a record.
LEMMA QuietStep ==
  ASSUME packets' = packets, info' = info
  PROVE  \A m \in Managers : Same(m)
  BY DEF Same

LEMMA NextYoung ==
  ASSUME Types, Types', Apart, Young, [Next]_vars
  PROVE  Young'
<1> USE DEF Young, Types
<1>0. "sent" \in Managers
  BY DEF Managers
<1>1. ASSUME Same("sent") \/ Lost("sent"), since' = since PROVE Young'
  BY <1>1 DEF Same, Lost
<1>2. ASSUME Aged("sent", 0), packets' = packets PROVE Young'
  BY <1>2 DEF Aged, GhostType
<1>3. ASSUME NEW t \in Threads, Call(t) \/ Look(t) PROVE Young'
  BY <1>0, <1>1, <1>3, QuietStep DEF Call, SendPacket, Look, ghosts
<1>4. ASSUME NEW t \in Threads, EraseSent(t) PROVE Young'
  BY <1>1, <1>4, EraseSentEffect DEF EraseSent, ghosts
<1>5. ASSUME NEW t \in Threads, InsertSent(t) PROVE Young'
  <2>1. since' = IF packets["sent"] = None THEN 0 ELSE since
    BY <1>5 DEF InsertSent
  <2>2. CASE packets["sent"] = None
    <3>1. Made("sent", thread[t].packet)
      BY <1>5, <2>2, InsertSentEffect
    <3> QED
      BY <2>1, <2>2, <3>1 DEF Made
  <2>3. CASE packets["sent"] # None
    BY <1>1, <1>5, <2>1, <2>3, InsertSentEffect
  <2> QED
    BY <2>2, <2>3
<1>6. ASSUME NEW t \in Threads, Wait(t) PROVE Young'
  <2>1. since' = since /\ packets' = packets
    BY <1>6 DEF Wait, ghosts
  <2>2. CASE Same("sent")
    BY <1>1, <2>1, <2>2
  <2>3. ASSUME NEW age \in Int, age <= info[packets["sent"]].age, Aged("sent", age) PROVE Young'
    <3>1. CASE packets["sent"] # None
      <4>1. info[packets["sent"]].age \in Int /\ info[packets["sent"]].age <= since
        BY <1>0, <3>1 DEF RecordsType, IdOrNone
      <4>2. info'[packets'["sent"]].age = age
        BY <2>1, <2>3, <3>1 DEF Aged
      <4>3. since \in Int
        BY DEF GhostType
      <4>4. \A a, b, c \in Int : a <= b /\ b <= c => a <= c
        OBVIOUS
      <4> QED
        BY <2>1, <2>3, <4>1, <4>2, <4>3, <4>4
    <3> QED
      BY <2>1, <3>1
  <2> QED
    BY <1>0, <1>6, <2>2, <2>3, WaitEffect
<1>7. ASSUME NEW t \in Threads, Answer(t) PROVE Young'
  <2>1. since' = since
    BY <1>7 DEF Answer, AnswerAfter, ghosts
  <2> QED
    BY <1>1, <1>2, <1>7, <2>1, AnswerEffect
<1>8. ASSUME NEW t \in Threads, Transmit(t) PROVE Young'
  <2>1. since' = since
    BY <1>8 DEF Transmit, TransmitStamping
  <2> QED
    BY <1>0, <1>1, <1>2, <1>8, <2>1, TransmitEffect
<1>9. CASE Receiving
  BY <1>1, <1>9, EraseHeardEffect, InsertHeardEffect DEF Receiving, EraseHeard, InsertHeard, ghosts
<1>10. ASSUME NEW m \in Managers, Working(m) PROVE Young'
  BY <1>0, <1>1, <1>10, WorkingEffect DEF Working, Pick, Delete, DeleteOlder, ghosts
<1>11. CASE Tick
  <2>1. packets' = packets /\ Aged("sent", Older(info[packets["sent"]].age, Keep + 1))
    BY <1>0, <1>11, TickEffect
  <2>2. since' = Older(since, Keep + 1)
    BY <1>11 DEF Tick
  <2>3. CASE packets["sent"] # None
    <3>1. info[packets["sent"]].age \in Int /\ info[packets["sent"]].age <= since
      BY <1>0, <2>3 DEF RecordsType, IdOrNone
    <3>2. since \in Int /\ since <= Keep + 1 /\ Keep + 1 \in Nat
      BY TransmissionAssumption DEF GhostType
    <3> QED
      BY <2>1, <2>2, <2>3, <3>1, <3>2, OlderMonotone DEF Aged
  <2> QED
    BY <2>1, <2>3
<1>12. CASE (\E p \in Heard : Hear(p)) \/ Dispose \/ UNCHANGED vars
  BY <1>0, <1>1, <1>12, QuietStep DEF Hear, Dispose, vars, ghosts
<1> QED
  BY <1>3, <1>4, <1>5, <1>6, <1>7, <1>8, <1>9, <1>10, <1>11, <1>12 DEF Next, Sending

\* A step keeps the two managers apart, and the calls' records from the packet heard.
LEMMA NextApart ==
  ASSUME Types, Apart, [Next]_vars
  PROVE  Apart'
<1> USE DEF Types
<1>0. Managers = {"sent", "received"}
  BY DEF Managers
<1>a. packets["received"] \in Known /\ packets["sent"] \in Known /\ \A t \in Threads : thread[t].old \in Known
  BY <1>0 DEF Known
<1>1. ASSUME NEW t \in Threads, Call(t) PROVE Apart'
  <2>1. PICK p \in Sendable[t] : SendPacket(t, p)
    BY <1>1 DEF Call
  <2>2. PICK r \in ThreadRecord : r.at = "Look" /\ Disturb(t, r)
    BY <2>1, CallDisturbs
  <2>3. packets' = packets
    BY <2>1 DEF SendPacket
  <2> QED
    BY <2>2, <2>3, DisturbStep DEF Apart
<1>2. ASSUME NEW p \in Heard, Hear(p) PROVE Apart'
  <2>1. PICK r \in ThreadRecord : r.at = "Heard" /\ Disturb(Listener, r)
    BY <1>2, HearDisturbs
  <2>2. packets' = packets
    BY <1>2 DEF Hear
  <2> QED
    BY <2>1, <2>2, DisturbStep, TransmissionAssumption DEF Apart
<1>3. ASSUME NEW t \in Threads, Look(t) PROVE Apart'
  <2>1. /\ packets' = packets /\ thread'[t].old = Found("sent")
        /\ \A u \in Threads \ {t} : thread'[u] = thread[u]
    BY <1>3 DEF Look, ThreadType, ThreadRecord
  <2> QED
    BY <2>1 DEF Apart, Found
<1>4. ASSUME NEW t \in Threads, EraseSent(t) PROVE Apart'
  <2>1. /\ packets'["received"] = packets["received"] /\ packets'["sent"] \in {packets["sent"], None}
    BY <1>4, EraseSentEffect DEF Same, Lost
  <2>2. /\ thread[t].at = "Erase" /\ thread'[t].old = thread[t].old
        /\ \A u \in Threads \ {t} : thread'[u] = thread[u]
    BY <1>4 DEF EraseSent, Goes, At, ThreadType, ThreadRecord
  <2> QED
    BY <2>1, <2>2 DEF Apart
<1>5. ASSUME NEW t \in Threads, InsertSent(t) PROVE Apart'
  <2>1. /\ packets'["received"] = packets["received"]
        /\ packets'["sent"] = packets["sent"] \/ packets'["sent"] \notin Known
    BY <1>5, InsertSentEffect DEF Same, Made
  <2>2. /\ thread[t].at = "Insert" /\ thread'[t].old = thread[t].old
        /\ \A u \in Threads \ {t} : thread'[u] = thread[u]
    BY <1>5 DEF InsertSent, Goes, At, ThreadType, ThreadRecord
  <2> QED
    BY <1>a, <2>1, <2>2 DEF Apart
<1>6. ASSUME NEW t \in Threads, Wait(t) \/ Answer(t) \/ Transmit(t) PROVE Apart'
  <2>1. /\ packets' = packets
        /\ thread'[t].at \in {"Answer", "Air", "Idle"}
        /\ \A u \in Threads \ {t} : thread'[u] = thread[u]
    BY <1>6 DEF Wait, Answer, AnswerAfter, Transmit, TransmitStamping, Idle, ThreadType, ThreadRecord
  <2> QED
    BY <2>1 DEF Apart
<1>7. CASE EraseHeard
  <2>1. /\ packets'["sent"] = packets["sent"] /\ packets'["received"] \in {packets["received"], None}
    BY <1>7, EraseHeardEffect DEF Same, Lost
  <2> QED
    BY <1>7, <2>1, ReceivingStep DEF Apart, Receiving
<1>8. CASE InsertHeard
  <2>1. /\ packets'["sent"] = packets["sent"]
        /\ packets'["received"] = packets["received"] \/ packets'["received"] \notin Known
    BY <1>8, InsertHeardEffect DEF Same, Made
  <2> QED
    BY <1>8, <1>a, <2>1, ReceivingStep DEF Apart, Receiving
<1>9. ASSUME NEW m \in Managers, Working(m) PROVE Apart'
  <2>1. /\ packets'["sent"] \in {packets["sent"], None}
        /\ packets'["received"] \in {packets["received"], None}
    BY <1>0, <1>9, WorkingEffect DEF Same, Lost
  <2>2. thread' = thread
    BY <1>9 DEF Working, Pick, Delete, DeleteOlder
  <2> QED
    BY <2>1, <2>2 DEF Apart
<1>10. CASE Tick
  <2>1. packets' = packets
    BY <1>10 DEF Tick
  <2>2. ASSUME NEW t \in Threads PROVE thread'[t].at = thread[t].at /\ (t \in Busy => thread'[t].old = thread[t].old)
    BY <1>10, TickStep DEF ThreadType, ThreadRecord
  <2> QED
    BY <2>1, <2>2 DEF Apart, Busy
<1>11. CASE Dispose \/ UNCHANGED vars
  BY <1>11 DEF Dispose, vars, Apart
<1> QED
  BY <1>1, <1>2, <1>3, <1>4, <1>5, <1>6, <1>7, <1>8, <1>9, <1>10, <1>11 DEF Next, Sending, Receiving

LEMMA NextPast ==
  ASSUME Types, Apart, Past, [Next]_vars
  PROVE  Past'
<1> USE DEF Past, Types
<1>0. "received" \in Managers
  BY DEF Managers
<1>1. ASSUME Same("received") \/ Lost("received") PROVE Past'
  BY <1>1 DEF Same, Lost
<1>2. ASSUME Aged("received", 0), packets' = packets PROVE Past'
  BY <1>2 DEF Aged
<1>3. ASSUME NEW t \in Threads, Call(t) \/ Look(t) PROVE Past'
  BY <1>0, <1>1, <1>3, QuietStep DEF Call, SendPacket, Look
<1>4. ASSUME NEW t \in Threads, EraseSent(t) \/ InsertSent(t) \/ Answer(t) PROVE Past'
  BY <1>1, <1>4, EraseSentEffect, InsertSentEffect, AnswerEffect
<1>5. ASSUME NEW t \in Threads, Wait(t) PROVE Past'
  <2>1. thread[t].at = "Wait"
    BY <1>5 DEF Wait, At
  <2>2. packets["received"] # None => Same("received")
    BY <1>0, <1>5, <2>1, WaitEffect DEF Apart
  <2>3. packets' = packets
    BY <1>5 DEF Wait
  <2> QED
    BY <1>1, <2>2, <2>3
<1>6. ASSUME NEW t \in Threads, Transmit(t) PROVE Past'
  BY <1>0, <1>1, <1>2, <1>6, TransmitEffect
<1>7. CASE EraseHeard
  BY <1>1, <1>7, EraseHeardEffect
<1>8. CASE InsertHeard
  <2>1. ASSUME NEW p, Made("received", p) PROVE Past'
    BY <2>1 DEF Made
  <2> QED
    BY <1>1, <1>8, <2>1, InsertHeardEffect
<1>9. ASSUME NEW m \in Managers, Working(m) PROVE Past'
  BY <1>0, <1>1, <1>9, WorkingEffect
<1>10. CASE Tick
  <2>1. packets' = packets /\ Aged("received", Older(info[packets["received"]].age, Keep + 1))
    BY <1>0, <1>10, TickEffect
  <2>2. CASE packets["received"] # None
    <3>1. info[packets["received"]].age \in Int /\ info[packets["received"]].age >= 0
      BY <1>0, <2>2 DEF RecordsType, IdOrNone
    <3> QED
      BY <2>1, <2>2, <3>1 DEF Aged, Older
  <2> QED
    BY <2>1, <2>2
<1>11. CASE (\E p \in Heard : Hear(p)) \/ Dispose \/ UNCHANGED vars
  BY <1>0, <1>1, <1>11, QuietStep DEF Hear, Dispose, vars
<1> QED
  BY <1>3, <1>4, <1>5, <1>6, <1>7, <1>8, <1>9, <1>10, <1>11 DEF Next, Sending, Receiving

-----------------------------------------------------------------------------
(* What a call that is alone finds                                           *)

\* It was so before, or this is the first step of the call.
LEMMA StaysAlone ==
  ASSUME Types, Sole, [Next]_vars, NEW u \in Threads, Sender(u)'
  PROVE  \/ thread'[u].at = "Look" /\ ((\E t \in Threads : Call(t)) \/ UNCHANGED vars)
         \/ /\ Sender(u) /\ thread'[u].packet = thread[u].packet
            /\ \/ Look(u) \/ EraseSent(u) \/ InsertSent(u) \/ Wait(u) \/ Answer(u) \/ Tick
               \/ (thread' = thread /\ (Dispose \/ (\E m \in Managers : Working(m)) \/ UNCHANGED vars))
<1> USE DEF Types, Sole
<1>1. ASSUME NEW t \in Threads, Call(t) PROVE thread'[u].at = "Look"
  <2>1. PICK p \in Sendable[t] : SendPacket(t, p)
    BY <1>1 DEF Call
  <2>2. PICK r \in ThreadRecord : r.at = "Look" /\ Disturb(t, r)
    BY <2>1, CallDisturbs
  <2> QED
    BY <2>2, DisturbStep DEF Sender, Busy
<1>2. ASSUME NEW p \in Heard, Hear(p) PROVE FALSE
  <2>1. PICK r \in ThreadRecord : r.at = "Heard" /\ Disturb(Listener, r)
    BY <1>2, HearDisturbs
  <2> QED
    BY <2>1, DisturbStep, TransmissionAssumption DEF Sender, Busy, ListenLabels
<1>3. ASSUME NEW t \in Threads, Look(t) \/ EraseSent(t) \/ InsertSent(t) \/ Wait(t) \/ Answer(t)
      PROVE  Sender(u) /\ t = u /\ thread'[u].packet = thread[u].packet
  <2>1. Sender(u) /\ t \in Busy
    BY <1>3, CallStep DEF Sender, Busy, SendLabels, ListenLabels
  <2> QED
    BY <1>3, <2>1, CallStep
<1>4. ASSUME NEW t \in Threads, Transmit(t) PROVE FALSE
  <2>1. t \in Busy /\ t \notin Busy' /\ \A v \in Threads \ {t} : thread'[v] = thread[v]
    BY <1>4 DEF Transmit, TransmitStamping, At, Busy, Idle, ThreadType
  <2> QED
    BY <2>1 DEF Sender, Busy
<1>5. CASE Receiving
  <2>1. u # Listener
    BY <1>5, ReceivingStep DEF Sender, Busy, ListenLabels
  <2>2. Sender(u) /\ Listener \in Busy
    BY <1>5, <2>1, ReceivingStep, TransmissionAssumption DEF Sender, Busy, ListenLabels
  <2> QED
    BY <2>1, <2>2
<1>6. CASE Tick
  <2>1. Busy' = Busy
    BY <1>6, TickStep
  <2>2. u \in Busy
    BY <2>1 DEF Sender
  <2>3. thread'[u] = [thread[u] EXCEPT !.left = @ - 1]
    BY <1>6, <2>2, TickStep
  <2> QED
    BY <1>6, <2>2, <2>3 DEF Sender, ThreadType, ThreadRecord
<1>7. ASSUME thread' = thread PROVE Sender(u) /\ thread'[u].packet = thread[u].packet
  BY <1>7 DEF Sender, Busy
<1>8. CASE (\E m \in Managers : Working(m)) \/ Dispose \/ UNCHANGED vars
  <2>1. thread' = thread
    BY <1>8 DEF Working, Pick, Delete, DeleteOlder, Dispose, vars
  <2> QED
    BY <1>7, <1>8, <2>1
<1> QED
  BY <1>1, <1>2, <1>3, <1>4, <1>5, <1>6, <1>8 DEF Next, Sending

LEMMA HoldsOn ==
  ASSUME NEW p, Holds(p), Same("sent") \/ (packets' = packets /\ \E age : Aged("sent", age))
  PROVE  Holds(p)'
  BY DEF Holds, Same, Aged

\* A young packet is not deleted.
LEMMA YoungStays ==
  ASSUME RecordsType, GhostType, Young, NEW m \in Managers, Working(m), packets["sent"] # None, since <= Keep
  PROVE  Same("sent")
<1>1. "sent" \in Managers
  BY DEF Managers
<1>2. info[packets["sent"]].age \in Int /\ since \in Int /\ Keep \in Int
  BY <1>1, TransmissionAssumption DEF RecordsType, GhostType, IdOrNone
<1>3. ~(info[packets["sent"]].age > Keep)
  BY <1>2 DEF Young
<1> QED
  BY <1>1, <1>3, WorkingEffect

LEMMA NextMine ==
  ASSUME Types, Types', Sole, Young, Apart, Mine, [Next]_vars
  PROVE  Mine'
<1> USE DEF Types
<1> SUFFICES ASSUME NEW u \in Threads, Sender(u)', ~disposing', NEW p, p = thread'[u].packet
             PROVE  OwnSent(u, p)'
  BY DEF Mine
<1>0. "sent" \in Managers
  BY DEF Managers
<1>1. CASE thread'[u].at = "Look"
  BY <1>1 DEF OwnSent
<1>2. ASSUME thread'[u].at # "Look" PROVE Sender(u) /\ p = thread[u].packet
  BY <1>2, StaysAlone
<1>3. ASSUME Sender(u), p = thread[u].packet, ~disposing PROVE OwnSent(u, p)
  BY <1>3 DEF Mine
<1>4. CASE Look(u)
  BY <1>4 DEF Look, OwnSent, ThreadType, ThreadRecord
<1>5. CASE EraseSent(u)
  <2>1. ~disposing /\ p = thread[u].packet
    BY <1>5, CallStep DEF EraseSent
  <2>2. IF Equal(u, "sent") THEN Same("sent") ELSE Lost("sent")
    BY <1>5, <2>1, EraseSentEffect
  <2>3. thread'[u].at = IF Equal(u, "sent") THEN "Wait" ELSE "Insert"
    BY <1>5, <2>1 DEF EraseSent, Goes, ThreadType, ThreadRecord
  <2>4. CASE Equal(u, "sent")
    <3>1. Holds(p)'
      BY <2>1, <2>2, <2>4, HoldsOn DEF Equal, Holds
    <3> QED
      BY <2>3, <2>4, <3>1 DEF OwnSent
  <2>5. CASE ~Equal(u, "sent")
    BY <2>2, <2>3, <2>5 DEF OwnSent, Lost
  <2> QED
    BY <2>4, <2>5
<1>6. CASE InsertSent(u)
  <2>1. ~disposing /\ thread[u].at = "Insert" /\ thread'[u].at = "Wait"
    BY <1>6 DEF InsertSent, Goes, At, ThreadType, ThreadRecord
  <2>2. packets["sent"] = None
    BY <1>2, <1>3, <2>1 DEF OwnSent
  <2>3. Made("sent", p)
    BY <1>2, <1>6, <2>1, <2>2, InsertSentEffect
  <2>4. Holds(p)'
    BY <2>3, NoneIsNoId DEF Made, Holds
  <2> QED
    BY <2>1, <2>4 DEF OwnSent
<1>7. ASSUME Sender(u), p = thread[u].packet, ~disposing, thread'[u].at \in {"Answer", "Air"},
             thread[u].at \in {"Wait", "Answer"}, since' = since,
             Same("sent") \/ (packets' = packets /\ \E age : Aged("sent", age))
      PROVE  OwnSent(u, p)'
  BY <1>3, <1>7, HoldsOn DEF OwnSent
<1>8. CASE Wait(u)
  <2>1. /\ thread[u].at = "Wait" /\ thread'[u].at = "Answer" /\ since' = since /\ ~disposing
    BY <1>8 DEF Wait, At, ghosts, ThreadType, ThreadRecord
  <2> QED
    BY <1>0, <1>2, <1>7, <1>8, <2>1, WaitEffect
<1>9. CASE Answer(u)
  <2>1. /\ thread[u].at = "Answer" /\ thread'[u].at = "Air" /\ since' = since /\ ~disposing
    BY <1>9 DEF Answer, AnswerAfter, At, ghosts, ThreadType, ThreadRecord
  <2> QED
    BY <1>2, <1>7, <1>9, <2>1, AnswerEffect
<1>10. CASE Tick /\ thread'[u].at # "Look"
  <2>1. OwnSent(u, p) /\ thread'[u].at = thread[u].at
    BY <1>2, <1>3, <1>10, TickStep DEF Tick
  <2>2. since' = Older(since, Keep + 1)
    BY <1>10 DEF Tick
  <2>3. since' <= Keep => since <= Keep
    BY <2>2, TransmissionAssumption DEF GhostType, Older
  <2>4. packets' = packets /\ \E age : Aged("sent", age)
    BY <1>0, <1>10, TickEffect
  <2>5. Holds(p) => Holds(p)'
    BY <2>4, HoldsOn
  <2> QED
    BY <2>1, <2>3, <2>4, <2>5 DEF OwnSent
<1>11. ASSUME NEW m \in Managers, Working(m), thread' = thread, thread'[u].at # "Look" PROVE OwnSent(u, p)'
  <2>1. since' = since /\ disposing' = disposing
    BY <1>11 DEF Working, Pick, Delete, DeleteOlder, ghosts
  <2>2. OwnSent(u, p)
    BY <1>2, <1>3, <1>11, <2>1
  <2>3. Same("sent") \/ Lost("sent")
    BY <1>0, <1>11, WorkingEffect
  <2>4. packets["sent"] = None => packets'["sent"] = None
    BY <2>3 DEF Same, Lost
  <2>5. Holds(p) /\ since <= Keep => Holds(p)'
    BY <1>11, YoungStays, HoldsOn DEF Holds
  <2> QED
    BY <1>11, <2>1, <2>2, <2>4, <2>5 DEF OwnSent
<1>12. CASE UNCHANGED vars /\ thread'[u].at # "Look"
  BY <1>2, <1>3, <1>12 DEF vars, OwnSent, Holds
<1> QED
  BY <1>1, <1>4, <1>5, <1>6, <1>8, <1>9, <1>10, <1>11, <1>12, StaysAlone DEF Dispose

-----------------------------------------------------------------------------
(* What is known of the packet heard                                         *)

LEMMA ReceivedOn ==
  ASSUME NEW age \in Nat, Received(age),
         Same("received") \/ (packets' = packets /\ Aged("received", 0))
  PROVE  Received(age)'
  BY DEF Received, Same, Aged

\* The record ages with the time that passed since.
LEMMA ReceivedAges ==
  ASSUME RecordsType, Tick, NEW age \in Nat, Received(age)
  PROVE  Received(age + 1)'
<1>1. packets' = packets /\ Aged("received", Older(info[packets["received"]].age, Keep + 1))
  BY TickEffect DEF Managers
<1>2. info[packets["received"]].age \in Int
  BY DEF RecordsType, Received, IdOrNone, Managers
<1> QED
  BY <1>1, <1>2 DEF Received, Aged, Older

\* A step of sendPacket keeps what is known of it.
LEMMA CallKeepsReceived ==
  ASSUME Types, Apart, NEW t \in Threads,
         Look(t) \/ EraseSent(t) \/ InsertSent(t) \/ Wait(t) \/ Answer(t)
  PROVE  packets'["received"] = packets["received"] /\ (packets["received"] # None => Same("received"))
<1> USE DEF Types
<1>1. CASE Wait(t)
  <2>1. thread[t].at = "Wait" /\ packets' = packets
    BY <1>1 DEF Wait, At
  <2> QED
    BY <1>1, <2>1, WaitEffect DEF Apart, Managers
<1>2. CASE Look(t)
  BY <1>2 DEF Look, Same
<1>3. CASE EraseSent(t) \/ InsertSent(t) \/ Answer(t)
  BY <1>3, EraseSentEffect, InsertSentEffect, AnswerEffect DEF Same
<1> QED
  BY <1>1, <1>2, <1>3

LEMMA NextHearing ==
  ASSUME Types, Types', Apart, Hearing, [Next]_vars
  PROVE  Hearing'
<1> USE DEF Types
<1>0. Listener \in Threads /\ "received" \in Managers
  BY TransmissionAssumption DEF Managers
<1>a. heard.age \in Nat
  BY DEF GhostType
<1>1. ASSUME thread[Listener].at \notin ListenLabels, thread'[Listener].at \notin ListenLabels,
             heard' = heard, disposing' = disposing,
             packets["received"] # None => Same("received") \/ (packets' = packets /\ Aged("received", 0))
      PROVE  Hearing'
  <2>1. Received(heard.age) => Received(heard.age)'
    <3>1. PICK age \in Nat : age = heard.age
      BY <1>a
    <3>2. Received(age) => Received(age)'
      BY <1>1, ReceivedOn DEF Received
    <3> QED
      BY <1>1, <3>1, <3>2
  <2> QED
    BY <1>1, <2>1 DEF Hearing, ListenLabels
<1>2. ASSUME thread'[Listener].at = thread[Listener].at, heard' = heard, disposing' = disposing,
             packets'["received"] = packets["received"], packets["received"] # None => Same("received")
      PROVE  Hearing'
  <2>1. CASE thread[Listener].at \notin ListenLabels
    BY <1>1, <1>2, <2>1
  <2>2. CASE thread[Listener].at \in ListenLabels
    BY <1>2, <2>2 DEF Hearing
  <2> QED
    BY <2>1, <2>2
<1>3. ASSUME NEW t \in Threads, Call(t) PROVE Hearing'
  <2>1. PICK p \in Sendable[t] : SendPacket(t, p)
    BY <1>3 DEF Call
  <2>2. PICK r \in ThreadRecord : r.at = "Look" /\ Disturb(t, r)
    BY <2>1, CallDisturbs
  <2>3. heard' = heard /\ disposing' = disposing /\ packets' = packets /\ info' = info
    BY <2>1 DEF SendPacket
  <2>4. CASE t = Listener
    <3>1. thread[Listener].at = "Idle" /\ thread'[Listener].at = "Look"
      BY <1>0, <2>1, <2>2, <2>4, DisturbStep DEF SendPacket, At
    <3> QED
      BY <1>1, <2>3, <3>1 DEF ListenLabels, Same
  <2>5. CASE t # Listener
    <3>1. thread'[Listener].at = thread[Listener].at
      BY <1>0, <2>2, <2>5, DisturbStep
    <3> QED
      BY <1>2, <2>3, <3>1 DEF Same
  <2> QED
    BY <2>4, <2>5
<1>4. ASSUME NEW t \in Threads, Look(t) \/ EraseSent(t) \/ InsertSent(t) \/ Wait(t) \/ Answer(t)
      PROVE  Hearing'
  <2>1. heard' = heard /\ disposing' = disposing
    BY <1>4 DEF Look, EraseSent, InsertSent, Wait, Answer, AnswerAfter, ghosts
  <2>2. \/ thread'[Listener].at = thread[Listener].at
        \/ thread[Listener].at \notin ListenLabels /\ thread'[Listener].at \notin ListenLabels
    BY <1>0, <1>4, CallStep DEF ListenLabels, SendLabels
  <2> QED
    BY <1>1, <1>2, <1>4, <2>1, <2>2, CallKeepsReceived
<1>5. ASSUME NEW t \in Threads, Transmit(t) PROVE Hearing'
  <2>1. heard' = heard /\ disposing' = disposing
    BY <1>5 DEF Transmit, TransmitStamping
  <2>2. packets' = packets /\ (Same("received") \/ Aged("received", 0))
    BY <1>0, <1>5, TransmitEffect
  <2>3. \/ thread'[Listener].at = thread[Listener].at
        \/ thread[Listener].at \notin ListenLabels /\ thread'[Listener].at \notin ListenLabels
    BY <1>0, <1>5 DEF Transmit, TransmitStamping, At, Idle, ListenLabels, ThreadType
  <2>4. CASE thread[Listener].at \notin ListenLabels /\ thread'[Listener].at \notin ListenLabels
    BY <1>1, <2>1, <2>2, <2>4
  <2>5. CASE thread'[Listener].at = thread[Listener].at /\ thread[Listener].at \in ListenLabels
    BY <2>2, <2>5 DEF Hearing
  <2> QED
    BY <2>3, <2>4, <2>5
<1>6. ASSUME NEW p \in Heard, Hear(p) PROVE Hearing'
  <2>1. PICK r \in ThreadRecord : r.at = "Heard" /\ Disturb(Listener, r)
    BY <1>6, HearDisturbs
  <2> QED
    BY <1>0, <2>1, DisturbStep DEF Hearing, ListenLabels
<1>7. CASE EraseHeard
  <2>1. disposing' = disposing
    BY <1>7 DEF EraseHeard
  <2> QED
    BY <1>7, <2>1, EraseHeardEffect DEF Hearing, Lost, ListenLabels
<1>8. CASE InsertHeard
  <2>1. thread[Listener].at = "InsertHeard" /\ thread'[Listener].at = "Idle" /\ heard' = heard
    BY <1>0, <1>8 DEF InsertHeard, At, Idle, ghosts, ThreadType
  <2>2. packets["received"] = None
    BY <2>1 DEF Hearing
  <2>3. PICK p : Made("received", p)
    BY <1>8, <2>2, InsertHeardEffect
  <2>4. Received(heard.age)'
    BY <1>a, <2>1, <2>3, NoneIsNoId DEF Received, Made
  <2> QED
    BY <2>1, <2>4 DEF Hearing
<1>9. ASSUME NEW m \in Managers, Working(m) PROVE Hearing'
  <2>1. thread' = thread /\ heard' = heard /\ disposing' = disposing
    BY <1>9 DEF Working, Pick, Delete, DeleteOlder, ghosts
  <2>2. Same("received") \/ (Lost("received") /\ info[packets["received"]].age > Keep)
    BY <1>0, <1>9, WorkingEffect
  <2>3. CASE Same("received")
    BY <1>2, <2>1, <2>3 DEF Same
  <2>4. CASE Lost("received") /\ info[packets["received"]].age > Keep
    <3>1. heard.age < Delay => ~Received(heard.age)
      <4>1. packets["received"] # None => info[packets["received"]].age \in Int
        BY <1>0 DEF RecordsType, IdOrNone
      <4> QED
        BY <1>a, <2>4, <4>1, TransmissionAssumption DEF Received
    <3> QED
      BY <2>1, <2>4, <3>1 DEF Hearing, Lost
  <2> QED
    BY <2>2, <2>3, <2>4
<1>10. CASE Tick
  <2>1. thread'[Listener].at = thread[Listener].at /\ packets' = packets /\ disposing' = disposing
    BY <1>0, <1>10, TickStep DEF Tick
  <2>2. heard' = [heard EXCEPT !.age = Older(@, Delay)]
    BY <1>10 DEF Tick
  <2>3. heard'.repeated = heard.repeated /\ (heard'.age < Delay => heard.age < Delay /\ heard'.age = heard.age + 1)
    BY <1>a, <2>2, TransmissionAssumption DEF GhostType, Older
  <2>4. heard'.age < Delay /\ Received(heard.age) => Received(heard.age)'
    <3>1. PICK age \in Nat : age = heard.age
      BY <1>a
    <3>2. Received(age) => Received(age + 1)'
      BY <1>10, ReceivedAges
    <3> QED
      BY <2>3, <3>1, <3>2 DEF Received
  <2> QED
    BY <2>1, <2>3, <2>4 DEF Hearing
<1>11. CASE Dispose \/ UNCHANGED vars
  BY <1>11 DEF Dispose, vars, ghosts, Hearing, Received
<1> QED
  BY <1>3, <1>4, <1>5, <1>6, <1>7, <1>8, <1>9, <1>10, <1>11 DEF Next, Sending, Receiving

LEMMA NextStamped ==
  ASSUME Types, Types', Apart, Stamped, Sole, Waited, [Next]_vars
  PROVE  Stamped'
<1> USE DEF Types
<1>0. Listener \in Threads /\ "received" \in Managers
  BY TransmissionAssumption DEF Managers
<1>a. air.age \in Nat
  BY DEF GhostType
<1>1. ASSUME air' = air, disposing' = disposing,
             \/ Lost("received")
             \/ packets'["received"] = packets["received"] /\ (packets["received"] # None => Same("received"))
      PROVE  Stamped'
  <2>1. PICK age \in Nat : age = air.age
    BY <1>a
  <2>2. Received(age) /\ ~Lost("received") => Received(age)'
    BY <1>1, ReceivedOn DEF Received
  <2> QED
    BY <1>1, <2>1, <2>2 DEF Stamped, Lost
<1>2. ASSUME NEW t \in Threads, Call(t) PROVE Stamped'
  BY <1>1, <1>2 DEF Call, SendPacket, Same
<1>3. ASSUME NEW t \in Threads, Look(t) \/ EraseSent(t) \/ InsertSent(t) \/ Wait(t) \/ Answer(t)
      PROVE  Stamped'
  <2>1. air' = air /\ disposing' = disposing
    BY <1>3 DEF Look, EraseSent, InsertSent, Wait, Answer, AnswerAfter, ghosts
  <2> QED
    BY <1>1, <1>3, <2>1, CallKeepsReceived
<1>4. ASSUME NEW t \in Threads, Transmit(t) PROVE Stamped'
  <2>1. /\ air'.alone = thread[t].alone /\ air'.age = 0 /\ disposing' = disposing
        /\ thread[t].at = "Air"
    BY <1>4 DEF Transmit, TransmitStamping, At
  <2> SUFFICES ASSUME thread[t].alone, ~disposing, packets'["received"] # None
               PROVE  Received(0)'
    BY <2>1 DEF Stamped, Received
  <2>2. Sender(t)
    BY <2>1 DEF Sender, Busy, ListenLabels
  <2>3. packets' = packets /\ packets["received"] = thread[t].old
    BY <1>4, <2>1, <2>2, TransmitEffect DEF Waited
  <2>4. Aged("received", 0)
    BY <1>0, <1>4, <2>3, TransmitEffect
  <2> QED
    BY <2>3, <2>4 DEF Aged, Received
<1>5. CASE EraseHeard
  BY <1>1, <1>5, EraseHeardEffect DEF EraseHeard, Same
<1>6. CASE InsertHeard
  <2>1. air' = air /\ disposing' = disposing
    BY <1>6 DEF InsertHeard, ghosts
  <2>2. ASSUME NEW p, Made("received", p) PROVE Received(air.age)'
    BY <1>a, <2>1, <2>2, NoneIsNoId DEF Made, Received
  <2> QED
    BY <1>1, <1>6, <2>1, <2>2, InsertHeardEffect DEF Stamped, Same
<1>7. ASSUME NEW m \in Managers, Working(m) PROVE Stamped'
  <2>1. air' = air /\ disposing' = disposing
    BY <1>7 DEF Working, Pick, Delete, DeleteOlder, ghosts
  <2> QED
    BY <1>0, <1>1, <1>7, <2>1, WorkingEffect DEF Same
<1>8. CASE Tick
  <2>1. packets' = packets /\ disposing' = disposing /\ air' = [air EXCEPT !.age = Older(@, Delay)]
    BY <1>8 DEF Tick
  <2>2. /\ air'.alone = air.alone
        /\ air.age >= Delay => air'.age >= Delay
        /\ ~(air.age >= Delay) => air'.age = air.age + 1
    BY <1>a, <2>1, TransmissionAssumption DEF GhostType, Older
  <2>3. ~(air.age >= Delay) /\ Received(air.age) => Received(air.age)'
    <3>1. PICK age \in Nat : age = air.age
      BY <1>a
    <3>2. Received(age) => Received(age + 1)'
      BY <1>8, ReceivedAges
    <3> QED
      BY <2>2, <3>1, <3>2 DEF Received
  <2> QED
    BY <2>1, <2>2, <2>3 DEF Stamped
<1>9. CASE (\E p \in Heard : Hear(p)) \/ Dispose \/ UNCHANGED vars
  BY <1>9 DEF Hear, Dispose, vars, ghosts, Stamped, Received
<1> QED
  BY <1>2, <1>3, <1>4, <1>5, <1>6, <1>7, <1>8, <1>9 DEF Next, Sending, Receiving

-----------------------------------------------------------------------------
(* How long a call has waited                                                *)

\* What remains of a sleep of Delay that began with the record's time.
LEMMA SleepIsEnough ==
  \A delay, age, past \in Nat : past >= delay \/ age <= past
     => past + (IF age \in 0..(delay - 1) THEN delay - age ELSE 0) >= delay
  OBVIOUS

LEMMA SleepGoesOn ==
  \A delay, age, left \in Nat :
     left > 0 /\ age <= delay /\ age + left >= delay => Older(age, delay) + (left - 1) >= delay
  BY DEF Older

\* Nobody transmits who still sleeps.
LEMMA TransmitsAtEnd ==
  ASSUME Types, [Next]_vars, NEW t \in Threads, Transmits(t)
  PROVE  thread[t].left = 0
<1> USE DEF Types, Transmits
<1>1. ASSUME NEW u \in Threads, Call(u) PROVE FALSE
  <2>1. PICK p \in Sendable[u] : SendPacket(u, p)
    BY <1>1 DEF Call
  <2>2. PICK r \in ThreadRecord : r.at = "Look" /\ Disturb(u, r)
    BY <2>1, CallDisturbs
  <2> QED
    BY <2>2, DisturbStep
<1>2. ASSUME NEW p \in Heard, Hear(p) PROVE FALSE
  <2>1. PICK r \in ThreadRecord : r.at = "Heard" /\ Disturb(Listener, r)
    BY <1>2, HearDisturbs
  <2> QED
    BY <2>1, DisturbStep, TransmissionAssumption
<1>3. ASSUME NEW u \in Threads, Look(u) \/ EraseSent(u) \/ InsertSent(u) \/ Wait(u) \/ Answer(u)
      PROVE  FALSE
  BY <1>3, CallStep
<1>4. ASSUME NEW u \in Threads, Transmit(u) PROVE thread[t].left = 0
  BY <1>4 DEF Transmit, TransmitStamping, At, ThreadType
<1>5. CASE Receiving
  BY <1>5, ReceivingStep DEF ListenLabels
<1>6. CASE Tick
  BY <1>6, TickStep
<1>7. CASE (\E m \in Managers : Working(m)) \/ Dispose \/ UNCHANGED vars
  BY <1>7 DEF Working, Pick, Delete, DeleteOlder, Dispose, vars
<1> QED
  BY <1>1, <1>2, <1>3, <1>4, <1>5, <1>6, <1>7 DEF Next, Sending

LEMMA NextWaited ==
  ASSUME Types, Types', Sole, Apart, Past, Hearing, Stamped, Waited, [Next]_vars
  PROVE  Waited'
<1> USE DEF Types
<1>0. Listener \in Threads /\ "received" \in Managers /\ Delay \in Nat
  BY TransmissionAssumption DEF Managers
<1>a. air.age \in Nat /\ heard.age \in Nat /\ air.age <= Delay /\ heard.age <= Delay
  BY <1>0 DEF GhostType
<1> SUFFICES ASSUME NEW u \in Threads, Sender(u)', ~disposing', thread'[u].at = "Air"
             PROVE  /\ packets'["received"] \in {thread'[u].old, None}
                    /\ heard'.repeated \/ heard'.age + thread'[u].left >= Delay
                    /\ air'.alone /\ thread'[u].old # None => air'.age + thread'[u].left >= Delay
  BY DEF Waited
<1>1. CASE Answer(u)
  <2> DEFINE old == Found("received")
             left == IF old # None /\ info[old].age \in 0..(Delay - 1) THEN Delay - info[old].age ELSE 0
  <2>1. /\ ~disposing /\ heard' = heard /\ air' = air
        /\ thread'[u].old = old /\ thread'[u].left = left
    BY <1>1 DEF Answer, AnswerAfter, ghosts, ThreadType, ThreadRecord
  <2>2. old = packets["received"] /\ packets'["received"] = packets["received"]
    BY <1>1, <2>1 DEF Answer, AnswerAfter, Found
  <2>3. left \in Nat
    BY <1>0
  <2>4. packets["received"] # None => info[packets["received"]].age \in Nat
    BY <1>0 DEF Past, RecordsType, IdOrNone
  <2>5. heard.repeated \/ heard.age + left >= Delay
    <3>1. Sender(u)
      BY <1>1, CallStep DEF Sender, Busy, SendLabels, ListenLabels
    <3>2. thread[Listener].at \notin ListenLabels
      BY <1>0, <3>1 DEF Sole, Sender, Busy, ListenLabels
    <3>3. CASE heard.repeated \/ heard.age >= Delay
      BY <1>0, <1>a, <2>3, <3>3
    <3>4. CASE ~heard.repeated /\ ~(heard.age >= Delay)
      <4>1. packets["received"] # None /\ info[packets["received"]].age <= heard.age
        BY <1>0, <1>a, <2>1, <3>2, <3>4 DEF Hearing, Received
      <4> QED
        BY <1>0, <1>a, <2>2, <2>4, <4>1, SleepIsEnough
    <3> QED
      BY <3>3, <3>4
  <2>6. air.alone /\ old # None => air.age + left >= Delay
    <3>1. ASSUME air.alone, old # None
          PROVE  air.age >= Delay \/ info[packets["received"]].age <= air.age
      BY <2>1, <2>2, <3>1 DEF Stamped, Received
    <3> QED
      BY <1>0, <1>a, <2>2, <2>4, <3>1, SleepIsEnough
  <2> HIDE DEF left, old
  <2> QED
    BY <2>1, <2>2, <2>5, <2>6
<1>2. CASE Look(u) \/ EraseSent(u) \/ InsertSent(u) \/ Wait(u)
  BY <1>2 DEF Look, EraseSent, InsertSent, Goes, Wait, ThreadType, ThreadRecord
<1>3. ASSUME Sender(u), ~disposing, thread[u].at = "Air"
      PROVE  /\ packets["received"] \in {thread[u].old, None}
             /\ heard.repeated \/ heard.age + thread[u].left >= Delay
             /\ air.alone /\ thread[u].old # None => air.age + thread[u].left >= Delay
  BY <1>3 DEF Waited
<1>4. CASE Tick /\ Sender(u)
  <2>1. /\ packets' = packets /\ ~disposing
        /\ air' = [air EXCEPT !.age = Older(@, Delay)] /\ heard' = [heard EXCEPT !.age = Older(@, Delay)]
    BY <1>4 DEF Tick
  <2>2. /\ heard'.repeated = heard.repeated /\ heard'.age = Older(heard.age, Delay)
        /\ air'.alone = air.alone /\ air'.age = Older(air.age, Delay)
    BY <2>1 DEF GhostType
  <2>3. thread[u].left > 0 /\ thread'[u] = [thread[u] EXCEPT !.left = @ - 1]
    BY <1>4, TickStep DEF Sender
  <2>4. /\ thread[u].left \in Nat /\ thread[u].at = "Air"
        /\ thread'[u].old = thread[u].old /\ thread'[u].left = thread[u].left - 1
    BY <2>3 DEF ThreadType, ThreadRecord
  <2>5. \A age \in 0..Delay : age + thread[u].left >= Delay => Older(age, Delay) + thread'[u].left >= Delay
    BY <1>0, <2>3, <2>4, SleepGoesOn
  <2>6. air.age \in 0..Delay /\ heard.age \in 0..Delay
    BY DEF GhostType
  <2> QED
    BY <1>3, <1>4, <2>1, <2>2, <2>4, <2>5, <2>6
<1>5. ASSUME NEW m \in Managers, Working(m), Sender(u)
      PROVE  /\ packets'["received"] \in {thread'[u].old, None}
             /\ heard'.repeated \/ heard'.age + thread'[u].left >= Delay
             /\ air'.alone /\ thread'[u].old # None => air'.age + thread'[u].left >= Delay
  <2>1. thread' = thread /\ heard' = heard /\ air' = air /\ disposing' = disposing
    BY <1>5 DEF Working, Pick, Delete, DeleteOlder, ghosts
  <2>2. packets'["received"] \in {packets["received"], None}
    BY <1>0, <1>5, WorkingEffect DEF Same, Lost
  <2> QED
    BY <1>3, <1>5, <2>1, <2>2
<1>6. CASE UNCHANGED vars /\ Sender(u)
  BY <1>3, <1>6 DEF vars
<1> QED
  BY <1>1, <1>2, <1>4, <1>5, <1>6, StaysAlone DEF Dispose

-----------------------------------------------------------------------------
(* The packet last sent                                                      *)

LEMMA NextRemembered ==
  ASSUME Types, Types', Sole, Young, Apart, Mine, Remembered, [Next]_vars
  PROVE  Remembered'
<1> USE DEF Types
<1>0. "sent" \in Managers /\ Listener \in Threads
  BY TransmissionAssumption DEF Managers
<1> SUFFICES ASSUME air'.alone, NEW p, p = air'.packet, p \notin Stealthy, ~disposing', since' <= Keep,
                    \A t \in Busy' : thread'[t].at \in ListenLabels
             PROVE  Holds(p)'
  BY DEF Remembered, Holds
<1>1. ASSUME air' = air, since <= Keep, ~disposing, \A t \in Busy : thread[t].at \in ListenLabels
      PROVE  Holds(p)
  BY <1>1 DEF Remembered, Holds
<1>2. ASSUME NEW t \in Threads, Call(t) PROVE FALSE
  <2>1. PICK q \in Sendable[t] : SendPacket(t, q)
    BY <1>2 DEF Call
  <2>2. PICK r \in ThreadRecord : r.at = "Look" /\ Disturb(t, r)
    BY <2>1, CallDisturbs
  <2> QED
    BY <2>2, DisturbStep DEF Busy, ListenLabels
<1>3. ASSUME NEW t \in Threads, Look(t) \/ EraseSent(t) \/ InsertSent(t) \/ Wait(t) \/ Answer(t)
      PROVE  FALSE
  BY <1>3, CallStep DEF Busy, SendLabels, ListenLabels
<1>4. ASSUME NEW t \in Threads, Transmit(t) PROVE Holds(p)'
  <2>1. /\ air'.alone = thread[t].alone /\ p = thread[t].packet /\ thread[t].at = "Air"
        /\ since' = since /\ disposing' = disposing
    BY <1>4 DEF Transmit, TransmitStamping, At
  <2>2. Sender(t)
    BY <2>1 DEF Sender, Busy, ListenLabels
  <2>3. Holds(p)
    BY <2>1, <2>2 DEF Mine, OwnSent
  <2> QED
    BY <1>0, <1>4, <2>3, TransmitEffect, HoldsOn
<1>5. ASSUME NEW q \in Heard, Hear(q) PROVE Holds(p)'
  <2>1. PICK r \in ThreadRecord : r.at = "Heard" /\ Disturb(Listener, r)
    BY <1>5, HearDisturbs
  <2>2. /\ air' = air /\ since' = since /\ disposing' = disposing /\ packets' = packets /\ info' = info
        /\ thread[Listener].at = "Idle"
    BY <1>5 DEF Hear, At
  <2>3. \A t \in Busy : thread[t].at \in ListenLabels
    BY <1>0, <2>1, <2>2, DisturbStep DEF Busy
  <2> QED
    BY <1>1, <2>2, <2>3, HoldsOn DEF Same
<1>6. CASE Receiving
  <2>1. air' = air /\ since' = since /\ disposing' = disposing /\ Same("sent")
    BY <1>6, EraseHeardEffect, InsertHeardEffect DEF Receiving, EraseHeard, InsertHeard, ghosts
  <2>2. \A t \in Busy : thread[t].at \in ListenLabels
    BY <1>6, ReceivingStep DEF Busy
  <2> QED
    BY <1>1, <2>1, <2>2, HoldsOn
<1>7. ASSUME NEW m \in Managers, Working(m) PROVE Holds(p)'
  <2>1. air' = air /\ since' = since /\ disposing' = disposing /\ thread' = thread
    BY <1>7 DEF Working, Pick, Delete, DeleteOlder, ghosts
  <2>2. Holds(p)
    BY <1>1, <2>1 DEF Busy
  <2> QED
    BY <1>7, <2>1, <2>2, YoungStays, HoldsOn DEF Holds
<1>8. CASE Tick
  <2>1. /\ air'.alone = air.alone /\ air'.packet = air.packet /\ disposing' = disposing
        /\ since' = Older(since, Keep + 1)
    BY <1>8 DEF Tick, GhostType
  <2>2. since <= Keep
    BY <2>1, TransmissionAssumption DEF GhostType, Older
  <2>3. \A t \in Busy : thread[t].at \in ListenLabels
    BY <1>8, TickStep DEF Busy
  <2>4. Holds(p)
    BY <2>1, <2>2, <2>3 DEF Remembered, Holds
  <2> QED
    BY <1>0, <1>8, <2>4, TickEffect, HoldsOn
<1>9. CASE UNCHANGED vars
  BY <1>1, <1>9 DEF vars, ghosts, Busy, Holds
<1> QED
  BY <1>2, <1>3, <1>4, <1>5, <1>6, <1>7, <1>8, <1>9 DEF Next, Sending, Dispose

-----------------------------------------------------------------------------
LEMMA InitIInv == Init => IInv
<1> SUFFICES ASSUME Init PROVE IInv
  OBVIOUS
<1> USE TransmissionAssumption DEF Init
<1>1. RecordsType
  BY NoInfoType DEF RecordsType, IdOrNone
<1>2. ThreadType
  BY NoInfoType DEF ThreadType, ThreadRecord, Idle, SendLabels, ListenLabels, IdOrNone
<1>3. WorkerType
  BY DEF WorkerType, IdOrNone
<1>4. GhostType
  <2>1. Delay \in 0..Delay /\ Keep + 1 \in 0..(Keep + 1)
    OBVIOUS
  <2>2. [packet |-> NoPacket, age |-> Delay, alone |-> FALSE] \in [packet : Packets, age : 0..Delay, alone : BOOLEAN]
    BY ONLY NoInfoType, <2>1
  <2> QED
    BY <2>1, <2>2 DEF GhostType
<1>5. Sole /\ Mine /\ Waited /\ Apart
  BY DEF Sole, Mine, Waited, Apart, Sender, Busy, Idle, Managers
<1>6. Young /\ Past
  BY DEF Young, Past, Managers
<1>7. Hearing /\ Stamped /\ Remembered
  BY DEF Hearing, Stamped, Remembered, Idle
<1> QED
  BY <1>1, <1>2, <1>3, <1>4, <1>5, <1>6, <1>7 DEF IInv, Types, Claims

LEMMA NextIInv == IInv /\ [Next]_vars => IInv'
<1> SUFFICES ASSUME IInv, [Next]_vars PROVE IInv'
  OBVIOUS
<1>1. Types /\ Claims
  BY DEF IInv
<1>2. Types'
  BY <1>1, NextRecordsType, NextThreadType, NextWorkerType, NextGhostType DEF Types
<1>3. Types
  BY <1>1
<1>4. ThreadType
  BY <1>3 DEF Types
<1>5. Sole /\ Young /\ Mine /\ Apart /\ Past /\ Hearing /\ Stamped /\ Waited /\ Remembered
  BY <1>1 DEF Claims
<1>6. Sole'
  BY <1>4, <1>5, NextSole
<1>7. Young' /\ Mine' /\ Remembered'
  BY <1>2, <1>3, <1>5, NextYoung, NextMine, NextRemembered
<1>8. Apart' /\ Past' /\ Hearing'
  BY <1>2, <1>3, <1>5, NextApart, NextPast, NextHearing
<1>9. Stamped' /\ Waited'
  BY <1>2, <1>3, <1>5, NextStamped, NextWaited
<1> QED
  BY <1>2, <1>6, <1>7, <1>8, <1>9 DEF IInv, Claims

LEMMA Invariance == Spec => []IInv
  BY InitIInv, NextIInv, PTL DEF Spec

\* The packet last sent to a device is found for Keep from the call that gave it
\* to sendPacket first, whatever the worker and the listener do, unless calls
\* overlapped: handleAck finds the packet the device acknowledges.
THEOREM LastSentIsRemembered == Spec => []Remembered
<1>1. IInv => Remembered
  BY DEF IInv, Claims
<1> QED
  BY <1>1, Invariance, PTL

\* The second of two packets goes out Delay after the first, to a device that
\* was heard lately, unless calls overlapped.
THEOREM PacketsAreSpaced == Spec => Spaced
<1>1. IInv /\ [Next]_vars
      => [\A t \in Threads : Transmits(t) /\ Alone(t) /\ air.alone /\ thread[t].old # None
                              => air.age >= Delay]_vars
  <2> SUFFICES ASSUME IInv, [Next]_vars, NEW t \in Threads, Transmits(t), Alone(t), air.alone,
                      thread[t].old # None
               PROVE  air.age >= Delay
    OBVIOUS
  <2>1. thread[t].left = 0
    BY TransmitsAtEnd DEF IInv
  <2>2. Sender(t) /\ ~disposing
    BY DEF Transmits, Alone, Sender, Busy, ListenLabels
  <2>3. air.age + 0 >= Delay /\ air.age \in Nat
    BY <2>1, <2>2 DEF IInv, Claims, Waited, Transmits, Types, GhostType
  <2> QED
    BY <2>3
<1> QED
  BY <1>1, Invariance, PTL DEF Spec, Spaced

\* An answer goes out Delay after the packet it answers, unless that was a
\* repetition or calls overlapped.
THEOREM AnswersWait == Spec => Answered
<1>1. IInv /\ [Next]_vars
      => [\A t \in Threads : Transmits(t) /\ Alone(t) => heard.age >= Delay \/ heard.repeated]_vars
  <2> SUFFICES ASSUME IInv, [Next]_vars, NEW t \in Threads, Transmits(t), Alone(t), ~heard.repeated
               PROVE  heard.age >= Delay
    OBVIOUS
  <2>1. thread[t].left = 0
    BY TransmitsAtEnd DEF IInv
  <2>2. Sender(t) /\ ~disposing
    BY DEF Transmits, Alone, Sender, Busy, ListenLabels
  <2>3. heard.age + 0 >= Delay /\ heard.age \in Nat
    BY <2>1, <2>2 DEF IInv, Claims, Waited, Transmits, Types, GhostType
  <2> QED
    BY <2>3
<1> QED
  BY <1>1, Invariance, PTL DEF Spec, Answered

-----------------------------------------------------------------------------
(* The codec                                                                *)

\* A field of less than a byte that does not straddle two bytes.
BitField(index, size) ==
    /\ index \in Nat /\ index >= 90
    /\ size \in 1..7 /\ BitOf(index) + size <= 8

\* The bits a field of less than a byte takes in its byte.
Span(index, size) == {i \in Bits : BitOf(index) <= i /\ i < BitOf(index) + size}

Separate(i1, s1, i2, s2) ==
    ByteOf(i1) # ByteOf(i2) \/ Span(i1, s1) \intersect Span(i2, s2) = {}

\* Nothing has been written to the field.
Clear(p, index, size) ==
    ByteOf(index) \in DOMAIN p => p[ByteOf(index)] \intersect Span(index, size) = {}

-----------------------------------------------------------------------------
LEMMA ByteOfType == ASSUME NEW index \in Nat, index >= 90 PROVE ByteOf(index) \in Nat \ {0}
BY DEF ByteOf

LEMMA BitOfType == ASSUME NEW index \in Nat PROVE BitOf(index) \in 0..9
BY DEF BitOf

LEMMA BytesType == ASSUME NEW size \in Nat \ {0} PROVE Bytes(size) \in Nat \ {0}
BY DEF Bytes

\* A payload is only ever made longer, with empty bytes.
LEMMA PadType ==
    ASSUME NEW p \in Seq(Byte), NEW n \in Nat
    PROVE  /\ Pad(p, n) \in Seq(Byte)
           /\ Len(Pad(p, n)) = IF Len(p) < n THEN n ELSE Len(p)
           /\ DOMAIN p \subseteq DOMAIN Pad(p, n)
           /\ \A k \in DOMAIN Pad(p, n) :
                 Pad(p, n)[k] = IF k \in DOMAIN p THEN p[k] ELSE {}
<1> DEFINE m == IF Len(p) < n THEN n ELSE Len(p)
<1>1. m \in Nat /\ Len(p) <= m /\ DOMAIN p = 1..Len(p)
  OBVIOUS
<1>2. \A k \in 1..m : (IF k <= Len(p) THEN p[k] ELSE {}) \in Byte
  BY <1>1 DEF Byte
<1>3. Pad(p, n) = [k \in 1..m |-> IF k <= Len(p) THEN p[k] ELSE {}]
  BY DEF Pad
<1>4. Pad(p, n) \in Seq(Byte) /\ Len(Pad(p, n)) = m
  <2>1. Pad(p, n) \in [1..m -> Byte]
    BY <1>2, <1>3
  <2> HIDE DEF m
  <2> QED
    BY <1>1, <2>1
<1> QED
  BY <1>1, <1>3, <1>4

LEMMA OrAtType ==
    ASSUME NEW p \in Seq(Byte), NEW k \in Nat \ {0}, NEW data \in Seq(Byte)
    PROVE  /\ OrAt(p, k, data) \in Seq(Byte)
           /\ DOMAIN OrAt(p, k, data) = DOMAIN p
           /\ Len(OrAt(p, k, data)) = Len(p)
           /\ \A i \in DOMAIN p :
                 OrAt(p, k, data)[i] =
                     p[i] \union (IF i - k + 1 \in DOMAIN data THEN data[i - k + 1] ELSE {})
<1>1. DOMAIN p = 1..Len(p) /\ Len(p) \in Nat /\ DOMAIN data = 1..Len(data) /\ Len(data) \in Nat
  OBVIOUS
<1>2. \A i \in DOMAIN p : (p[i] \union (IF i - k + 1 \in DOMAIN data THEN data[i - k + 1] ELSE {})) \in Byte
  <2> SUFFICES ASSUME NEW i \in DOMAIN p
               PROVE  (p[i] \union (IF i - k + 1 \in DOMAIN data THEN data[i - k + 1] ELSE {})) \subseteq Bits
    BY DEF Byte
  <2>1. p[i] \subseteq Bits
    BY DEF Byte
  <2>2. CASE i - k + 1 \in DOMAIN data
    BY <2>1, <2>2 DEF Byte
  <2>3. CASE i - k + 1 \notin DOMAIN data
    BY <2>1, <2>3
  <2> QED
    BY <2>2, <2>3
<1> QED
  BY <1>1, <1>2 DEF OrAt

LEMMA FunctionSeq == ASSUME NEW S, NEW n \in Nat, NEW f \in [1..n -> S] PROVE f \in Seq(S)
OBVIOUS

LEMMA ShlType == ASSUME NEW b, NEW n \in Nat PROVE Shl(b, n) \in Byte
BY DEF Shl, Byte

LEMMA SetBitsType ==
    ASSUME NEW p \in Seq(Byte), NEW index \in Nat, index >= 90, NEW value \in Seq(Byte)
    PROVE  /\ SetBits(p, index, value) \in Seq(Byte)
           /\ DOMAIN p \subseteq DOMAIN SetBits(p, index, value)
           /\ \A k \in DOMAIN p : p[k] \subseteq SetBits(p, index, value)[k]
<1> DEFINE last == IF value = <<>> THEN {} ELSE value[Len(value)]
           data == <<Shl(last, BitOf(index))>>
<1>1. ByteOf(index) \in Nat \ {0} /\ BitOf(index) \in Nat
  BY ByteOfType, BitOfType
<1>2. data \in Seq(Byte)
  BY <1>1, ShlType
<1>3. SetBits(p, index, value) = OrAt(Pad(p, ByteOf(index)), ByteOf(index), data)
  BY DEF SetBits
<1> HIDE DEF data
<1>4. /\ Pad(p, ByteOf(index)) \in Seq(Byte)
      /\ DOMAIN p \subseteq DOMAIN Pad(p, ByteOf(index))
      /\ \A k \in DOMAIN p : Pad(p, ByteOf(index))[k] = p[k]
  BY <1>1, PadType
<1> QED
  BY <1>1, <1>2, <1>3, <1>4, OrAtType

LEMMA SetBytesType ==
    ASSUME NEW p \in Seq(Byte), NEW index \in Nat, index >= 90, NEW size \in Nat \ {0},
           NEW value \in Seq(Byte)
    PROVE  /\ SetBytes(p, index, size, value) \in Seq(Byte)
           /\ DOMAIN p \subseteq DOMAIN SetBytes(p, index, size, value)
           /\ \A k \in DOMAIN p : p[k] \subseteq SetBytes(p, index, size, value)[k]
<1> DEFINE n == Bytes(size)
           padded == Pad(p, ByteOf(index) + n - 1)
           data == [i \in 1..n |-> IF i = 1 THEN value[1] \intersect BitMask(BitOf(size))
                                   ELSE value[i]]
<1>1. ByteOf(index) \in Nat \ {0} /\ n \in Nat \ {0} /\ Len(value) \in Nat
  BY ByteOfType, BytesType
<1>2. /\ padded \in Seq(Byte)
      /\ DOMAIN p \subseteq DOMAIN padded
      /\ \A k \in DOMAIN p : padded[k] = p[k]
  BY <1>1, PadType
<1>3. CASE Len(value) < n
  <2>1. SetBytes(p, index, size, value) = OrAt(padded, ByteOf(index) + n - Len(value), value)
    BY <1>3 DEF SetBytes
  <2>2. ByteOf(index) + n - Len(value) \in Nat \ {0}
    BY <1>1, <1>3
  <2> HIDE DEF padded, n
  <2> QED
    BY <1>2, <2>1, <2>2, OrAtType
<1>4. CASE ~(Len(value) < n)
  <2>1. SetBytes(p, index, size, value) = OrAt(padded, ByteOf(index), data)
    BY <1>4 DEF SetBytes
  <2>2. \A i \in 1..n : value[i] \in Byte
    BY <1>1, <1>4
  <2>3. data \in Seq(Byte)
    <3>1. \A i \in 1..n : data[i] \in Byte
      BY <1>1, <2>2 DEF Byte
    <3>2. data \in [1..n -> Byte]
      BY <3>1
    <3> HIDE DEF n, data
    <3> QED
      BY <1>1, <3>2, FunctionSeq
  <2> HIDE DEF padded, data, n
  <2> QED
    BY <1>1, <1>2, <2>1, <2>3, OrAtType
<1> QED
  BY <1>3, <1>4

\* setPosition yields a payload of bytes that keeps every bit that was set and
\* is not shorter: whatever field is written, with whatever value, what the
\* packet had before is not lost.
THEOREM SetPositionKeeps ==
    ASSUME NEW p \in Seq(Byte), NEW index \in Nat, NEW size \in Nat \ {0}, NEW value \in Seq(Byte)
    PROVE  /\ SetPosition(p, index, size, value) \in Seq(Byte)
           /\ DOMAIN p \subseteq DOMAIN SetPosition(p, index, size, value)
           /\ \A k \in DOMAIN p : p[k] \subseteq SetPosition(p, index, size, value)[k]
<1>1. CASE index < 90 \/ (Partial(index, size) /\ size > 10)
  BY <1>1 DEF SetPosition
<1>2. CASE index >= 90 /\ Partial(index, size) /\ ~(size > 10)
  BY <1>2, SetBitsType DEF SetPosition
<1>3. CASE index >= 90 /\ ~Partial(index, size)
  BY <1>3, SetBytesType DEF SetPosition
<1> QED
  BY <1>1, <1>2, <1>3

-----------------------------------------------------------------------------
(* Fields of less than a byte                                               *)

LEMMA ShiftInByte ==
    ASSUME NEW o \in Nat, NEW size \in 1..7, o + size <= 8, NEW i \in Bits, i < size
    PROVE  i + o \in Bits /\ o <= i + o /\ i + o < o + size
BY DEF Bits

\* What setPosition leaves in the byte of such a field, and in the others.
LEMMA SetBitField ==
    ASSUME NEW p \in Seq(Byte), NEW index, NEW size, BitField(index, size), NEW b \in Byte
    PROVE  LET new == SetPosition(p, index, size, <<b>>)
               k == ByteOf(index)
           IN  /\ k \in DOMAIN new
               /\ new[k] = (IF k \in DOMAIN p THEN p[k] ELSE {}) \union Shl(b, BitOf(index))
               /\ \A j \in DOMAIN new \ {k} : new[j] = IF j \in DOMAIN p THEN p[j] ELSE {}
<1> DEFINE k == ByteOf(index)
           q == Pad(p, k)
           data == <<Shl(b, BitOf(index))>>
           new == SetPosition(p, index, size, <<b>>)
<1>1. k \in Nat \ {0} /\ BitOf(index) \in Nat
  BY ByteOfType, BitOfType DEF BitField
<1>2. new = OrAt(q, k, data)
  <2>1. SetPosition(p, index, size, <<b>>) = SetBits(p, index, <<b>>)
    BY DEF SetPosition, BitField, Partial
  <2> QED
    BY <2>1 DEF SetBits
<1>3. data \in Seq(Byte) /\ DOMAIN data = {1} /\ data[1] = Shl(b, BitOf(index))
  BY <1>1, ShlType
<1>4. /\ q \in Seq(Byte) /\ DOMAIN q = 1..Len(q) /\ Len(q) \in Nat /\ k <= Len(q)
      /\ \A j \in DOMAIN q : q[j] = IF j \in DOMAIN p THEN p[j] ELSE {}
  BY <1>1, PadType
<1> HIDE DEF k, q, data, new
<1>5. /\ DOMAIN new = DOMAIN q
      /\ \A i \in DOMAIN q : new[i] = q[i] \union (IF i - k + 1 \in DOMAIN data THEN data[i - k + 1] ELSE {})
  BY <1>1, <1>2, <1>3, <1>4, OrAtType
<1>6. k \in DOMAIN new /\ new[k] = q[k] \union data[1]
  BY <1>1, <1>3, <1>4, <1>5
<1>7. \A j \in DOMAIN new \ {k} : new[j] = q[j]
  <2> SUFFICES ASSUME NEW j \in DOMAIN new, j # k PROVE new[j] = q[j]
    OBVIOUS
  <2>1. j \in DOMAIN q /\ j - k + 1 \notin DOMAIN data
    BY <1>1, <1>3, <1>4, <1>5
  <2> QED
    BY <1>5, <2>1
<1> QED
  BY <1>3, <1>4, <1>5, <1>6, <1>7 DEF k, new

\* getPosition of such a field depends on the bits of the field only.
LEMMA GetBitField ==
    ASSUME NEW p \in Seq(Byte), NEW index, NEW size, BitField(index, size)
    PROVE  GetPosition(p, index, size) =
               <<IF ByteOf(index) \in DOMAIN p
                   THEN Shr(p[ByteOf(index)], BitOf(index)) \intersect BitMask(size) ELSE {}>>
<1>1. ByteOf(index) \in Nat \ {0} /\ DOMAIN p = 1..Len(p) /\ Len(p) \in Nat
  BY ByteOfType DEF BitField
<1>2. Partial(index, size) /\ ~(size > 10)
  BY DEF Partial, BitField
<1>3. CASE ByteOf(index) > Len(p)
  <2>1. Shr({}, BitOf(index)) = {}
    BY DEF Shr
  <2> QED
    BY <1>1, <1>3, <2>1 DEF GetPosition
<1>4. CASE ~(ByteOf(index) > Len(p))
  <2>1. ByteOf(index) \in DOMAIN p
    BY <1>1, <1>4
  <2> QED
    BY <1>2, <1>4, <2>1 DEF GetPosition
<1> QED
  BY <1>3, <1>4

\* A field of less than a byte that nothing was written to gives back the value
\* written to it, whatever else is in the payload.
THEOREM ReadBack ==
    ASSUME NEW p \in Seq(Byte), NEW index, NEW size, BitField(index, size),
           NEW b \in Byte, b \subseteq BitMask(size), Clear(p, index, size)
    PROVE  GetPosition(SetPosition(p, index, size, <<b>>), index, size) = <<b>>
<1> DEFINE new == SetPosition(p, index, size, <<b>>)
           k == ByteOf(index)
           o == BitOf(index)
<1>1. /\ new \in Seq(Byte) /\ k \in DOMAIN new
      /\ new[k] = (IF k \in DOMAIN p THEN p[k] ELSE {}) \union Shl(b, o)
  <2>1. index \in Nat /\ size \in Nat \ {0} /\ <<b>> \in Seq(Byte)
    BY DEF BitField
  <2>2. new \in Seq(Byte)
    BY <2>1, SetPositionKeeps
  <2> QED
    BY <2>2, SetBitField
<1>2. o \in Nat /\ size \in 1..7 /\ o + size <= 8
  BY BitOfType DEF BitField
<1>3. Shr(new[k], o) \intersect BitMask(size) = b
  <2> DEFINE old == IF k \in DOMAIN p THEN p[k] ELSE {}
  <2>1. \A i \in Bits : i + o \in old => ~(i < size)
    <3> SUFFICES ASSUME NEW i \in Bits, i + o \in old, i < size PROVE FALSE
      OBVIOUS
    <3>1. k \in DOMAIN p /\ i + o \in p[k]
      OBVIOUS
    <3>2. i + o \in Bits /\ o <= i + o /\ i + o < o + size
      BY <1>2, ShiftInByte
    <3>3. i + o \in Span(index, size)
      BY <3>2 DEF Span
    <3> QED
      BY <3>1, <3>3 DEF Clear
  <2>2. \A i \in Bits : i + o \in Shl(b, o) <=> i + o \in Bits /\ i \in b
    BY <1>2 DEF Shl, Bits
  <2>3. \A i \in b : i \in Bits /\ i < size
    BY <1>2 DEF Byte, BitMask
  <2>4. \A i : i \in BitMask(size) <=> i \in Bits /\ i < size
    BY <1>2 DEF BitMask
  <2>5. \A i : i \in Shr(new[k], o) <=> i \in Bits /\ i + o \in old \union Shl(b, o)
    BY <1>1 DEF Shr
  <2> HIDE DEF old, new, k, o
  <2>6. ASSUME NEW i \in b
        PROVE  i \in Shr(new[k], o) /\ i \in BitMask(size)
    <3>1. i \in Bits /\ i < size
      BY <2>3
    <3>2. i + o \in Bits
      BY <1>2, <3>1, ShiftInByte
    <3> QED
      BY <2>2, <2>4, <2>5, <3>1, <3>2
  <2>7. ASSUME NEW i, i \in Shr(new[k], o), i \in BitMask(size)
        PROVE  i \in b
    BY <2>1, <2>2, <2>4, <2>5, <2>7
  <2> QED
    BY <2>6, <2>7
<1> QED
  BY <1>1, <1>3, GetBitField

\* Writing one field of less than a byte does not change what is read from
\* another one that shares no bit with it, in the same byte or elsewhere.
THEOREM OthersUntouched ==
    ASSUME NEW p \in Seq(Byte), NEW i1, NEW s1, BitField(i1, s1), NEW i2, NEW s2, BitField(i2, s2),
           Separate(i1, s1, i2, s2), NEW b \in Byte, b \subseteq BitMask(s1)
    PROVE  GetPosition(SetPosition(p, i1, s1, <<b>>), i2, s2) = GetPosition(p, i2, s2)
<1> DEFINE new == SetPosition(p, i1, s1, <<b>>)
           k == ByteOf(i2)
           Old(j) == IF j \in DOMAIN p THEN p[j] ELSE {}
           New(j) == IF j \in DOMAIN new THEN new[j] ELSE {}
<1>1. new \in Seq(Byte) /\ DOMAIN p \subseteq DOMAIN new
  <2>1. i1 \in Nat /\ s1 \in Nat \ {0} /\ <<b>> \in Seq(Byte)
    BY DEF BitField
  <2> QED
    BY <2>1, SetPositionKeeps
<1>2. /\ ByteOf(i1) \in DOMAIN new
      /\ new[ByteOf(i1)] = Old(ByteOf(i1)) \union Shl(b, BitOf(i1))
      /\ \A j \in DOMAIN new \ {ByteOf(i1)} : new[j] = Old(j)
  BY SetBitField
<1>3. /\ BitOf(i1) \in Nat /\ s1 \in 1..7 /\ BitOf(i1) + s1 <= 8
      /\ BitOf(i2) \in Nat /\ s2 \in 1..7 /\ BitOf(i2) + s2 <= 8
  BY BitOfType DEF BitField
<1>4. \A x \in Span(i2, s2) : x \in New(k) <=> x \in Old(k)
  <2>1. CASE k # ByteOf(i1)
    BY <1>1, <1>2, <2>1
  <2>2. CASE k = ByteOf(i1)
    <3>1. \A x \in Shl(b, BitOf(i1)) : x \in Span(i1, s1)
      BY <1>3 DEF Shl, Span, BitMask, Bits
    <3> QED
      BY <1>1, <1>2, <2>2, <3>1 DEF Separate
  <2> QED
    BY <2>1, <2>2
<1>5. Shr(New(k), BitOf(i2)) \intersect BitMask(s2) = Shr(Old(k), BitOf(i2)) \intersect BitMask(s2)
  <2>1. \A x \in BitMask(s2) : x \in Bits /\ x + BitOf(i2) \in Span(i2, s2)
    <3> SUFFICES ASSUME NEW x \in BitMask(s2) PROVE x \in Bits /\ x + BitOf(i2) \in Span(i2, s2)
      OBVIOUS
    <3>1. x \in Bits /\ x < s2
      BY <1>3 DEF BitMask
    <3>2. x + BitOf(i2) \in Bits /\ BitOf(i2) <= x + BitOf(i2) /\ x + BitOf(i2) < BitOf(i2) + s2
      BY <1>3, <3>1, ShiftInByte
    <3> QED
      BY <3>1, <3>2 DEF Span
  <2> HIDE DEF New, Old, k
  <2> QED
    BY <1>4, <2>1 DEF Shr
<1>6. Shr({}, BitOf(i2)) = {}
  BY DEF Shr
<1>7. GetPosition(new, i2, s2) = <<Shr(New(k), BitOf(i2)) \intersect BitMask(s2)>>
  BY <1>1, <1>6, GetBitField
<1>8. GetPosition(p, i2, s2) = <<Shr(Old(k), BitOf(i2)) \intersect BitMask(s2)>>
  BY <1>6, GetBitField
<1> QED
  BY <1>5, <1>7, <1>8

-----------------------------------------------------------------------------
(* Fields of whole bytes, of the first one maybe a few bits only            *)

\* A value of the right length gives itself back from bytes nothing was written
\* to, if its first byte is within the bits the size leaves.
THEOREM ReadBackBytes ==
    ASSUME NEW p \in Seq(Byte), NEW index \in Nat, index >= 90, NEW size \in Nat \ {0},
           ~Partial(index, size), NEW value \in Seq(Byte), Len(value) = Bytes(size),
           value[1] \subseteq BitMask(BitOf(size)),
           \A i \in 1..Bytes(size) :
               ByteOf(index) + i - 1 \in DOMAIN p => p[ByteOf(index) + i - 1] = {}
    PROVE  GetPosition(SetPosition(p, index, size, value), index, size) = value
<1> DEFINE n == Bytes(size)
           k == ByteOf(index)
           padded == Pad(p, k + n - 1)
           data == [i \in 1..n |-> IF i = 1 THEN value[1] \intersect BitMask(BitOf(size))
                                   ELSE value[i]]
           new == SetPosition(p, index, size, value)
<1>1. k \in Nat \ {0} /\ n \in Nat \ {0} /\ k + n - 1 \in Nat
  BY ByteOfType, BytesType
<1>2. DOMAIN value = 1..n /\ value \in [1..n -> Byte]
  BY <1>1, LenProperties
<1>3. data = value
  <2>1. \A i \in 1..n : data[i] = value[i]
    BY <1>1
  <2>2. data \in [1..n -> Byte]
    BY <1>2, <2>1
  <2> HIDE DEF data, n
  <2> QED
    <3>1. value = [i \in 1..n |-> value[i]]
      BY <1>2
    <3>2. data = [i \in 1..n |-> data[i]]
      BY <2>2
    <3> QED
      BY <2>1, <3>1, <3>2
<1>4. new = OrAt(padded, k, value)
  <2>1. SetPosition(p, index, size, value) = SetBytes(p, index, size, value)
    BY DEF SetPosition
  <2>2. ~(Len(value) < n)
    BY <1>1
  <2>3. SetBytes(p, index, size, value) = OrAt(padded, k, data)
    BY <2>2 DEF SetBytes
  <2> HIDE DEF data, padded, k
  <2> QED
    BY <1>3, <2>1, <2>3
<1>5. /\ padded \in Seq(Byte) /\ DOMAIN padded = 1..Len(padded) /\ Len(padded) \in Nat
      /\ k + n - 1 <= Len(padded)
      /\ \A j \in DOMAIN padded : padded[j] = IF j \in DOMAIN p THEN p[j] ELSE {}
  <2> HIDE DEF n, k
  <2>1. /\ padded \in Seq(Byte)
        /\ Len(padded) = IF Len(p) < k + n - 1 THEN k + n - 1 ELSE Len(p)
        /\ \A j \in DOMAIN padded : padded[j] = IF j \in DOMAIN p THEN p[j] ELSE {}
    BY <1>1, PadType
  <2> HIDE DEF padded
  <2>2. DOMAIN padded = 1..Len(padded) /\ Len(padded) \in Nat /\ Len(p) \in Nat
    BY <2>1, LenProperties
  <2> QED
    BY <1>1, <2>1, <2>2
<1>6. \A i \in 1..n : k + i - 1 \in DOMAIN p => p[k + i - 1] = {}
  OBVIOUS
<1> HIDE DEF n, k, padded, data, new
<1>7. /\ new \in Seq(Byte) /\ DOMAIN new = DOMAIN padded /\ Len(new) = Len(padded)
      /\ \A i \in DOMAIN padded :
             new[i] = padded[i] \union (IF i - k + 1 \in DOMAIN value THEN value[i - k + 1] ELSE {})
  BY <1>1, <1>4, <1>5, OrAtType
<1>8. \A i \in 1..n : k + i - 1 \in 1..Len(new) /\ new[k + i - 1] = value[i]
  <2> SUFFICES ASSUME NEW i \in 1..n
               PROVE  k + i - 1 \in 1..Len(new) /\ new[k + i - 1] = value[i]
    OBVIOUS
  <2> DEFINE j == k + i - 1
  <2>1. j \in 1..Len(new) /\ j \in DOMAIN padded /\ j - k + 1 = i
    BY <1>1, <1>5, <1>7
  <2>2. padded[j] = {}
    BY <1>5, <1>6, <2>1
  <2>3. new[j] = padded[j] \union value[i]
    BY <1>2, <1>7, <2>1
  <2> HIDE DEF j
  <2>4. new[j] = value[i]
    BY <2>2, <2>3
  <2> QED
    BY <2>1, <2>4 DEF j
<1>9. GetPosition(new, index, size) =
         [i \in 1..n |-> IF i = 1 THEN new[k] \intersect BitMask(BitOf(size))
                         ELSE IF k + i - 1 <= Len(new) THEN new[k + i - 1] ELSE {}]
  <2>1. ~(k > Len(new))
    BY <1>1, <1>5, <1>7
  <2> QED
    BY <2>1 DEF GetPosition, k, n
<1>10. new[k] \intersect BitMask(BitOf(size)) = value[1]
  <2>1. new[k] = value[1]
    BY <1>1, <1>8
  <2> QED
    BY <2>1
<1>11. \A i \in 1..n : GetPosition(new, index, size)[i] = value[i]
  <2> SUFFICES ASSUME NEW i \in 1..n PROVE GetPosition(new, index, size)[i] = value[i]
    OBVIOUS
  <2>1. CASE i = 1
    BY <1>9, <1>10, <2>1
  <2>2. CASE i # 1
    <3>1. k + i - 1 <= Len(new) /\ new[k + i - 1] = value[i]
      BY <1>1, <1>8
    <3> QED
      BY <1>9, <2>2, <3>1
  <2> QED
    BY <2>1, <2>2
<1>12. GetPosition(new, index, size) \in [1..n -> Byte]
  BY <1>2, <1>9, <1>11
<1>13. GetPosition(new, index, size) = value
  <2> DEFINE read == GetPosition(new, index, size)
  <2>1. read \in [1..n -> Byte] /\ \A i \in 1..n : read[i] = value[i]
    BY <1>11, <1>12
  <2> HIDE DEF read
  <2>2. value = [i \in 1..n |-> value[i]]
    BY <1>2
  <2>3. read = [i \in 1..n |-> read[i]]
    BY <2>1
  <2>4. read = value
    BY <2>1, <2>2, <2>3
  <2> QED
    BY <2>4 DEF read
<1> QED
  BY <1>13 DEF new

-----------------------------------------------------------------------------
(* Configuration: what packets tell                                         *)

\* Byte k of a payload, and the bits of it that writing data to a field sets.
ByteAt(p, k) == IF k \in DOMAIN p THEN p[k] ELSE {}
Written(index, size, data, k) ==
    IF Partial(index, size)
      THEN IF k = ByteOf(index) THEN Shl(data[Len(data)], BitOf(index)) ELSE {}
    ELSE IF k - ByteOf(index) + 1 \in 1..Bytes(size) THEN data[k - ByteOf(index) + 1] ELSE {}

\* What WriteElement writes of a value.
Data(e, v) == IF HasOffset(e) /\ Len(v) = 1 THEN <<Shr(v[1], e.offset)>> ELSE v

\* A field has the bits that writing data to it leaves in an empty one.
Showing(p, index, size, data) ==
    /\ ByteOf(index) + Bytes(size) - 1 \in DOMAIN p
    /\ \A x \in Cells(index, size) : x[2] \in ByteAt(p, x[1]) <=> x[2] \in Written(index, size, data, x[1])
Shows(p, e, v) == Showing(p, e.index, e.size, Data(e, v))
Blank(p, e) == \A x \in Cells(e.index, e.size) : x[2] \notin ByteAt(p, x[1])

ListPart(f) == [param |-> f, index |-> FirstByte(f), size |-> Layout[f].size]
Givens == {given \in UNION {[fs -> UNION {Values[f] : f \in fs}] : fs \in SUBSET Params} :
              \A f \in DOMAIN given : given[f] \in Values[f]}
Labels == {"Idle", "Set", "Start", "Given", "Fill", "Element", "Remove", "Push"}
CallRecord == [at : Labels, given : Givens, todo : SUBSET Params, lists : SUBSET Groups,
         list : Groups \union {NoGroup}, payload : Seq(Byte), next : Nat, overlapped : BOOLEAN]
PacketRecord == [group : Groups, payload : Seq(Byte), overlapped : BOOLEAN, param : Params \union {NoParam}]

GroupsOf(given) == {Layout[f].group : f \in DOMAIN given}
\* putParamset has parameters of lists, setValue one value.
Kind(given) == DOMAIN given \subseteq ConfigParams \/ \E f \in Params \ ConfigParams : DOMAIN given = {f}
CallInv(r) ==
    /\ r.at # "Idle" => Kind(r.given)
    /\ r.at = "Set" => r.todo # {} /\ r.todo \subseteq DOMAIN r.given /\ r.lists = GroupsOf(r.given)
    /\ r.at \in {"Start", "Given", "Fill", "Element", "Remove", "Push"} => r.lists \subseteq GroupsOf(r.given)
    /\ r.at = "Start" => r.lists # {}
    /\ r.at \in {"Given", "Fill"} => r.list \in Lists
    /\ r.at \in {"Element", "Remove", "Push"} => r.list \in Frames
    /\ r.at \in {"Given", "Fill", "Element", "Remove", "Push"} => r.list \in GroupsOf(r.given)
    /\ r.at = "Given" => r.todo # {} /\ r.todo \subseteq GivenIn(r.given, r.list)
    /\ r.at = "Fill" => r.todo \subseteq Missing(r.given, r.list)
    /\ r.at = "Element" => r.next \in 1..Len(Elements[r.list])
CacheType ==
    /\ \A f \in Params : cache[f] \in had[f] /\ had[f] \subseteq Values[f]
    /\ DOMAIN cache = Params /\ DOMAIN had = Params
QueueType ==
    /\ pending \in Seq(PacketRecord)
    /\ \A i \in DOMAIN pending : pending[i].param \in Params => pending[i].param \in Of(pending[i].group)
CallType == client \in [Clients -> CallRecord] /\ \A c \in Clients : CallInv(client[c])
MarkType == mixed \subseteq Groups /\ calls \in 0..Calls /\ stale \subseteq Groups
TypeInv == CacheType /\ QueueType /\ CallType /\ MarkType

\* A call that does not overlap is the only one.
Solitary == \A c \in Callers : ~client[c].overlapped => Callers = {c}

\* The values given and set are had, and are what the cache shows to a call that
\* does not overlap.
Taken(c, f) ==
    client[c].given[f] \in had[f] /\ (~client[c].overlapped => cache[f] = client[c].given[f])
Settled(c) ==
    \A f \in DOMAIN client[c].given : (Doing(c, "Set") /\ f \in client[c].todo) \/ Taken(c, f)
SetInv == \A c \in Callers : Settled(c)

\* A field of a packet that is being built shows a value its parameter has had,
\* the one in the cache unless the call overlaps, or is blank.
Filled(c, e) ==
    \E v \in had[e.param] : /\ Shows(client[c].payload, e, v)
                            /\ ~client[c].overlapped => v = cache[e.param]
Done(c, e) ==
    \/ Doing(c, "Given") /\ e.param \in DOMAIN client[c].given \ client[c].todo
    \/ Doing(c, "Fill") /\ e.param \notin client[c].todo
    \/ Doing(c, "Element") /\ \E k \in 1..(client[c].next - 1) : Elements[client[c].list][k] = e
    \/ Doing(c, "Remove") \/ Doing(c, "Push")
Building(c) == client[c].at \in {"Given", "Fill", "Element", "Remove", "Push"}
Built(c) ==
    \A e \in Parts(client[c].list) :
        IF Done(c, e) THEN Filled(c, e) ELSE Blank(client[c].payload, e)
BuildInv == \A c \in Clients : Building(c) => Built(c)

\* A packet shows values that were had; one whose call did not overlap has both
\* parts of a value from the same one.
Sound(q) ==
    /\ \A e \in Parts(q.group) : \E v \in had[e.param] : Shows(q.payload, e, v)
    /\ ~q.overlapped =>
         \A f \in Of(q.group) : \E v \in had[f] :
             \A e \in Parts(q.group) : e.param = f => Shows(q.payload, e, v)
PendingInv == \A i \in DOMAIN pending : Sound(pending[i])

Covered(g) ==
    \E c \in Callers : g \in client[c].lists \/ (Building(c) /\ client[c].list = g)
LastShows(g) ==
    \E i \in DOMAIN pending :
        /\ pending[i].group = g /\ \A j \in DOMAIN pending : j > i => pending[j].group # g
        /\ \A e \in Parts(g) : Shows(pending[i].payload, e, cache[e.param])
DeviceShows(g) ==
    /\ \A i \in DOMAIN pending : pending[i].group # g
    /\ \A f \in Of(g) : device[f] = cache[f]
Current == \A g \in Groups \ stale : Covered(g) \/ LastShows(g) \/ DeviceShows(g)

LEMMA ShlBit == ASSUME NEW b, NEW n, NEW x PROVE x \in Shl(b, n) <=> x \in Bits /\ x - n \in b
BY DEF Shl

-----------------------------------------------------------------------------
\* What can be written to a field, and what stays within its bits.
Writable(data, index, size) ==
    /\ data \in Seq(Byte) /\ Len(data) > 0
    /\ ~Partial(index, size) => Len(data) = Bytes(size) /\ data[1] \subseteq BitMask(BitOf(size))
Within(data, index, size) ==
    /\ Writable(data, index, size)
    /\ Partial(index, size) => Shl(data[Len(data)], BitOf(index)) \subseteq FirstBits(index, size)

LEMMA FieldFacts ==
    ASSUME NEW index, NEW size, Field(index, size)
    PROVE  /\ index \in Nat /\ index >= 100 /\ ~(index < 90) /\ size \in Nat \ {0}
           /\ ByteOf(index) \in Nat /\ ByteOf(index) >= 2 /\ BitOf(index) \in 0..9
           /\ Bytes(size) \in Nat \ {0}
           /\ Partial(index, size) => size \in 1..7 /\ Bytes(size) = 1 /\ BitOf(index) \in 0..7
                                      /\ BitOf(index) + size <= 8 /\ ~(size > 10)
           /\ ~Partial(index, size) => BitOf(index) = 0 /\ size >= 8
BY DEF Field, ByteOf, BitOf, Bytes, Partial

\* Or-ing data into a payload of at least n bytes, byte by byte.
LEMMA OrAtBytes ==
    ASSUME NEW p \in Seq(Byte), NEW k \in Nat \ {0}, NEW data \in Seq(Byte), NEW n \in Nat,
           k + Len(data) - 1 = n, Len(data) > 0
    PROVE  LET new == OrAt(Pad(p, n), k, data)
           IN  /\ new \in Seq(Byte) /\ Len(p) <= Len(new) /\ n \in DOMAIN new
               /\ \A j \in Nat : ByteAt(new, j) = ByteAt(p, j) \union
                                    (IF j - k + 1 \in DOMAIN data THEN data[j - k + 1] ELSE {})
<1> DEFINE q == Pad(p, n)
           new == OrAt(q, k, data)
<1>1. /\ q \in Seq(Byte) /\ Len(q) = IF Len(p) < n THEN n ELSE Len(p)
      /\ DOMAIN p \subseteq DOMAIN q /\ \A j \in DOMAIN q : q[j] = IF j \in DOMAIN p THEN p[j] ELSE {}
  BY PadType
<1> HIDE DEF q
<1>2. /\ new \in Seq(Byte) /\ DOMAIN new = DOMAIN q /\ Len(new) = Len(q)
      /\ \A i \in DOMAIN q : new[i] = q[i] \union (IF i - k + 1 \in DOMAIN data THEN data[i - k + 1] ELSE {})
  BY <1>1, OrAtType
<1> HIDE DEF new
<1>3. DOMAIN q = 1..Len(q) /\ Len(q) \in Nat /\ DOMAIN p = 1..Len(p) /\ Len(p) \in Nat
      /\ DOMAIN data = 1..Len(data) /\ Len(data) \in Nat
  BY <1>1
<1>4. Len(p) <= Len(new) /\ n \in DOMAIN new
  BY <1>1, <1>2, <1>3
<1>5. ASSUME NEW j \in Nat
      PROVE  ByteAt(new, j) = ByteAt(p, j) \union (IF j - k + 1 \in DOMAIN data THEN data[j - k + 1] ELSE {})
  <2>1. CASE j \in DOMAIN q
    BY <1>1, <1>2, <2>1 DEF ByteAt
  <2>2. CASE j \notin DOMAIN q
    <3>1. j \notin DOMAIN p /\ j - k + 1 \notin DOMAIN data
      BY <1>1, <1>3, <2>2
    <3> QED  BY <1>2, <2>2, <3>1 DEF ByteAt
  <2> QED  BY <2>1, <2>2
<1> QED  BY <1>2, <1>4, <1>5 DEF new, q

\* setPosition, byte by byte.
LEMMA WriteBytes ==
    ASSUME NEW p \in Seq(Byte), NEW index, NEW size, Field(index, size),
           NEW data, Writable(data, index, size)
    PROVE  LET new == SetPosition(p, index, size, data)
           IN  /\ new \in Seq(Byte) /\ Len(p) <= Len(new)
               /\ ByteOf(index) + Bytes(size) - 1 \in DOMAIN new
               /\ \A k \in Nat : ByteAt(new, k) = ByteAt(p, k) \union Written(index, size, data, k)
<1> DEFINE k == ByteOf(index)
           n == Bytes(size)
           new == SetPosition(p, index, size, data)
<1>1. /\ k \in Nat \ {0} /\ n \in Nat \ {0} /\ data \in Seq(Byte) /\ Len(data) \in Nat \ {0}
      /\ DOMAIN data = 1..Len(data) /\ ~(index < 90) /\ BitOf(index) \in Nat
  BY FieldFacts DEF Writable
<1>2. CASE Partial(index, size)
  <2> DEFINE d == <<Shl(data[Len(data)], BitOf(index))>>
  <2>1. d \in Seq(Byte) /\ Len(d) = 1 /\ d[1] = Shl(data[Len(data)], BitOf(index)) /\ DOMAIN d = {1}
    BY <1>1, ShlType
  <2>2. n = 1 /\ ~(size > 10) /\ data # <<>>
    BY <1>1, <1>2, FieldFacts
  <2>3. new = OrAt(Pad(p, k), k, d)
    BY <1>1, <1>2, <2>2 DEF SetPosition, SetBits
  <2>4. \A j \in Nat : Written(index, size, data, j) = IF j - k + 1 \in DOMAIN d THEN d[j - k + 1] ELSE {}
    <3> SUFFICES ASSUME NEW j \in Nat
                 PROVE  Written(index, size, data, j) = IF j - k + 1 \in DOMAIN d THEN d[j - k + 1] ELSE {}
      OBVIOUS
    <3>1. j - k + 1 \in DOMAIN d <=> j = k
      BY <1>1, <2>1
    <3>2. j = k => j - k + 1 = 1
      BY <1>1
    <3> HIDE DEF d
    <3> QED  BY <1>2, <2>1, <3>1, <3>2 DEF Written
  <2> HIDE DEF d, k, n, new
  <2>5. k + Len(d) - 1 = k /\ k + n - 1 = k
    BY <1>1, <2>1, <2>2
  <2>6. /\ new \in Seq(Byte) /\ Len(p) <= Len(new) /\ k \in DOMAIN new
        /\ \A j \in Nat : ByteAt(new, j) = ByteAt(p, j) \union (IF j - k + 1 \in DOMAIN d THEN d[j - k + 1] ELSE {})
    <3>1. k \in Nat \ {0} /\ k \in Nat /\ Len(d) > 0 /\ d \in Seq(Byte)
      BY <1>1, <2>1
    <3> DEFINE m == k + Len(d) - 1
               with == OrAt(Pad(p, m), k, d)
    <3>2. m \in Nat /\ k + Len(d) - 1 = m /\ m = k
      BY <2>5, <3>1
    <3> HIDE DEF m
    <3>3. /\ with \in Seq(Byte) /\ Len(p) <= Len(with) /\ m \in DOMAIN with
          /\ \A j \in Nat : ByteAt(with, j) = ByteAt(p, j) \union
                                (IF j - k + 1 \in DOMAIN d THEN d[j - k + 1] ELSE {})
      BY <3>1, <3>2, OrAtBytes
    <3> HIDE DEF with
    <3>4. with = new
      BY <2>3, <3>2 DEF with
    <3> QED  BY <3>2, <3>3, <3>4
  <2> QED  BY <2>4, <2>5, <2>6 DEF new, k, n
<1>3. CASE ~Partial(index, size)
  <2> DEFINE d == [i \in 1..n |-> IF i = 1 THEN data[1] \intersect BitMask(BitOf(size)) ELSE data[i]]
  <2>1. Len(data) = n /\ data[1] \subseteq BitMask(BitOf(size))
    BY <1>3 DEF Writable
  <2>2. d = data
    <3>1. \A i \in 1..n : (IF i = 1 THEN data[1] \intersect BitMask(BitOf(size)) ELSE data[i]) = data[i]
      BY <2>1
    <3>2. d = [i \in 1..n |-> data[i]]
      BY <3>1
    <3>3. data = [i \in 1..n |-> data[i]]
      BY <1>1, <2>1
    <3> QED  BY <3>2, <3>3
  <2>3. new = OrAt(Pad(p, k + n - 1), k, data)
    <3>1. new = SetBytes(p, index, size, data)
      BY <1>1, <1>3 DEF SetPosition
    <3>2. ~(Len(data) < n)
      BY <1>1, <2>1
    <3>3. SetBytes(p, index, size, data) = OrAt(Pad(p, k + n - 1), k, d)
      BY <3>2 DEF SetBytes
    <3> QED  BY <2>2, <3>1, <3>3
  <2>4. \A j \in Nat : Written(index, size, data, j) = IF j - k + 1 \in DOMAIN data THEN data[j - k + 1] ELSE {}
    BY <1>1, <1>3, <2>1 DEF Written
  <2> HIDE DEF d, k, n, new
  <2>5. k + n - 1 \in Nat /\ k + Len(data) - 1 = k + n - 1
    BY <1>1, <2>1
  <2>6. /\ new \in Seq(Byte) /\ Len(p) <= Len(new) /\ k + n - 1 \in DOMAIN new
        /\ \A j \in Nat : ByteAt(new, j) = ByteAt(p, j) \union (IF j - k + 1 \in DOMAIN data THEN data[j - k + 1] ELSE {})
    BY <1>1, <2>3, <2>5, OrAtBytes
  <2> QED  BY <2>4, <2>6 DEF new, k, n
<1> QED  BY <1>2, <1>3

LEMMA CellBytes ==
    ASSUME NEW index, NEW size, Field(index, size), NEW x \in Cells(index, size)
    PROVE  /\ x[1] \in Nat /\ x[1] >= ByteOf(index) /\ x[1] <= ByteOf(index) + Bytes(size) - 1
           /\ x[2] \in Bits /\ x = <<x[1], x[2]>>
<1>1. ByteOf(index) \in Nat /\ Bytes(size) \in Nat \ {0}
  BY FieldFacts
<1>2. FirstBits(index, size) \subseteq Bits
  BY DEF FirstBits, BitMask
<1>3. CASE x \in {ByteOf(index)} \X FirstBits(index, size)
  BY <1>1, <1>2, <1>3
<1>4. CASE x \in ((ByteOf(index) + 1)..(ByteOf(index) + Bytes(size) - 1)) \X Bits
  BY <1>1, <1>4
<1> QED  BY <1>3, <1>4 DEF Cells

\* Writing to a field touches only its own bits.
LEMMA WrittenWithin ==
    ASSUME NEW index, NEW size, Field(index, size), NEW data, Within(data, index, size),
           NEW k \in Nat, NEW i \in Written(index, size, data, k)
    PROVE  <<k, i>> \in Cells(index, size)
<1>1. /\ ByteOf(index) \in Nat /\ Bytes(size) \in Nat \ {0} /\ data \in Seq(Byte) /\ Len(data) \in Nat \ {0}
  BY FieldFacts DEF Within, Writable
<1>2. CASE Partial(index, size)
  <2>1. k = ByteOf(index) /\ i \in FirstBits(index, size)
    BY <1>2 DEF Written, Within
  <2> QED  BY <2>1 DEF Cells
<1>3. CASE ~Partial(index, size)
  <2> DEFINE j == k - ByteOf(index) + 1
  <2>1. j \in 1..Bytes(size) /\ i \in data[j] /\ Len(data) = Bytes(size)
    BY <1>3 DEF Written, Within, Writable
  <2>2. i \in Bits
    BY <1>1, <2>1 DEF Byte
  <2>3. CASE j = 1
    <3>1. k = ByteOf(index) /\ i \in FirstBits(index, size)
      BY <1>1, <1>3, <2>1, <2>3 DEF FirstBits, Within, Writable
    <3> QED  BY <3>1 DEF Cells
  <2>4. CASE j # 1
    <3>1. k \in (ByteOf(index) + 1)..(ByteOf(index) + Bytes(size) - 1)
      BY <1>1, <2>1, <2>4
    <3> QED  BY <2>2, <3>1 DEF Cells
  <2> QED  BY <2>3, <2>4
<1> QED  BY <1>2, <1>3

\* A field of less than a byte gives back the bits written to it that it can hold.
LEMMA ReadBits ==
    ASSUME NEW p \in Seq(Byte), NEW index, NEW size, Field(index, size), Partial(index, size),
           NEW data, Writable(data, index, size), Showing(p, index, size, data)
    PROVE  GetPosition(p, index, size) = <<data[Len(data)] \intersect BitMask(size)>>
<1> DEFINE k == ByteOf(index)
           o == BitOf(index)
           last == data[Len(data)]
<1>1. /\ k \in Nat /\ Bytes(size) = 1 /\ o \in 0..7 /\ size \in 1..7 /\ o + size <= 8 /\ ~(size > 10)
      /\ data \in Seq(Byte) /\ Len(data) \in Nat \ {0} /\ last \in Byte
  BY FieldFacts DEF Writable
<1>2. k \in DOMAIN p /\ ~(k > Len(p)) /\ p[k] \in Byte
  BY <1>1 DEF Showing
<1>3. GetPosition(p, index, size) = <<Shr(p[k], o) \intersect BitMask(size)>>
  BY <1>1, <1>2 DEF GetPosition
<1>4. \A i \in BitMask(size) : i \in Bits /\ i < size /\ i + o \in Bits /\ o <= i + o /\ i + o < o + size
  <2> SUFFICES ASSUME NEW i \in BitMask(size)
               PROVE  i \in Bits /\ i < size /\ i + o \in Bits /\ o <= i + o /\ i + o < o + size
    OBVIOUS
  <2>1. i \in Bits /\ i < size
    BY <1>1 DEF BitMask
  <2> HIDE DEF o
  <2> QED  BY <1>1, <2>1 DEF Bits
<1>5. \A i \in BitMask(size) : i + o \in p[k] <=> i \in last
  <2> SUFFICES ASSUME NEW i \in BitMask(size) PROVE i + o \in p[k] <=> i \in last
    OBVIOUS
  <2>1. i + o \in FirstBits(index, size)
    BY <1>4 DEF FirstBits
  <2>2. <<k, i + o>> \in Cells(index, size)
    BY <2>1 DEF Cells
  <2>3. i + o \in ByteAt(p, k) <=> i + o \in Written(index, size, data, k)
    BY <2>2 DEF Showing
  <2>4. Written(index, size, data, k) = Shl(last, o)
    BY DEF Written
  <2>5. i + o \in Shl(last, o) <=> i \in last
    <3>0. i \in Nat /\ o \in Nat
      BY <1>1, <1>4 DEF Bits
    <3> HIDE DEF o, last
    <3>1. i + o - o = i /\ i + o \in Bits
      BY <1>4, <3>0
    <3>2. i + o \in Shl(last, o) <=> i + o \in Bits /\ i + o - o \in last
      BY <3>0 DEF Shl
    <3> QED  BY <3>1, <3>2
  <2> QED  BY <1>2, <2>3, <2>4, <2>5 DEF ByteAt
<1>6. Shr(p[k], o) \intersect BitMask(size) = last \intersect BitMask(size)
  BY <1>4, <1>5 DEF Shr
<1> QED  BY <1>3, <1>6

\* Whole bytes give back a value that fits.
LEMMA ReadBytes ==
    ASSUME NEW p \in Seq(Byte), NEW index, NEW size, Field(index, size), ~Partial(index, size),
           NEW data, Fits(data, index, size), Showing(p, index, size, data)
    PROVE  GetPosition(p, index, size) = data
<1> DEFINE k == ByteOf(index)
           n == Bytes(size)
           mask == BitMask(BitOf(size))
<1>1. /\ k \in Nat \ {0} /\ n \in Nat \ {0} /\ data \in Seq(Byte) /\ Len(data) = n /\ data[1] \subseteq mask
      /\ DOMAIN p = 1..Len(p) /\ Len(p) \in Nat /\ k + n - 1 <= Len(p)
  BY FieldFacts DEF Fits, Showing
<1>2. GetPosition(p, index, size) = [i \in 1..n |-> IF i = 1 THEN p[k] \intersect mask
                                                   ELSE IF k + i - 1 <= Len(p) THEN p[k + i - 1] ELSE {}]
  <2>1. ~(k > Len(p))
    BY <1>1
  <2> QED  BY <2>1 DEF GetPosition
<1>3. \A j \in 1..n : Written(index, size, data, k + j - 1) = data[j]
  <2> SUFFICES ASSUME NEW j \in 1..n PROVE Written(index, size, data, k + j - 1) = data[j]
    OBVIOUS
  <2>1. Written(index, size, data, k + j - 1) =
          IF (k + j - 1) - k + 1 \in 1..n THEN data[(k + j - 1) - k + 1] ELSE {}
    BY DEF Written
  <2> HIDE DEF k, n, mask
  <2>2. (k + j - 1) - k + 1 = j
    BY <1>1
  <2> QED  BY <2>1, <2>2
<1>4. \A j \in 1..n : k + j - 1 \in DOMAIN p
  BY <1>1
<1>5. p[k] \intersect mask = data[1]
  <2>1. \A i \in mask : i \in ByteAt(p, k) <=> i \in Written(index, size, data, k)
    <3> SUFFICES ASSUME NEW i \in mask PROVE i \in ByteAt(p, k) <=> i \in Written(index, size, data, k)
      OBVIOUS
    <3>1. <<k, i>> \in Cells(index, size)
      BY DEF Cells, FirstBits
    <3> QED  BY <3>1 DEF Showing
  <2>2. Written(index, size, data, k) = data[1] /\ k \in DOMAIN p
    <3>1. k + 1 - 1 = k /\ 1 \in 1..n
      BY <1>1
    <3> QED  BY <1>3, <1>4, <3>1
  <2> QED  BY <1>1, <2>1, <2>2 DEF ByteAt
<1>6. ASSUME NEW j \in 1..n, j # 1
      PROVE  p[k + j - 1] = data[j]
  <2>1. k + j - 1 \in (k + 1)..(k + n - 1)
    BY <1>1, <1>6
  <2>2. \A i \in Bits : i \in ByteAt(p, k + j - 1) <=> i \in Written(index, size, data, k + j - 1)
    <3> SUFFICES ASSUME NEW i \in Bits
                 PROVE  i \in ByteAt(p, k + j - 1) <=> i \in Written(index, size, data, k + j - 1)
      OBVIOUS
    <3>1. <<k + j - 1, i>> \in Cells(index, size)
      BY <2>1 DEF Cells
    <3> QED  BY <3>1 DEF Showing
  <2>3. p[k + j - 1] \subseteq Bits /\ data[j] \subseteq Bits
    BY <1>1, <1>4 DEF Byte
  <2>4. ByteAt(p, k + j - 1) = p[k + j - 1]
    BY <1>4 DEF ByteAt
  <2>5. Written(index, size, data, k + j - 1) = data[j]
    BY <1>3
  <2>6. \A i \in Bits : i \in p[k + j - 1] <=> i \in data[j]
    BY <2>2, <2>4, <2>5
  <2> DEFINE A == p[k + j - 1]
             B == data[j]
  <2> HIDE DEF k, n, mask
  <2>7. A \subseteq Bits /\ B \subseteq Bits /\ \A i \in Bits : i \in A <=> i \in B
    BY <2>3, <2>6
  <2> HIDE DEF A, B
  <2>8. A = B
    BY <2>7
  <2> QED  BY <2>8 DEF A, B
<1>7. \A i \in 1..n : (IF i = 1 THEN p[k] \intersect mask
                       ELSE IF k + i - 1 <= Len(p) THEN p[k + i - 1] ELSE {}) = data[i]
  BY <1>1, <1>4, <1>5, <1>6
<1>8. data = [i \in 1..n |-> data[i]]
  BY <1>1
<1> HIDE DEF k, n, mask
<1> QED  BY <1>2, <1>7, <1>8

LEMMA OneByte == ASSUME NEW v \in Seq(Byte), Len(v) = 1 PROVE v[1] \in Byte /\ v = <<v[1]>>
OBVIOUS

LEMMA FitsWithin ==
    ASSUME NEW index, NEW size, Field(index, size), NEW v, Fits(v, index, size)
    PROVE  Within(v, index, size)
<1>1. /\ BitOf(index) \in Nat /\ Bytes(size) \in Nat \ {0} /\ v \in Seq(Byte) /\ Len(v) = Bytes(size)
      /\ v[1] \in Byte
  BY FieldFacts DEF Fits
<1>2. CASE Partial(index, size)
  <2>1. Len(v) = 1 /\ v[1] \subseteq BitMask(size) /\ size \in 1..7 /\ BitOf(index) + size <= 8
    BY <1>1, <1>2, FieldFacts DEF Fits
  <2>2. ASSUME NEW i \in Shl(v[1], BitOf(index))
        PROVE  i \in FirstBits(index, size)
    <3> DEFINE o == BitOf(index)
    <3>1. i \in Bits /\ i - o \in v[1]
      BY DEF Shl
    <3>2. i - o \in Bits /\ i - o < size
      BY <2>1, <3>1 DEF BitMask
    <3> HIDE DEF o
    <3>3. o <= i /\ i < o + size
      BY <1>1, <2>1, <3>1, <3>2 DEF Bits, o
    <3> QED  BY <1>2, <3>1, <3>3 DEF FirstBits, o
  <2> QED  BY <1>1, <1>2, <2>1, <2>2 DEF Within, Writable
<1>3. CASE ~Partial(index, size)
  BY <1>1, <1>3 DEF Within, Writable, Fits
<1> QED  BY <1>2, <1>3

LEMMA ReadFits ==
    ASSUME NEW p \in Seq(Byte), NEW index, NEW size, Field(index, size),
           NEW v, Fits(v, index, size), Showing(p, index, size, v)
    PROVE  GetPosition(p, index, size) = v
<1>1. CASE Partial(index, size)
  <2>1. Writable(v, index, size)
    BY FitsWithin DEF Within
  <2>2. Len(v) = 1 /\ v \in Seq(Byte) /\ v[1] \subseteq BitMask(size)
    BY <1>1, FieldFacts DEF Fits
  <2>3. v = <<v[1]>>
    BY <2>2
  <2>4. v[1] \intersect BitMask(size) = v[1]
    BY <2>2
  <2>5. GetPosition(p, index, size) = <<v[Len(v)] \intersect BitMask(size)>>
    BY <1>1, <2>1, ReadBits
  <2>6. v[Len(v)] \intersect BitMask(size) = v[1]
    BY <2>2, <2>4
  <2> QED  BY <2>3, <2>5, <2>6
<1>2. CASE ~Partial(index, size)
  BY <1>2, ReadBytes
<1> QED  BY <1>1, <1>2

-----------------------------------------------------------------------------
(* The fields of a description                                              *)

LEMMA OfFacts ==
    ASSUME NEW g \in Groups, NEW f \in Of(g)
    PROVE  f \in Params /\ Layout[f].group = g /\ (f \in ConfigParams <=> g \in Lists)
BY DEF Of, ConfigParams

LEMMA PartFacts ==
    ASSUME NEW g \in Groups, NEW e \in Parts(g)
    PROVE  /\ Field(e.index, e.size) /\ e.param \in Of(g) /\ e.param \in Params
           /\ g \in Lists => e = ListPart(e.param) /\ ~HasOffset(e) /\ e.index >= 110
<1>1. Field(e.index, e.size) /\ e.param \in Of(g) /\ (g \in Lists => e.index >= 110)
  BY ConfigurationAssumption
<1>2. g \in Lists => e = ListPart(e.param) /\ ~HasOffset(e)
  BY DEF Parts, ListPart, HasOffset
<1> QED  BY <1>1, <1>2, OfFacts

LEMMA ListPartOf ==
    ASSUME NEW g \in Lists, NEW f \in Of(g)
    PROVE  ListPart(f) \in Parts(g) /\ ListPart(f).param = f /\ ~HasOffset(ListPart(f))
BY DEF Parts, ListPart, HasOffset

LEMMA LowFits ==
    ASSUME NEW low, Field(low.index, low.size), ~HasOffset(low), low.size < 8,
           BitOf(low.index) + low.size = 8, NEW v \in Seq(Byte), Len(v) = 1
    PROVE  Data(low, v) = v /\ Partial(low.index, low.size) /\ Within(v, low.index, low.size)
<1>1. Partial(low.index, low.size)
  BY DEF Partial
<1>2. ASSUME NEW i \in Shl(v[1], BitOf(low.index))
      PROVE  i \in FirstBits(low.index, low.size)
  <2> DEFINE o == BitOf(low.index)
             s == low.size
  <2>0. v[1] \in Byte
    BY OneByte
  <2>1. i \in Bits /\ i - o \in v[1] /\ v[1] \in Byte
    BY <2>0 DEF Shl
  <2>2. i - o \in Bits
    BY <2>1 DEF Byte
  <2>3. o \in Nat /\ s \in Nat /\ o + s = 8
    BY FieldFacts
  <2> HIDE DEF o, s
  <2>4. o <= i /\ i < o + s
    BY <2>1, <2>2, <2>3 DEF Bits
  <2> QED  BY <1>1, <2>1, <2>4 DEF FirstBits, o, s
<1> QED  BY <1>1, <1>2 DEF Within, Writable, Data

LEMMA HighFits ==
    ASSUME NEW high, Field(high.index, high.size), HasOffset(high), NEW offset \in Nat,
           high.offset = offset, high.size < 8, offset + high.size <= 8,
           NEW v \in Seq(Byte), Len(v) = 1, v[1] \subseteq BitMask(offset + high.size)
    PROVE  /\ Data(high, v) = <<Shr(v[1], offset)>>
           /\ Partial(high.index, high.size) /\ Fits(Data(high, v), high.index, high.size)
<1>1. Partial(high.index, high.size) /\ high.size \in 1..7 /\ Bytes(high.size) = 1
  <2>1. Partial(high.index, high.size)
    BY DEF Partial
  <2> QED  BY <2>1, FieldFacts
<1>2. Data(high, v) = <<Shr(v[1], offset)>>
  BY DEF Data
<1>3. Shr(v[1], offset) \in Byte
  BY DEF Shr, Byte
<1>4. Shr(v[1], offset) \subseteq BitMask(high.size)
  <2> SUFFICES ASSUME NEW i \in Shr(v[1], offset) PROVE i \in BitMask(high.size)
    OBVIOUS
  <2>1. i \in Bits /\ i + offset \in BitMask(offset + high.size)
    BY DEF Shr
  <2> DEFINE s == high.size
  <2>2. s \in 1..7 /\ offset + s # 0
    BY <1>1
  <2> HIDE DEF s
  <2>3. i + offset < offset + s
    BY <2>1, <2>2 DEF BitMask, s
  <2>4. i < s
    BY <2>1, <2>2, <2>3 DEF Bits
  <2> QED  BY <2>1, <2>2, <2>4 DEF BitMask, s
<1> QED  BY <1>1, <1>2, <1>3, <1>4 DEF Fits

LEMMA PartFits ==
    ASSUME NEW g \in Groups, NEW e \in Parts(g), NEW v \in Values[e.param]
    PROVE  Within(Data(e, v), e.index, e.size)
<1> DEFINE f == e.param
<1>1. Field(e.index, e.size) /\ f \in Of(g) /\ f \in Params /\ Layout[f].group = g
  BY PartFacts, OfFacts
<1>2. CASE g \in Lists
  <2>1. e = ListPart(f) /\ ~HasOffset(e) /\ f \in ConfigParams
    BY <1>1, <1>2, PartFacts, OfFacts
  <2>2. Data(e, v) = v /\ Fits(v, e.index, e.size)
    <3>1. Fits(v, FirstByte(f), Layout[f].size)
      BY <2>1, ConfigurationAssumption
    <3>2. e.index = FirstByte(f) /\ e.size = Layout[f].size
      BY <2>1 DEF ListPart
    <3> QED  BY <2>1, <3>1, <3>2 DEF Data
  <2> QED  BY <1>1, <2>2, FitsWithin
<1>3. CASE g \notin Lists
  <2>1. Whole(f) \/ Split(f)
    BY <1>1, <1>3, OfFacts, ConfigurationAssumption
  <2>2. CASE Whole(f)
    <3>1. ~HasOffset(e) /\ Fits(v, e.index, e.size)
      BY <1>1, <2>2 DEF Whole
    <3> QED  BY <1>1, <3>1, FitsWithin DEF Data
  <2>3. CASE Split(f)
    <3>1. PICK low \in Parts(g), high \in Parts(g) :
             /\ \A d \in Parts(g) : d.param = f <=> d \in {low, high}
             /\ ~HasOffset(low) /\ low.size < 8 /\ BitOf(low.index) + low.size = 8
             /\ HasOffset(high) /\ high.offset = low.size
             /\ \A w \in Values[f] : w \in Seq(Byte) /\ Len(w) = 1 /\ w[1] \subseteq BitMask(high.offset + high.size)
             /\ high.size < 8 /\ high.offset + high.size <= 8
      BY <1>1, <2>3 DEF Split
    <3>2. Field(low.index, low.size) /\ Field(high.index, high.size) /\ low.size \in Nat
      BY PartFacts, FieldFacts
    <3>3. v \in Seq(Byte) /\ Len(v) = 1 /\ v[1] \subseteq BitMask(high.offset + high.size)
      BY <3>1
    <3>4. CASE e = low
      BY <3>1, <3>2, <3>3, <3>4, LowFits
    <3>5. CASE e = high
      BY <3>1, <3>2, <3>3, <3>5, HighFits, FitsWithin
    <3> QED  BY <3>1, <3>4, <3>5
  <2> QED  BY <2>1, <2>2, <2>3
<1> QED  BY <1>2, <1>3

-----------------------------------------------------------------------------
\* Writing any value of a parameter to its field of a packet, whatever else is in
\* the packet: a field nothing was written to shows the value, and the other
\* fields of the list or frame show what they showed.
THEOREM WritePart ==
    ASSUME NEW g \in Groups, NEW e \in Parts(g), NEW v \in Values[e.param], NEW p \in Seq(Byte)
    PROVE  LET new == SetPosition(p, e.index, e.size, Data(e, v))
           IN  /\ new \in Seq(Byte) /\ Len(p) <= Len(new)
               /\ Blank(p, e) => Shows(new, e, v)
               /\ \A d \in Parts(g) \ {e} : /\ Blank(p, d) => Blank(new, d)
                                            /\ \A w : Shows(p, d, w) => Shows(new, d, w)
<1> DEFINE data == Data(e, v)
           new == SetPosition(p, e.index, e.size, data)
<1>1. Field(e.index, e.size) /\ Within(data, e.index, e.size) /\ Writable(data, e.index, e.size)
  BY PartFacts, PartFits DEF Within
<1> HIDE DEF data, new
<1>2. /\ new \in Seq(Byte) /\ Len(p) <= Len(new)
      /\ ByteOf(e.index) + Bytes(e.size) - 1 \in DOMAIN new
      /\ \A k \in Nat : ByteAt(new, k) = ByteAt(p, k) \union Written(e.index, e.size, data, k)
  BY <1>1, WriteBytes DEF new
<1>3. Blank(p, e) => Shows(new, e, v)
  <2> SUFFICES ASSUME Blank(p, e), NEW x \in Cells(e.index, e.size)
               PROVE  x[2] \in ByteAt(new, x[1]) <=> x[2] \in Written(e.index, e.size, data, x[1])
    BY <1>2 DEF Shows, Showing, data
  <2>1. x[1] \in Nat /\ x[2] \notin ByteAt(p, x[1])
    BY <1>1, CellBytes DEF Blank
  <2> QED  BY <1>2, <2>1
<1>4. ASSUME NEW d \in Parts(g) \ {e}
      PROVE  \A x \in Cells(d.index, d.size) : x[2] \in ByteAt(new, x[1]) <=> x[2] \in ByteAt(p, x[1])
  <2> SUFFICES ASSUME NEW x \in Cells(d.index, d.size), x[2] \in Written(e.index, e.size, data, x[1])
               PROVE  FALSE
    <3>1. \A x \in Cells(d.index, d.size) : x[1] \in Nat
      BY PartFacts, CellBytes
    <3> QED  BY <1>2, <3>1
  <2>1. x[1] \in Nat /\ x = <<x[1], x[2]>>
    BY PartFacts, CellBytes
  <2>2. <<x[1], x[2]>> \in Cells(e.index, e.size)
    BY <1>1, <2>1, WrittenWithin
  <2>3. Cells(d.index, d.size) \intersect Cells(e.index, e.size) = {}
    BY ConfigurationAssumption DEF Disjoint
  <2> QED  BY <2>1, <2>2, <2>3
<1>5. ASSUME NEW d \in Parts(g) \ {e}
      PROVE  /\ Blank(p, d) => Blank(new, d)
             /\ \A w : Shows(p, d, w) => Shows(new, d, w)
  <2>1. \A x \in Cells(d.index, d.size) : x[2] \in ByteAt(new, x[1]) <=> x[2] \in ByteAt(p, x[1])
    BY <1>4
  <2>2. DOMAIN p \subseteq DOMAIN new
    BY <1>2
  <2> QED  BY <2>1, <2>2 DEF Blank, Shows, Showing
<1> QED  BY <1>2, <1>3, <1>5 DEF new, data

LEMMA HeaderBlank ==
    ASSUME NEW g \in Groups, NEW e \in Parts(g), NEW p \in Seq(Byte),
           Len(p) = IF g \in Lists THEN 2 ELSE 1
    PROVE  Blank(p, e)
<1> SUFFICES ASSUME NEW x \in Cells(e.index, e.size) PROVE x[2] \notin ByteAt(p, x[1])
  BY DEF Blank
<1>1. Field(e.index, e.size) /\ (g \in Lists => ByteOf(e.index) >= 3)
  BY PartFacts DEF Field, ByteOf
<1>2. x[1] \in Nat /\ x[1] >= ByteOf(e.index) /\ ByteOf(e.index) \in Nat /\ ByteOf(e.index) >= 2
  BY <1>1, FieldFacts, CellBytes
<1>3. x[1] \notin DOMAIN p
  BY <1>1, <1>2
<1> QED  BY <1>3 DEF ByteAt

-----------------------------------------------------------------------------
(* Two ways to write the same, and what the report shows                    *)

LEMMA SingleByte ==
    ASSUME NEW b PROVE /\ <<b>> = [i \in 1..1 |-> b] /\ Len(<<b>>) = 1 /\ <<b>>[1] = b
                       /\ DOMAIN <<b>> = {1}
OBVIOUS

\* Writing a value that fits as whole bytes.
LEMMA WholeBytes ==
    ASSUME NEW p \in Seq(Byte), NEW index \in Nat, index >= 90, NEW size \in Nat \ {0},
           ~Partial(index, size), NEW v \in Seq(Byte), Len(v) = Bytes(size),
           v[1] \subseteq BitMask(BitOf(size))
    PROVE  SetPosition(p, index, size, v) = OrAt(Pad(p, ByteOf(index) + Bytes(size) - 1), ByteOf(index), v)
<1> DEFINE n == Bytes(size)
           d == [i \in 1..n |-> IF i = 1 THEN v[1] \intersect BitMask(BitOf(size)) ELSE v[i]]
<1>1. n \in Nat \ {0} /\ ~(Len(v) < n) /\ ~(index < 90) /\ DOMAIN v = 1..n
  BY BytesType
<1>2. d = v
  <2>1. \A i \in 1..n : (IF i = 1 THEN v[1] \intersect BitMask(BitOf(size)) ELSE v[i]) = v[i]
    OBVIOUS
  <2>2. d = [i \in 1..n |-> v[i]]
    BY <2>1
  <2>3. v = [i \in 1..n |-> v[i]]
    BY <1>1
  <2> QED  BY <2>2, <2>3
<1>3. SetPosition(p, index, size, v) = SetBytes(p, index, size, v)
  BY <1>1 DEF SetPosition
<1>4. SetBytes(p, index, size, v) = OrAt(Pad(p, ByteOf(index) + n - 1), ByteOf(index), d)
  BY <1>1 DEF SetBytes
<1> QED  BY <1>2, <1>3, <1>4

\* A parameter that was given is written to its field like a missing one.
LEMMA PutGivenIs ==
    ASSUME NEW f \in ConfigParams, NEW v \in Values[f], NEW p \in Seq(Byte),
           Field(FirstByte(f), Layout[f].size)
    PROVE  PutGiven(p, f, v) = SetPosition(p, FirstByte(f), Layout[f].size, v)
<1> DEFINE index == Layout[f].index
           size == Layout[f].size
           first == FirstByte(f)
           n == Bytes(size)
           low == index - BitOf(index)
<1>1. /\ index \in Nat /\ Fits(v, first, size)
  BY ConfigurationAssumption
<1>2. /\ first \in Nat /\ first >= 100 /\ size \in Nat \ {0} /\ n \in Nat \ {0}
      /\ v \in Seq(Byte) /\ Len(v) = n /\ v # <<>>
  BY <1>1, FieldFacts DEF Fits
<1>3. first = index - (n - 1) * 10
  BY DEF FirstByte
<1> HIDE DEF index, size, first, n
<1>4. BitOf(index) = BitOf(first) /\ low \in Nat
  BY <1>1, <1>2, <1>3 DEF BitOf
<1>5. CASE Partial(first, size)
  <2>1. size \in 1..7 /\ n = 1 /\ ~(size > 10) /\ BitOf(index) \in 0..7 /\ size < 10
    BY <1>4, <1>5, FieldFacts DEF first, size, n
  <2>2. first = index
    BY <1>1, <1>2, <1>3, <2>1
  <2> DEFINE b == Shl(v[Len(v)], BitOf(index))
             d == <<b>>
  <2>3. b \in Byte /\ b \subseteq Bits
    BY <2>1 DEF Shl, Byte
  <2>4. d \in Seq(Byte) /\ Len(d) = 1 /\ d[1] = b /\ Adjusted(f, v) = d
    BY <2>1, <2>3 DEF Adjusted, index, size
  <2> HIDE DEF b, d
  <2>5. /\ low \in Nat /\ low >= 100 /\ BitOf(low) = 0 /\ BitOf(10) = 0
        /\ Bytes(10) = 1 /\ 10 \in Nat \ {0} /\ ByteOf(low) = ByteOf(index) /\ ~Partial(low, 10)
    <3>1. index >= 100 /\ index \in Nat
      BY <1>1, <1>2, <2>2
    <3>2. low = 10 * (index \div 10)
      BY <3>1 DEF BitOf
    <3> DEFINE t == index \div 10
    <3>3. t \in Nat /\ t >= 10
      BY <3>1
    <3>4. low - 90 = 10 * (t - 9) /\ (index - 90) \div 10 = t - 9
      BY <3>1, <3>2
    <3>5. index \div 10 = t
      OBVIOUS
    <3> HIDE DEF low, t
    <3>6. (low - 90) \div 10 = t - 9
      BY <3>3, <3>4
    <3>7. ByteOf(low) = ByteOf(index)
      BY <3>4, <3>6 DEF ByteOf
    <3>8. low \in Nat /\ low >= 100 /\ low % 10 = 0
      BY <3>2, <3>3, <3>5
    <3>9. BitOf(low) = 0 /\ BitOf(10) = 0 /\ Bytes(10) = 1 /\ ~Partial(low, 10)
      BY <3>8 DEF BitOf, Bytes, Partial
    <3> QED  BY <3>7, <3>8, <3>9
  <2>6. PutGiven(p, f, v) = SetPosition(p, low, 10, d)
    <3>1. low - (Len(d) - 1) * 10 = low /\ Len(d) * 10 = 10
      BY <2>4, <2>5
    <3> HIDE DEF low
    <3>2. PutGiven(p, f, v) = SetPosition(p, low - (Len(d) - 1) * 10, Len(d) * 10, d)
      BY <2>4 DEF PutGiven, low, index
    <3> QED  BY <3>1, <3>2
  <2> HIDE DEF low
  <2>7. SetPosition(p, low, 10, d) = OrAt(Pad(p, ByteOf(low) + Bytes(10) - 1), ByteOf(low), d)
    <3>1. d[1] \subseteq BitMask(BitOf(10))
      BY <2>3, <2>4, <2>5 DEF BitMask
    <3>2. low >= 90 /\ Len(d) = Bytes(10)
      BY <2>4, <2>5
    <3> QED  BY <2>4, <2>5, <3>1, <3>2, WholeBytes
  <2>8. ByteOf(low) + Bytes(10) - 1 = ByteOf(index)
    BY <1>1, <2>5 DEF ByteOf
  <2>9. SetPosition(p, first, size, v) = OrAt(Pad(p, ByteOf(index)), ByteOf(index), d)
    <3>1. ~(first < 90) /\ Partial(first, size) /\ ~(size > 10)
      BY <1>2, <1>5, <2>1
    <3>2. SetPosition(p, first, size, v) = SetBits(p, first, v)
      BY <3>1 DEF SetPosition
    <3>3. SetBits(p, first, v) = OrAt(Pad(p, ByteOf(first)), ByteOf(first), <<Shl(v[Len(v)], BitOf(first))>>)
      BY <1>2 DEF SetBits
    <3> QED  BY <2>2, <3>2, <3>3 DEF d, b
  <2> QED  BY <2>5, <2>6, <2>7, <2>8, <2>9 DEF first, size
<1>6. CASE ~Partial(first, size)
  <2>1. BitOf(first) = 0 /\ size >= 8 /\ BitOf(index) = 0 /\ v[1] \subseteq BitMask(BitOf(size)) /\ v[1] \in Byte
    <3>1. BitOf(first) = 0 /\ size >= 8
      BY <1>6, FieldFacts DEF first, size
    <3>2. v[1] \in Byte
      BY <1>2
    <3> QED  BY <1>1, <1>4, <1>6, <3>1, <3>2 DEF Fits
  <2>2. Adjusted(f, v) = v
    <3>1. CASE size < 10
      <4>1. n = 1
        BY <1>2, <2>1, <3>1 DEF Bytes, n
      <4>2. v = <<v[1]>>
        BY <1>2, <4>1
      <4>3. Shl(v[1], 0) = v[1]
        BY <2>1 DEF Shl, Byte, Bits
      <4>4. Adjusted(f, v) = <<Shl(v[Len(v)], BitOf(index))>>
        BY <3>1 DEF Adjusted, index, size
      <4>5. Shl(v[Len(v)], BitOf(index)) = v[1]
        BY <1>2, <2>1, <4>1, <4>3
      <4> QED  BY <4>2, <4>4, <4>5
    <3>2. CASE ~(size < 10)
      BY <3>2 DEF Adjusted, size
    <3> QED  BY <3>1, <3>2
  <2>3. low - (n - 1) * 10 = first /\ BitOf(n * 10) = 0 /\ Bytes(n * 10) = n /\ n * 10 \in Nat \ {0}
        /\ ~Partial(first, n * 10)
    BY <1>1, <1>2, <1>3, <2>1 DEF BitOf, Bytes, Partial
  <2>4. PutGiven(p, f, v) = SetPosition(p, first, n * 10, v)
    <3>1. PutGiven(p, f, v) = SetPosition(p, low - (n - 1) * 10, n * 10, v)
      BY <1>2, <2>2 DEF PutGiven, low, index
    <3> HIDE DEF low
    <3> QED  BY <2>3, <3>1
  <2> HIDE DEF low
  <2>5. v[1] \subseteq BitMask(BitOf(n * 10))
    BY <2>1, <2>3 DEF BitMask, Byte
  <2>6. first >= 90 /\ Len(v) = Bytes(size) /\ Len(v) = Bytes(n * 10)
    BY <1>2, <2>3 DEF n
  <2>7. SetPosition(p, first, size, v) = OrAt(Pad(p, ByteOf(first) + Bytes(size) - 1), ByteOf(first), v)
    BY <1>2, <1>6, <2>1, <2>6, WholeBytes
  <2> DEFINE m == n * 10
  <2>8. m \in Nat \ {0} /\ ~Partial(first, m) /\ Len(v) = Bytes(m) /\ v[1] \subseteq BitMask(BitOf(m))
    BY <2>3, <2>5, <2>6
  <2> HIDE DEF m
  <2>9. SetPosition(p, first, m, v) = OrAt(Pad(p, ByteOf(first) + Bytes(m) - 1), ByteOf(first), v)
    BY <1>2, <2>6, <2>8, WholeBytes
  <2>10. Bytes(m) = Bytes(size)
    BY <2>6, <2>8
  <2> QED  BY <2>4, <2>7, <2>9, <2>10 DEF m, first, size
<1> QED  BY <1>5, <1>6

-----------------------------------------------------------------------------
\* The report has the bytes of a field three further on.
LEMMA ReportReads ==
    ASSUME NEW p \in Seq(Byte), NEW index, NEW size, Field(index, size)
    PROVE  /\ GetPosition(Report(p), index + 30, size) = GetPosition(p, index, size)
           /\ ByteOf(index + 30) > Len(Report(p)) <=> ByteOf(index) > Len(p)
<1> DEFINE k == ByteOf(index)
           r == Report(p)
<1>1. /\ k \in Nat /\ k >= 2 /\ index \in Nat /\ Len(p) \in Nat /\ DOMAIN p = 1..Len(p) /\ Bytes(size) \in Nat \ {0}
  BY FieldFacts
<1>2. ByteOf(index + 30) = k + 3 /\ BitOf(index + 30) = BitOf(index)
  <2>0. index \in Nat
    BY <1>1
  <2> QED  BY <2>0 DEF ByteOf, BitOf
<1>3. Len(r) = Len(p) + 3 /\ \A j \in Nat : j >= 2 /\ j <= Len(p) => r[j + 3] = p[j]
  BY <1>1 DEF Report
<1>4. Partial(index + 30, size) <=> Partial(index, size)
  BY <1>2 DEF Partial
<1> HIDE DEF k, r
<1>5. k + 3 > Len(r) <=> k > Len(p)
  BY <1>1, <1>3
<1>6. CASE k > Len(p) \/ (Partial(index, size) /\ size > 10)
  <2>1. GetPosition(p, index, size) = <<{}>>
    BY <1>6 DEF GetPosition, k
  <2>2. GetPosition(r, index + 30, size) = <<{}>>
    BY <1>2, <1>4, <1>5, <1>6 DEF GetPosition
  <2> QED  BY <1>2, <1>5, <2>1, <2>2 DEF k, r
<1>7. CASE ~(k > Len(p) \/ (Partial(index, size) /\ size > 10))
  <2>0. r[k + 3] = p[k] /\ ~(k + 3 > Len(r))
    BY <1>1, <1>3, <1>5, <1>7
  <2>1. CASE Partial(index, size)
    <3>1. GetPosition(p, index, size) = <<Shr(p[k], BitOf(index)) \intersect BitMask(size)>>
      BY <1>7, <2>1 DEF GetPosition, k
    <3>2. GetPosition(r, index + 30, size) = <<Shr(r[k + 3], BitOf(index)) \intersect BitMask(size)>>
      BY <1>2, <1>4, <1>7, <2>0, <2>1 DEF GetPosition
    <3> QED  BY <1>2, <1>5, <2>0, <3>1, <3>2 DEF k, r
  <2>2. CASE ~Partial(index, size)
    <3> DEFINE A(i) == IF i = 1 THEN p[k] \intersect BitMask(BitOf(size))
                       ELSE IF k + i - 1 <= Len(p) THEN p[k + i - 1] ELSE {}
               B(i) == IF i = 1 THEN r[k + 3] \intersect BitMask(BitOf(size))
                       ELSE IF k + 3 + i - 1 <= Len(r) THEN r[k + 3 + i - 1] ELSE {}
    <3>1. GetPosition(p, index, size) = [i \in 1..Bytes(size) |-> A(i)]
      BY <1>7, <2>2 DEF GetPosition, k
    <3>2. GetPosition(r, index + 30, size) = [i \in 1..Bytes(size) |-> B(i)]
      BY <1>2, <1>4, <1>7, <2>0, <2>2 DEF GetPosition
    <3>3. ASSUME NEW i \in 1..Bytes(size) PROVE A(i) = B(i)
      <4>1. CASE i = 1
        BY <2>0, <4>1
      <4>2. CASE i # 1
        <5> DEFINE j == k + i - 1
        <5>1. j \in Nat /\ j >= 2 /\ k + 3 + i - 1 = j + 3 /\ (j + 3 <= Len(r) <=> j <= Len(p))
          BY <1>1, <1>3
        <5>2. j <= Len(p) => r[j + 3] = p[j]
          BY <1>3, <5>1
        <5> HIDE DEF j
        <5> QED  BY <4>2, <5>1, <5>2 DEF j
      <4> QED  BY <4>1, <4>2
    <3> HIDE DEF A, B
    <3>4. [i \in 1..Bytes(size) |-> A(i)] = [i \in 1..Bytes(size) |-> B(i)]
      BY <3>3
    <3> QED  BY <1>2, <1>5, <3>1, <3>2, <3>4 DEF k, r
  <2> QED  BY <2>1, <2>2
<1> QED  BY <1>6, <1>7

LEMMA FirstExcept == ASSUME NEW a, NEW b PROVE [<<a>> EXCEPT ![1] = b] = <<b>>
OBVIOUS

\* The device reads a value from a packet, or from its own report of it, if every
\* field of the parameter shows it: a whole one, or the low and the high bits of
\* one that is split.
THEOREM ReadValue ==
    ASSUME NEW g \in Groups, NEW f \in Of(g), NEW v \in Values[f], NEW p \in Seq(Byte),
           \A e \in Parts(g) : e.param = f => Shows(p, e, v)
    PROVE  DeviceReads(p, f) = v
<1>1. f \in Params /\ Layout[f].group = g /\ (f \in ConfigParams <=> g \in Lists)
  BY OfFacts
<1>2. CASE g \in Lists
  <2> DEFINE e == ListPart(f)
  <2>1. e \in Parts(g) /\ e.param = f /\ ~HasOffset(e) /\ e.index = FirstByte(f) /\ e.size = Layout[f].size
    BY <1>2, ListPartOf DEF ListPart
  <2>2. Field(FirstByte(f), Layout[f].size)
    BY <2>1, PartFacts
  <2>3. Fits(v, FirstByte(f), Layout[f].size)
    BY <1>1, <1>2, ConfigurationAssumption
  <2>4. Showing(p, FirstByte(f), Layout[f].size, v)
    BY <2>1 DEF Shows, Data
  <2>5. GetPosition(p, FirstByte(f), Layout[f].size) = v
    BY <2>2, <2>3, <2>4, ReadFits
  <2> QED  BY <1>1, <1>2, <2>5 DEF DeviceReads
<1>3. CASE g \notin Lists
  <2>1. (Whole(f) \/ Split(f)) /\ f \notin ConfigParams
    BY <1>1, <1>3, ConfigurationAssumption
  <2>2. DeviceReads(p, f) = ReadElement(Report(p), Layout[f].report)
    BY <2>1 DEF DeviceReads
  <2>3. CASE Whole(f)
    <3>1. PICK e \in Parts(g) :
             /\ e.param = f /\ ~HasOffset(e) /\ Fits(v, e.index, e.size)
             /\ Layout[f].report = [index |-> e.index + 30, size |-> e.size]
      BY <1>1, <2>3 DEF Whole
    <3>2. Field(e.index, e.size)
      BY PartFacts
    <3>3. Showing(p, e.index, e.size, v)
      BY <3>1 DEF Shows, Data
    <3>4. GetPosition(p, e.index, e.size) = v
      BY <3>1, <3>2, <3>3, ReadFits
    <3>5. GetPosition(Report(p), e.index + 30, e.size) = v
      BY <3>2, <3>4, ReportReads
    <3>6. ReadElement(Report(p), Layout[f].report) = GetPosition(Report(p), e.index + 30, e.size)
      <4> DEFINE r == Layout[f].report
      <4>1. "index2" \notin DOMAIN r /\ r.index = e.index + 30 /\ r.size = e.size
        BY <3>1
      <4> HIDE DEF r
      <4> QED  BY <4>1 DEF ReadElement, r
    <3> QED  BY <2>2, <3>5, <3>6
  <2>4. CASE Split(f)
    <3>1. PICK low \in Parts(g), high \in Parts(g) :
             /\ low.param = f /\ high.param = f
             /\ ~HasOffset(low) /\ low.size < 8 /\ BitOf(low.index) + low.size = 8
             /\ HasOffset(high) /\ high.offset = low.size
             /\ v \in Seq(Byte) /\ Len(v) = 1 /\ v[1] \subseteq BitMask(high.offset + high.size)
             /\ high.size < 8 /\ high.offset + high.size <= 8
             /\ Layout[f].report = [index |-> low.index + 30, size |-> low.size,
                                    index2 |-> high.index + 30, size2 |-> high.size, offset |-> high.offset]
      BY <1>1, <2>4 DEF Split
    <3>2. Field(low.index, low.size) /\ Field(high.index, high.size)
      BY PartFacts
    <3> DEFINE s == low.size
    <3>3. s \in 1..7 /\ Partial(low.index, low.size) /\ Data(low, v) = v /\ Within(v, low.index, low.size)
      <4>1. Data(low, v) = v /\ Partial(low.index, low.size) /\ Within(v, low.index, low.size)
        BY <3>1, <3>2, LowFits
      <4> QED  BY <3>2, <4>1, FieldFacts
    <3>4. v[1] \in Byte /\ v = <<v[1]>> /\ Len(v) = 1
      BY <3>1, OneByte
    <3>5. GetPosition(p, low.index, low.size) = <<v[1] \intersect BitMask(s)>>
      <4>1. Writable(v, low.index, low.size) /\ Showing(p, low.index, low.size, v)
        BY <3>1, <3>3 DEF Within, Shows
      <4>2. GetPosition(p, low.index, low.size) = <<v[Len(v)] \intersect BitMask(low.size)>>
        BY <3>2, <3>3, <4>1, ReadBits
      <4> QED  BY <3>4, <4>2
    <3>6. GetPosition(p, high.index, high.size) = <<Shr(v[1], s)>>
      <4>1. Data(high, v) = <<Shr(v[1], s)>> /\ Fits(Data(high, v), high.index, high.size)
        <5>1. s \in Nat /\ high.offset = s /\ s + high.size <= 8 /\ v[1] \subseteq BitMask(s + high.size)
          BY <3>1, <3>3
        <5> HIDE DEF s
        <5> QED  BY <3>1, <3>2, <5>1, HighFits
      <4>2. Showing(p, high.index, high.size, Data(high, v))
        BY <3>1 DEF Shows
      <4> QED  BY <3>2, <4>1, <4>2, ReadFits
    <3>7. ByteOf(high.index) \in Nat /\ ~(ByteOf(high.index) > Len(p))
      <4>1. ByteOf(high.index) + Bytes(high.size) - 1 \in DOMAIN p
        BY <3>1 DEF Shows, Showing
      <4>2. ByteOf(high.index) \in Nat /\ Bytes(high.size) \in Nat \ {0}
        BY <3>2, FieldFacts
      <4> QED  BY <4>1, <4>2
    <3> DEFINE r == Layout[f].report
               q == Report(p)
               A == <<v[1] \intersect BitMask(s)>>
               B == <<Shr(v[1], s)>>
    <3>8. /\ "index2" \in DOMAIN r /\ r.index = low.index + 30 /\ r.size = low.size
          /\ r.index2 = high.index + 30 /\ r.size2 = high.size /\ r.offset = s
      BY <3>1
    <3>9. /\ GetPosition(q, r.index, r.size) = A /\ GetPosition(q, r.index2, r.size2) = B
          /\ ~(ByteOf(r.index2) > Len(q))
      <4>1. /\ GetPosition(q, low.index + 30, low.size) = GetPosition(p, low.index, low.size)
            /\ GetPosition(q, high.index + 30, high.size) = GetPosition(p, high.index, high.size)
            /\ ByteOf(high.index + 30) > Len(q) <=> ByteOf(high.index) > Len(p)
        BY <3>2, ReportReads
      <4> HIDE DEF q, r
      <4> QED  BY <3>5, <3>6, <3>7, <3>8, <4>1
    <3>10. s \div 8 + 1 = 1 /\ s % 8 = s /\ s \in Nat
      BY <3>3
    <3>11. 1 \in DOMAIN A /\ A[1] = v[1] \intersect BitMask(s) /\ B[1] = Shr(v[1], s) 
      OBVIOUS
    <3>15. A = <<v[1] \intersect BitMask(s)>>
      OBVIOUS
    <3>12. A[1] \union Shl(B[1], s) = v[1]
      <4>0. s \in 1..7 /\ s # 0 /\ v[1] \subseteq Bits
        BY <3>3, <3>4 DEF Byte
      <4> HIDE DEF s, A, B
      <4>1. ASSUME NEW i \in Bits PROVE i \in A[1] \union Shl(B[1], s) <=> i \in v[1]
        <5>1. CASE i < s
          <6>1. i - s \notin Bits
            BY <4>0, <5>1 DEF Bits
          <6> QED  BY <3>11, <4>0, <5>1, <6>1 DEF Shl, Shr, BitMask
        <5>2. CASE ~(i < s)
          <6>1. i - s \in Bits /\ (i - s) + s = i
            BY <4>0, <5>2 DEF Bits
          <6> QED  BY <3>11, <4>0, <5>2, <6>1 DEF Shl, Shr, BitMask
        <5> QED  BY <5>1, <5>2
      <4>2. A[1] \union Shl(B[1], s) \subseteq Bits
        BY <3>11, <4>0 DEF Shl
      <4> QED  BY <4>0, <4>1, <4>2
    <3> HIDE DEF A, B, q, r, s
    <3>13. ReadElement(q, r) = [A EXCEPT ![1] = @ \union Shl(B[1], s)]
      <4>1. ReadElement(q, r) = LET k == r.offset \div 8 + 1
                                IN  IF k \in DOMAIN A
                                      THEN [A EXCEPT ![k] = @ \union Shl(B[1], r.offset % 8)]
                                      ELSE B \o A
        BY <3>8, <3>9 DEF ReadElement
      <4> QED  BY <3>8, <3>10, <3>11, <4>1
    <3>14. [A EXCEPT ![1] = @ \union Shl(B[1], s)] = <<v[1]>>
      <4>1. [A EXCEPT ![1] = @ \union Shl(B[1], s)] = [A EXCEPT ![1] = v[1]]
        BY <3>12
      <4> QED  BY <3>15, <4>1, FirstExcept
    <3> QED  BY <2>2, <3>4, <3>13, <3>14 DEF q, r
  <2> QED  BY <2>1, <2>3, <2>4
<1> QED  BY <1>2, <1>3

-----------------------------------------------------------------------------
\* The sequence of the packets that are left is one.
LEMMA InOrderFacts ==
    ASSUME NEW n \in Nat, NEW S \in SUBSET (1..n), NEW at \in InOrder(S)
    PROVE  /\ Cardinality(S) \in Nat /\ at \in [1..Cardinality(S) -> S] /\ DOMAIN at = 1..Cardinality(S)
           /\ \A i \in S : \E k \in DOMAIN at : at[k] = i
           /\ \A j, k \in DOMAIN at : j < k => at[j] < at[k]
<1>1. IsFiniteSet(1..n)
  BY FS_Interval
<1>2. IsFiniteSet(S)
  BY <1>1, FS_Subset
<1>3. Cardinality(S) \in Nat
  BY <1>2, FS_CardinalityType
<1> QED  BY <1>3 DEF InOrder

-----------------------------------------------------------------------------
(* What the steps do                                                        *)

\* What a step of a call does to its record; the others are left alone.
Moves(c, at, todo, lists, list, payload, next) ==
    /\ client' \in [Clients -> CallRecord]
    /\ \A d \in Clients \ {c} : client'[d] = client[d]
    /\ client'[c].at = at /\ client'[c].given = client[c].given /\ client'[c].todo = todo
    /\ client'[c].lists = lists /\ client'[c].list = list /\ client'[c].payload = payload
    /\ client'[c].next = next /\ client'[c].overlapped = client[c].overlapped

LEMMA MovesBy ==
    ASSUME client \in [Clients -> CallRecord], NEW c \in Clients,
           NEW at \in Labels, NEW todo \in SUBSET Params, NEW lists \in SUBSET Groups,
           NEW list \in Groups \union {NoGroup}, NEW payload \in Seq(Byte), NEW next \in Nat,
           client' = [client EXCEPT ![c] = [@ EXCEPT !.at = at, !.todo = todo, !.lists = lists,
                                                     !.list = list, !.payload = payload, !.next = next]]
    PROVE  Moves(c, at, todo, lists, list, payload, next)
<1>1. client[c] \in CallRecord
  OBVIOUS
<1> DEFINE r == [client[c] EXCEPT !.at = at, !.todo = todo, !.lists = lists,
                                  !.list = list, !.payload = payload, !.next = next]
<1>2. /\ r \in CallRecord /\ r.at = at /\ r.given = client[c].given /\ r.todo = todo
      /\ r.lists = lists /\ r.list = list /\ r.payload = payload
      /\ r.next = next /\ r.overlapped = client[c].overlapped
  BY <1>1 DEF CallRecord
<1>3. client' = [client EXCEPT ![c] = r]
  OBVIOUS
<1> HIDE DEF r
<1>4. client'[c] = r /\ client' \in [Clients -> CallRecord] /\ \A d \in Clients \ {c} : client'[d] = client[d]
  BY <1>2, <1>3
<1> QED  BY <1>2, <1>4 DEF Moves

LEMMA SetParameterEffect ==
    ASSUME TypeInv, NEW c \in Clients, NEW f \in Params, SetParameter(c, f)
    PROVE  /\ Doing(c, "Set") /\ f \in client[c].todo
           /\ Moves(c, IF client[c].todo = {f} THEN "Start" ELSE "Set", client[c].todo \ {f},
                    client[c].lists, client[c].list, client[c].payload, client[c].next)
           /\ \A g \in Params \ {f} : cache'[g] = cache[g] /\ had'[g] = had[g]
           /\ cache'[f] = client[c].given[f] /\ had'[f] = had[f] \union {client[c].given[f]}
           /\ DOMAIN cache' = Params /\ DOMAIN had' = Params
           /\ UNCHANGED <<pending, device, mixed, calls, stale>>
<1>1. client \in [Clients -> CallRecord] /\ client[c] \in CallRecord /\ DOMAIN cache = Params /\ DOMAIN had = Params
  BY DEF TypeInv, CallType, CacheType
<1> DEFINE at == IF client[c].todo = {f} THEN "Start" ELSE "Set"
           todo == client[c].todo \ {f}
           r == client[c]
<1>2. /\ at \in Labels /\ todo \in SUBSET Params /\ r.lists \in SUBSET Groups
      /\ r.list \in Groups \union {NoGroup} /\ r.payload \in Seq(Byte) /\ r.next \in Nat
  BY <1>1 DEF CallRecord, Labels
<1>3. client' = [client EXCEPT ![c] = [@ EXCEPT !.at = at, !.todo = todo, !.lists = r.lists,
                                                !.list = r.list, !.payload = r.payload, !.next = r.next]]
  BY <1>1 DEF SetParameter, CallRecord
<1> HIDE DEF at, todo
<1>4. Moves(c, at, todo, r.lists, r.list, r.payload, r.next)
  BY <1>1, <1>2, <1>3, MovesBy
<1>5. /\ Doing(c, "Set") /\ f \in client[c].todo
      /\ cache' = [cache EXCEPT ![f] = client[c].given[f]]
      /\ had' = [had EXCEPT ![f] = @ \union {client[c].given[f]}]
      /\ UNCHANGED <<pending, device, mixed, calls, stale>>
  BY DEF SetParameter
<1> QED  BY <1>1, <1>4, <1>5 DEF at, todo

LEMMA Record ==
    ASSUME TypeInv, NEW c \in Clients
    PROVE  /\ client \in [Clients -> CallRecord] /\ client[c] \in CallRecord /\ CallInv(client[c])
           /\ client[c].at \in Labels /\ client[c].todo \in SUBSET Params
           /\ client[c].lists \in SUBSET Groups /\ client[c].list \in Groups \union {NoGroup}
           /\ client[c].payload \in Seq(Byte) /\ client[c].next \in Nat
           /\ client[c].overlapped \in BOOLEAN /\ client[c].given \in Givens
           /\ DOMAIN client[c].given \subseteq Params
           /\ \A f \in DOMAIN client[c].given : client[c].given[f] \in Values[f]
<1>1. client \in [Clients -> CallRecord] /\ client[c] \in CallRecord /\ CallInv(client[c])
  BY DEF TypeInv, CallType, CacheType
<1>2. client[c].given \in Givens
  BY <1>1 DEF CallRecord
<1>3. DOMAIN client[c].given \subseteq Params /\ \A f \in DOMAIN client[c].given : client[c].given[f] \in Values[f]
  BY <1>2 DEF Givens
<1> QED  BY <1>1, <1>2, <1>3 DEF CallRecord

LEMMA NoGroupIsNone ==
    NoGroup \notin Groups /\ Lists \subseteq Groups /\ Frames \subseteq Groups /\ Lists \intersect Frames = {}
BY ConfigurationAssumption DEF Groups

LEMMA StartListEffect ==
    ASSUME TypeInv, NEW c \in Clients, NEW l, StartList(c, l)
    PROVE  /\ Doing(c, "Start") /\ l \in client[c].lists /\ l \in Lists /\ l \in Groups
           /\ ListHeader(l) \in Seq(Byte) /\ Len(ListHeader(l)) = 2
           /\ Moves(c, "Given", GivenIn(client[c].given, l), client[c].lists \ {l}, l, ListHeader(l),
                    client[c].next)
           /\ UNCHANGED <<cache, pending, device, mixed, calls, had, stale>>
<1> DEFINE r == client[c]
           todo == GivenIn(client[c].given, l)
<1>1. /\ r \in CallRecord /\ r.next \in Nat /\ r.lists \in SUBSET Groups /\ DOMAIN r.given \subseteq Params
      /\ client \in [Clients -> CallRecord]
  BY Record
<1>2. /\ Doing(c, "Start") /\ l \in client[c].lists /\ l \in Lists /\ l \in Groups
      /\ UNCHANGED <<cache, pending, device, mixed, calls, had, stale>>
  BY NoGroupIsNone DEF StartList
<1>3. ListHeader(l) \in Seq(Byte) /\ Len(ListHeader(l)) = 2
  <2>1. Number[l] \in Byte /\ {} \in Byte
    BY <1>2, ConfigurationAssumption DEF Byte
  <2> QED  BY <2>1 DEF ListHeader
<1>4. /\ "Given" \in Labels /\ todo \in SUBSET Params /\ r.lists \ {l} \in SUBSET Groups
      /\ l \in Groups \union {NoGroup}
  BY <1>1, <1>2 DEF Labels, GivenIn
<1>5. client' = [client EXCEPT ![c] = [@ EXCEPT !.at = "Given", !.todo = todo, !.lists = r.lists \ {l},
                                                !.list = l, !.payload = ListHeader(l), !.next = r.next]]
  BY <1>1 DEF StartList, CallRecord
<1> HIDE DEF todo
<1>6. Moves(c, "Given", todo, r.lists \ {l}, l, ListHeader(l), r.next)
  BY <1>1, <1>3, <1>4, <1>5, MovesBy
<1> QED  BY <1>2, <1>3, <1>6 DEF todo

LEMMA StartFrameEffect ==
    ASSUME TypeInv, NEW c \in Clients, NEW g, StartFrame(c, g)
    PROVE  /\ Doing(c, "Start") /\ g \in client[c].lists /\ g \in Frames /\ g \in Groups
           /\ FrameHeader \in Seq(Byte) /\ Len(FrameHeader) = 1
           /\ Moves(c, "Element", client[c].todo, client[c].lists \ {g}, g, FrameHeader, 1)
           /\ UNCHANGED <<cache, pending, device, mixed, calls, had, stale>>
<1> DEFINE r == client[c]
<1>1. /\ r \in CallRecord /\ r.todo \in SUBSET Params /\ r.lists \in SUBSET Groups
      /\ client \in [Clients -> CallRecord]
  BY Record
<1>2. /\ Doing(c, "Start") /\ g \in client[c].lists /\ g \in Frames /\ g \in Groups
      /\ UNCHANGED <<cache, pending, device, mixed, calls, had, stale>>
  BY NoGroupIsNone DEF StartFrame
<1>3. FrameHeader \in Seq(Byte) /\ Len(FrameHeader) = 1
  <2>1. {} \in Byte
    BY DEF Byte
  <2> QED  BY <2>1 DEF FrameHeader
<1>4. /\ "Element" \in Labels /\ r.lists \ {g} \in SUBSET Groups /\ g \in Groups \union {NoGroup} /\ 1 \in Nat
  BY <1>1, <1>2 DEF Labels
<1>5. client' = [client EXCEPT ![c] = [@ EXCEPT !.at = "Element", !.todo = r.todo, !.lists = r.lists \ {g},
                                                !.list = g, !.payload = FrameHeader, !.next = 1]]
  BY <1>1 DEF StartFrame, CallRecord
<1>6. Moves(c, "Element", r.todo, r.lists \ {g}, g, FrameHeader, 1)
  BY <1>1, <1>3, <1>4, <1>5, MovesBy
<1> QED  BY <1>2, <1>3, <1>6

\* A field of the packet of a call is written.
Writes(c, e, v, at, todo, next) ==
    /\ client[c].list \in Groups /\ e \in Parts(client[c].list) /\ v \in Values[e.param]
    /\ Moves(c, at, todo, client[c].lists, client[c].list,
             SetPosition(client[c].payload, e.index, e.size, Data(e, v)), next)

LEMMA PutEffect ==
    ASSUME TypeInv, NEW c \in Clients, NEW f \in Params, Put(c, f)
    PROVE  LET r == client[c]
           IN  /\ Doing(c, "Given") /\ f \in r.todo /\ f \in DOMAIN r.given /\ f \in Of(r.list)
               /\ r.list \in Lists
               /\ Writes(c, ListPart(f), r.given[f],
                         IF r.todo = {f} THEN "Fill" ELSE "Given",
                         IF r.todo = {f} THEN Missing(r.given, r.list) ELSE r.todo \ {f}, r.next)
               /\ UNCHANGED <<cache, pending, device, mixed, calls, had, stale>>
<1> DEFINE r == client[c]
           v == r.given[f]
           e == ListPart(f)
           at == IF r.todo = {f} THEN "Fill" ELSE "Given"
           todo == IF r.todo = {f} THEN Missing(r.given, r.list) ELSE r.todo \ {f}
           new == SetPosition(r.payload, e.index, e.size, Data(e, v))
<1>1. /\ r \in CallRecord /\ r.next \in Nat /\ r.lists \in SUBSET Groups /\ DOMAIN r.given \subseteq Params
      /\ client \in [Clients -> CallRecord] /\ r.todo \in SUBSET Params /\ CallInv(r) /\ r.payload \in Seq(Byte)
      /\ \A g \in DOMAIN r.given : r.given[g] \in Values[g]
  BY Record
<1>2. /\ Doing(c, "Given") /\ f \in r.todo
      /\ UNCHANGED <<cache, pending, device, mixed, calls, had, stale>>
  BY DEF Put
<1>3. r.list \in Lists /\ f \in GivenIn(r.given, r.list) /\ r.list \in Groups
  BY <1>1, <1>2, NoGroupIsNone DEF CallInv, Doing
<1>4. f \in DOMAIN r.given /\ f \in Of(r.list) /\ v \in Values[f]
  BY <1>1, <1>3 DEF GivenIn, Of
<1>5. e \in Parts(r.list) /\ e.param = f /\ ~HasOffset(e) /\ f \in ConfigParams
  BY <1>3, <1>4, ListPartOf, OfFacts
<1>6. PutGiven(r.payload, f, v) = new
  <2>1. e.index = FirstByte(f) /\ e.size = Layout[f].size /\ Data(e, v) = v
    BY <1>5 DEF ListPart, Data
  <2>2. Field(FirstByte(f), Layout[f].size)
    BY <1>3, <1>5, <2>1, PartFacts
  <2>3. PutGiven(r.payload, f, v) = SetPosition(r.payload, FirstByte(f), Layout[f].size, v)
    BY <1>1, <1>4, <1>5, <2>2, PutGivenIs
  <2> QED  BY <2>1, <2>3
<1>7. new \in Seq(Byte)
  BY <1>1, <1>3, <1>4, <1>5, WritePart
<1>8. at \in Labels /\ todo \in SUBSET Params /\ r.list \in Groups \union {NoGroup}
  BY <1>1, <1>3 DEF Labels, Missing, Of
<1> HIDE DEF e, v, new
<1>9. client' = [client EXCEPT ![c] = [@ EXCEPT !.at = at, !.todo = todo, !.lists = r.lists,
                                                !.list = r.list, !.payload = new, !.next = r.next]]
  <2>1. client' = [client EXCEPT ![c].payload = PutGiven(@, f, client[c].given[f]),
                                 ![c].todo = todo, ![c].at = at]
    BY DEF Put
  <2>2. client' = [client EXCEPT ![c].payload = new, ![c].todo = todo, ![c].at = at]
    BY <1>1, <1>6, <2>1 DEF v
  <2> HIDE DEF at, todo
  <2> QED  BY <1>1, <2>2 DEF CallRecord
<1> HIDE DEF at, todo
<1>10. Moves(c, at, todo, r.lists, r.list, new, r.next)
  BY <1>1, <1>7, <1>8, <1>9, MovesBy
<1>11. Writes(c, e, v, at, todo, r.next)
  BY <1>3, <1>4, <1>5, <1>10 DEF Writes, new
<1> QED  BY <1>2, <1>3, <1>4, <1>11 DEF at, todo, e, v

\* What the cache has of a parameter is one of its values.
LEMMA CacheValue ==
    ASSUME TypeInv, NEW f \in Params
    PROVE  cache[f] \in had[f] /\ cache[f] \in Values[f] /\ had[f] \subseteq Values[f]
BY DEF TypeInv, CacheType

LEMMA FillEffect ==
    ASSUME TypeInv, NEW c \in Clients, NEW f \in Params, Fill(c, f)
    PROVE  LET r == client[c]
           IN  /\ Doing(c, "Fill") /\ f \in r.todo /\ f \in Of(r.list) /\ r.list \in Lists
               /\ Writes(c, ListPart(f), cache[f], "Fill", r.todo \ {f}, r.next)
               /\ UNCHANGED <<cache, pending, device, mixed, calls, had, stale>>
<1> DEFINE r == client[c]
           v == cache[f]
           e == ListPart(f)
           todo == r.todo \ {f}
           new == SetPosition(r.payload, e.index, e.size, Data(e, v))
<1>1. /\ r \in CallRecord /\ r.next \in Nat /\ r.lists \in SUBSET Groups
      /\ client \in [Clients -> CallRecord] /\ r.todo \in SUBSET Params /\ CallInv(r) /\ r.payload \in Seq(Byte)
  BY Record
<1>2. /\ Doing(c, "Fill") /\ f \in r.todo
      /\ UNCHANGED <<cache, pending, device, mixed, calls, had, stale>>
  BY DEF Fill
<1>3. r.list \in Lists /\ f \in Missing(r.given, r.list) /\ r.list \in Groups
  BY <1>1, <1>2, NoGroupIsNone DEF CallInv, Doing
<1>4. f \in Of(r.list) /\ v \in Values[f]
  BY <1>3, CacheValue DEF Missing
<1>5. e \in Parts(r.list) /\ e.param = f /\ ~HasOffset(e)
  BY <1>3, <1>4, ListPartOf
<1>6. SetPosition(r.payload, FirstByte(f), Layout[f].size, v) = new
  BY <1>5 DEF ListPart, Data
<1>7. new \in Seq(Byte)
  BY <1>1, <1>3, <1>4, <1>5, WritePart
<1>8. "Fill" \in Labels /\ todo \in SUBSET Params /\ r.list \in Groups \union {NoGroup}
  BY <1>1, <1>3 DEF Labels
<1> HIDE DEF e, new
<1>9. client' = [client EXCEPT ![c] = [@ EXCEPT !.at = "Fill", !.todo = todo, !.lists = r.lists,
                                                !.list = r.list, !.payload = new, !.next = r.next]]
  <2>1. client' = [client EXCEPT ![c].payload = new, ![c].todo = todo]
    BY <1>1, <1>6 DEF Fill, CallRecord
  <2> HIDE DEF todo
  <2> QED  BY <1>1, <1>2, <2>1 DEF CallRecord, Doing
<1> HIDE DEF todo, v
<1>10. Moves(c, "Fill", todo, r.lists, r.list, new, r.next)
  BY <1>1, <1>7, <1>8, <1>9, MovesBy
<1>11. Writes(c, e, v, "Fill", todo, r.next)
  BY <1>3, <1>4, <1>5, <1>10 DEF Writes, new
<1> QED  BY <1>2, <1>3, <1>4, <1>11 DEF todo, e, v

LEMMA ElementEffect ==
    ASSUME TypeInv, NEW c \in Clients, Element(c)
    PROVE  LET r == client[c]
               e == Elements[r.list][r.next]
           IN  /\ Doing(c, "Element") /\ r.list \in Frames /\ r.next \in 1..Len(Elements[r.list])
               /\ Writes(c, e, cache[e.param],
                         IF r.next = Len(Elements[r.list]) THEN "Remove" ELSE "Element", r.todo, r.next + 1)
               /\ UNCHANGED <<cache, pending, device, mixed, calls, had, stale>>
<1> DEFINE r == client[c]
           e == Elements[r.list][r.next]
           v == cache[e.param]
           at == IF r.next = Len(Elements[r.list]) THEN "Remove" ELSE "Element"
           new == SetPosition(r.payload, e.index, e.size, Data(e, v))
<1>1. /\ r \in CallRecord /\ r.next \in Nat /\ r.lists \in SUBSET Groups
      /\ client \in [Clients -> CallRecord] /\ r.todo \in SUBSET Params /\ CallInv(r) /\ r.payload \in Seq(Byte)
  BY Record
<1>2. /\ Doing(c, "Element")
      /\ UNCHANGED <<cache, pending, device, mixed, calls, had, stale>>
  BY DEF Element
<1>3. r.list \in Frames /\ r.next \in 1..Len(Elements[r.list]) /\ r.list \in Groups
  BY <1>1, <1>2, NoGroupIsNone DEF CallInv, Doing
<1>4. e \in Parts(r.list)
  <2>1. Elements[r.list] \in Seq(Parts(r.list))
    BY <1>3, ConfigurationAssumption
  <2> QED  BY <1>3, <2>1
<1>5. e.param \in Params /\ v \in Values[e.param]
  BY <1>3, <1>4, PartFacts, CacheValue
<1>6. WriteElement(r.payload, e, v) = new
  BY DEF WriteElement, Data, HasOffset
<1>7. new \in Seq(Byte)
  BY <1>1, <1>3, <1>4, <1>5, WritePart
<1>8. at \in Labels /\ r.list \in Groups \union {NoGroup} /\ r.next + 1 \in Nat
  BY <1>1, <1>3 DEF Labels
<1>9. client' = [client EXCEPT ![c] = [@ EXCEPT !.at = at, !.todo = r.todo, !.lists = r.lists,
                                                !.list = r.list, !.payload = new, !.next = r.next + 1]]
  <2>1. client' = [client EXCEPT ![c].payload = WriteElement(@, e, v), ![c].next = r.next + 1, ![c].at = at]
    BY DEF Element
  <2> HIDE DEF at, e, v, new
  <2>2. client' = [client EXCEPT ![c].payload = new, ![c].next = r.next + 1, ![c].at = at]
    BY <1>1, <1>6, <2>1 DEF CallRecord
  <2> QED  BY <1>1, <2>2 DEF CallRecord
<1> HIDE DEF at, e, v, new
<1>10. Moves(c, at, r.todo, r.lists, r.list, new, r.next + 1)
  BY <1>1, <1>7, <1>8, <1>9, MovesBy
<1>11. Writes(c, e, v, at, r.todo, r.next + 1)
  BY <1>3, <1>4, <1>5, <1>10 DEF Writes, new
<1> QED  BY <1>2, <1>3, <1>11 DEF at, e, v

LEMMA RemoveEffect ==
    ASSUME TypeInv, NEW c \in Clients, Remove(c)
    PROVE  LET r == client[c]
           IN  /\ Doing(c, "Remove") /\ r.list \in Frames
               /\ Moves(c, "Push", r.todo, r.lists, r.list, r.payload, r.next)
               /\ \E at \in InOrder(Others(c)) : pending' = [k \in DOMAIN at |-> pending[at[k]]]
               /\ UNCHANGED <<cache, device, mixed, calls, had, stale>>
<1> DEFINE r == client[c]
<1>1. /\ r \in CallRecord /\ r.next \in Nat /\ r.lists \in SUBSET Groups /\ CallInv(r) /\ r.payload \in Seq(Byte)
      /\ client \in [Clients -> CallRecord] /\ r.todo \in SUBSET Params /\ r.list \in Groups \union {NoGroup}
  BY Record
<1>2. /\ Doing(c, "Remove") /\ UNCHANGED <<cache, device, mixed, calls, had, stale>>
      /\ \E at \in InOrder(Others(c)) : pending' = [k \in DOMAIN at |-> pending[at[k]]]
  BY DEF Remove
<1>3. client' = [client EXCEPT ![c] = [@ EXCEPT !.at = "Push", !.todo = r.todo, !.lists = r.lists,
                                                !.list = r.list, !.payload = r.payload, !.next = r.next]]
  BY <1>1 DEF Remove, CallRecord
<1>4. "Push" \in Labels
  BY DEF Labels
<1>5. Moves(c, "Push", r.todo, r.lists, r.list, r.payload, r.next)
  BY <1>1, <1>3, <1>4, MovesBy
<1>6. r.list \in Frames
  BY <1>1, <1>2 DEF CallInv, Doing
<1> QED  BY <1>2, <1>5, <1>6

LEMMA NoCallIs ==
    /\ NoCall \in CallRecord /\ CallInv(NoCall)
    /\ NoCall.at = "Idle" /\ NoCall.lists = {} /\ NoCall.given = <<>>
<1>1. <<>> \in Givens
  <2>1. DOMAIN <<>> = {}
    OBVIOUS
  <2>2. <<>> \in [{} -> UNION {Values[f] : f \in {}}]
    BY <2>1
  <2>3. {} \in SUBSET Params
    OBVIOUS
  <2>4. <<>> \in UNION {[fs -> UNION {Values[f] : f \in fs}] : fs \in SUBSET Params}
    BY <2>2, <2>3
  <2> QED  BY <2>1, <2>4 DEF Givens
<1>2. "Idle" \in Labels /\ <<>> \in Seq(Byte) /\ 1 \in Nat
  BY DEF Labels
<1>3. NoCall \in CallRecord
  BY <1>1, <1>2 DEF NoCall, CallRecord
<1>4. NoCall.at = "Idle" /\ NoCall.lists = {} /\ NoCall.given = <<>>
  BY DEF NoCall
<1> QED  BY <1>3, <1>4 DEF CallInv

LEMMA GivenIsOne ==
    ASSUME NEW fs \in SUBSET Params, NEW given \in [fs -> UNION {Values[f] : f \in fs}],
           \A f \in fs : given[f] \in Values[f]
    PROVE  given \in Givens /\ DOMAIN given = fs
BY DEF Givens

\* A call that begins.
Begins(c, given) ==
    /\ client' \in [Clients -> CallRecord]
    /\ client'[c].at = "Set" /\ client'[c].given = given /\ client'[c].todo = DOMAIN given
    /\ client'[c].lists = GroupsOf(given) /\ client'[c].list = NoGroup
    /\ client'[c].overlapped = (Callers # {})
    /\ \A d \in Clients \ {c} :
          /\ client'[d].at = client[d].at /\ client'[d].given = client[d].given
          /\ client'[d].todo = client[d].todo /\ client'[d].lists = client[d].lists
          /\ client'[d].list = client[d].list /\ client'[d].payload = client[d].payload
          /\ client'[d].next = client[d].next
          /\ d \in Callers => client'[d].overlapped

LEMMA BeginEffect ==
    ASSUME TypeInv, NEW c \in Clients, NEW given \in Givens, Begin(c, given)
    PROVE  /\ Doing(c, "Idle") /\ Begins(c, given) /\ calls < Calls /\ calls' = calls + 1
           /\ UNCHANGED <<cache, pending, device, mixed, had, stale>>
<1> DEFINE over == (Callers # {})
           r == [NoCall EXCEPT !.at = "Set", !.given = given, !.todo = DOMAIN given,
                               !.lists = {Layout[f].group : f \in DOMAIN given}, !.overlapped = over]
<1>1. /\ Doing(c, "Idle") /\ calls < Calls /\ calls' = calls + 1
      /\ UNCHANGED <<cache, pending, device, mixed, had, stale>>
      /\ client' = [d \in Clients |-> IF d = c THEN r
                                      ELSE IF d \in Callers THEN [client[d] EXCEPT !.overlapped = TRUE]
                                      ELSE client[d]]
  BY DEF Begin
<1>2. DOMAIN given \in SUBSET Params
  BY DEF Givens
<1>3. GroupsOf(given) \in SUBSET Groups /\ GroupsOf(given) = {Layout[f].group : f \in DOMAIN given}
  BY <1>2, ConfigurationAssumption DEF GroupsOf
<1>4. /\ r \in CallRecord /\ r.at = "Set" /\ r.given = given /\ r.todo = DOMAIN given /\ r.lists = GroupsOf(given)
      /\ r.overlapped = over /\ r.list = NoGroup
  <2>1. over \in BOOLEAN /\ "Set" \in Labels
    BY DEF Labels
  <2> HIDE DEF over
  <2>2. NoCall.list = NoGroup
    BY DEF NoCall
  <2> QED  BY <1>2, <1>3, <2>1, <2>2, NoCallIs DEF CallRecord
<1> HIDE DEF r
<1>5. ASSUME NEW d \in Clients \ {c}
      PROVE  /\ client'[d] \in CallRecord
             /\ client'[d].at = client[d].at /\ client'[d].given = client[d].given
             /\ client'[d].todo = client[d].todo /\ client'[d].lists = client[d].lists
             /\ client'[d].list = client[d].list /\ client'[d].payload = client[d].payload
             /\ client'[d].next = client[d].next
             /\ d \in Callers => client'[d].overlapped
  <2>1. client[d] \in CallRecord
    BY DEF TypeInv, CallType, CacheType
  <2>2. CASE d \in Callers
    <3>1. client'[d] = [client[d] EXCEPT !.overlapped = TRUE]
      BY <1>1, <2>2
    <3> QED  BY <2>1, <3>1 DEF CallRecord
  <2>3. CASE d \notin Callers
    BY <1>1, <2>1, <2>3
  <2> QED  BY <2>2, <2>3
<1>6. client'[c] = r /\ client' \in [Clients -> CallRecord]
  <2>1. \A d \in Clients : client'[d] \in CallRecord
    BY <1>1, <1>4, <1>5
  <2>2. client' = [d \in Clients |-> client'[d]]
    BY <1>1
  <2> QED  BY <1>1, <2>1, <2>2
<1> QED  BY <1>1, <1>4, <1>5, <1>6 DEF Begins

LEMMA PushEffect ==
    ASSUME TypeInv, NEW c \in Clients, Push(c)
    PROVE  LET r == client[c]
           IN  /\ Doing(c, "Push") \/ (Doing(c, "Fill") /\ r.todo = {})
               /\ r.list \in Groups /\ r.list \in GroupsOf(r.given)
               /\ \E param \in Params \union {NoParam} :
                     /\ param \in Params => param \in Of(r.list)
                     /\ pending' = Append(pending, [group |-> r.list, payload |-> r.payload,
                                                    overlapped |-> r.overlapped, param |-> param])
               /\ stale' = IF r.overlapped THEN stale \union {r.list} ELSE stale \ {r.list}
               /\ client' \in [Clients -> CallRecord]
               /\ \A d \in Clients \ {c} : client'[d] = client[d]
               /\ r.lists = {} => client'[c] = NoCall
               /\ r.lists # {} => Moves(c, "Start", r.todo, r.lists, NoGroup, <<>>, r.next)
               /\ UNCHANGED <<cache, device, mixed, calls, had>>
<1> DEFINE r == client[c]
           param == IF r.list \in Lists THEN NoParam ELSE CHOOSE f \in DOMAIN r.given : TRUE
<1>1. /\ r \in CallRecord /\ r.next \in Nat /\ r.lists \in SUBSET Groups /\ CallInv(r) /\ r.payload \in Seq(Byte)
      /\ client \in [Clients -> CallRecord] /\ r.todo \in SUBSET Params /\ DOMAIN r.given \subseteq Params
  BY Record
<1>2. /\ Doing(c, "Push") \/ (Doing(c, "Fill") /\ r.todo = {})
      /\ pending' = Append(pending, [group |-> r.list, payload |-> r.payload,
                                     overlapped |-> r.overlapped, param |-> param])
      /\ stale' = IF r.overlapped THEN stale \union {r.list} ELSE stale \ {r.list}
      /\ client' = [client EXCEPT ![c] = IF @.lists = {} THEN NoCall
                                         ELSE [@ EXCEPT !.at = "Start", !.list = NoGroup, !.payload = <<>>]]
      /\ UNCHANGED <<cache, device, mixed, calls, had>>
  BY DEF Push
<1>3. r.list \in Groups /\ r.list \in GroupsOf(r.given) /\ Kind(r.given)
  BY <1>1, <1>2, NoGroupIsNone DEF CallInv, Doing
<1>4. param \in Params \union {NoParam} /\ (param \in Params => param \in Of(r.list))
  <2>1. CASE r.list \in Lists
    BY <2>1, ConfigurationAssumption
  <2>2. CASE r.list \notin Lists
    <3>1. PICK f \in DOMAIN r.given : Layout[f].group = r.list
      BY <1>3 DEF GroupsOf
    <3>2. f \in Of(r.list) /\ f \notin ConfigParams
      <4>1. f \in Of(r.list)
        BY <1>1, <3>1 DEF Of
      <4> QED  BY <1>3, <2>2, <4>1, OfFacts
    <3>3. DOMAIN r.given = {f}
      BY <1>3, <3>1, <3>2 DEF Kind
    <3>4. param = f
      BY <2>2, <3>3
    <3> QED  BY <1>1, <3>1, <3>2, <3>4
  <2> QED  BY <2>1, <2>2
<1>5. CASE r.lists = {}
  <2>1. client' = [client EXCEPT ![c] = NoCall]
    BY <1>2, <1>5
  <2>2. /\ client' \in [Clients -> CallRecord] /\ client'[c] = NoCall
        /\ \A d \in Clients \ {c} : client'[d] = client[d]
    BY <1>1, <2>1, NoCallIs
  <2> HIDE DEF param
  <2> QED  BY <1>2, <1>3, <1>4, <1>5, <2>2
<1>6. CASE r.lists # {}
  <2>1. client' = [client EXCEPT ![c] = [@ EXCEPT !.at = "Start", !.todo = r.todo, !.lists = r.lists,
                                                  !.list = NoGroup, !.payload = <<>>, !.next = r.next]]
    BY <1>1, <1>2, <1>6 DEF CallRecord
  <2>2. "Start" \in Labels /\ NoGroup \in Groups \union {NoGroup} /\ <<>> \in Seq(Byte)
    BY DEF Labels
  <2>3. Moves(c, "Start", r.todo, r.lists, NoGroup, <<>>, r.next)
    BY <1>1, <2>1, <2>2, MovesBy
  <2>4. client' \in [Clients -> CallRecord] /\ \A d \in Clients \ {c} : client'[d] = client[d]
    BY <2>3 DEF Moves
  <2> HIDE DEF param
  <2> QED  BY <1>2, <1>3, <1>4, <1>6, <2>3, <2>4
<1> QED  BY <1>5, <1>6

LEMMA KillEffect ==
    ASSUME TypeInv, Kill
    PROVE  /\ pending' = <<>> /\ client' = [c \in Clients |-> NoCall]
           /\ client' \in [Clients -> CallRecord] /\ Callers' = {}
           /\ stale' = stale \union {pending[i].group : i \in DOMAIN pending}
                             \union {Layout[f].group : f \in UNION {DOMAIN client[c].given : c \in Callers}}
           /\ UNCHANGED <<cache, device, mixed, calls, had>>
<1>1. client' = [c \in Clients |-> NoCall]
  BY DEF Kill
<1>2. client' \in [Clients -> CallRecord] /\ Callers' = {}
  BY <1>1, NoCallIs DEF Callers, Doing
<1> QED  BY <1>1, <1>2 DEF Kill

\* The packet in front is delivered; it leaves or it is delivered again.
LEMMA DeliverEffect ==
    ASSUME Deliver
    PROVE  LET q == Head(pending)
           IN  /\ pending # <<>>
               /\ \A f \in Params : device'[f] = IF f \in Of(q.group) THEN DeviceReads(q.payload, f)
                                                 ELSE device[f]
               /\ mixed' = IF q.overlapped THEN mixed \union {q.group} ELSE mixed \ {q.group}
               /\ pending' \in {pending, Tail(pending)}
               /\ UNCHANGED <<cache, client, calls, had, stale>>
<1> DEFINE q == Head(pending)
<1>1. /\ pending # <<>>
      /\ device' = [f \in Params |-> IF f \in Of(q.group) THEN DeviceReads(q.payload, f) ELSE device[f]]
      /\ mixed' = IF q.overlapped THEN mixed \union {q.group} ELSE mixed \ {q.group}
      /\ pending' \in {pending, Tail(pending)}
      /\ UNCHANGED <<cache, client, calls, had, stale>>
  BY DEF Deliver
<1> HIDE DEF q
<1> QED  BY <1>1 DEF q

-----------------------------------------------------------------------------
LEMMA CallersKept ==
    ASSUME NEW c \in Clients, \A d \in Clients \ {c} : client'[d] = client[d], c \in Callers
    PROVE  Callers' \subseteq Callers
BY DEF Callers, Doing

LEMMA MovesCallers ==
    ASSUME NEW c \in Clients, client[c].at # "Idle", NEW at, at # "Idle",
           NEW todo, NEW lists, NEW list, NEW payload, NEW next,
           Moves(c, at, todo, lists, list, payload, next)
    PROVE  Callers' = Callers /\ c \in Callers
BY DEF Moves, Callers, Doing

-----------------------------------------------------------------------------
(* Types                                                                    *)

LEMMA CallTypeMoves ==
    ASSUME TypeInv, NEW c \in Clients, client' \in [Clients -> CallRecord], CallInv(client'[c]),
           \A d \in Clients \ {c} : client'[d] = client[d]
    PROVE  CallType'
<1>1. ASSUME NEW d \in Clients PROVE CallInv(client'[d])
  BY DEF TypeInv, CallType
<1> QED  BY <1>1 DEF CallType

\* A call goes on with its list; only its label, its parameters and its counter change.
LEMMA CallInvMoves ==
    ASSUME TypeInv, NEW c \in Clients, NEW at \in Labels, NEW todo, NEW lists, NEW list, NEW payload, NEW next,
           Moves(c, at, todo, lists, list, payload, next), client[c].at # "Idle", at # "Idle",
           lists \subseteq GroupsOf(client[c].given),
           at = "Set" => todo # {} /\ todo \subseteq DOMAIN client[c].given /\ lists = GroupsOf(client[c].given),
           at = "Start" => lists # {},
           at \in {"Given", "Fill"} => list \in Lists,
           at \in {"Element", "Remove", "Push"} => list \in Frames,
           at \in {"Given", "Fill", "Element", "Remove", "Push"} => list \in GroupsOf(client[c].given),
           at = "Given" => todo # {} /\ todo \subseteq GivenIn(client[c].given, list),
           at = "Fill" => todo \subseteq Missing(client[c].given, list),
           at = "Element" => next \in 1..Len(Elements[list])
    PROVE  CallType'
<1>1. Kind(client[c].given)
  BY Record DEF CallInv
<1> DEFINE r == client'[c]
<1>2. /\ r.at = at /\ r.given = client[c].given /\ r.todo = todo /\ r.lists = lists /\ r.list = list
      /\ r.next = next
  BY DEF Moves
<1> HIDE DEF r
<1>3. CallInv(r)
  BY <1>1, <1>2 DEF CallInv
<1> QED  BY <1>3, CallTypeMoves DEF Moves, r

LEMMA SetParameterType ==
    ASSUME TypeInv, NEW c \in Clients, NEW f \in Params, SetParameter(c, f)
    PROVE  TypeInv'
<1> DEFINE r == client[c]
           at == IF r.todo = {f} THEN "Start" ELSE "Set"
<1>1. /\ CallInv(r) /\ r.todo \in SUBSET Params /\ \A g \in DOMAIN r.given : r.given[g] \in Values[g]
  BY Record
<1>2. /\ r.at = "Set" /\ f \in r.todo /\ Moves(c, at, r.todo \ {f}, r.lists, r.list, r.payload, r.next)
      /\ \A g \in Params \ {f} : cache'[g] = cache[g] /\ had'[g] = had[g]
      /\ cache'[f] = r.given[f] /\ had'[f] = had[f] \union {r.given[f]}
      /\ DOMAIN cache' = Params /\ DOMAIN had' = Params
      /\ UNCHANGED <<pending, device, mixed, calls, stale>>
  BY SetParameterEffect DEF Doing
<1>3. f \in DOMAIN r.given /\ r.lists = GroupsOf(r.given) /\ r.todo \subseteq DOMAIN r.given
  BY <1>1, <1>2 DEF CallInv
<1>4. r.lists # {}
  BY <1>3 DEF GroupsOf
<1>5. CallType'
  <2>1. at \in {"Start", "Set"} /\ at \in Labels /\ at # "Idle" /\ (at = "Set" => r.todo \ {f} # {})
    BY <1>2 DEF Labels
  <2> HIDE DEF at
  <2>2. at \notin {"Given", "Fill", "Element", "Remove", "Push"}
    BY <2>1
  <2>3. r.at # "Idle"
    BY <1>2
  <2> QED  BY <1>2, <1>3, <1>4, <2>1, <2>2, <2>3, CallInvMoves
<1>6. CacheType'
  <2>1. ASSUME NEW g \in Params PROVE cache'[g] \in had'[g] /\ had'[g] \subseteq Values[g]
    <3>1. cache[g] \in had[g] /\ had[g] \subseteq Values[g]
      BY CacheValue
    <3>2. CASE g = f
      BY <1>1, <1>2, <1>3, <3>1, <3>2
    <3>3. CASE g # f
      BY <1>2, <3>1, <3>3
    <3> QED  BY <3>2, <3>3
  <2> QED  BY <1>2, <2>1 DEF CacheType
<1>7. QueueType' /\ MarkType'
  BY <1>2 DEF TypeInv, QueueType, MarkType
<1> QED  BY <1>5, <1>6, <1>7 DEF TypeInv

LEMMA OthersType ==
    ASSUME TypeInv, UNCHANGED <<cache, pending, mixed, calls, had, stale>>, CallType'
    PROVE  TypeInv'
BY DEF TypeInv, CacheType, QueueType, MarkType

LEMMA StartListType ==
    ASSUME TypeInv, NEW c \in Clients, NEW l, StartList(c, l) PROVE TypeInv'
<1> DEFINE r == client[c]
           todo == GivenIn(r.given, l)
<1>1. CallInv(r)
  BY Record
<1>2. /\ r.at = "Start" /\ l \in r.lists /\ l \in Lists
      /\ Moves(c, "Given", todo, r.lists \ {l}, l, ListHeader(l), r.next)
      /\ UNCHANGED <<cache, pending, device, mixed, calls, had, stale>>
  BY StartListEffect DEF Doing
<1>3. r.lists \subseteq GroupsOf(r.given)
  BY <1>1, <1>2 DEF CallInv
<1>4. todo # {}
  BY <1>2, <1>3 DEF GroupsOf, GivenIn
<1>5. "Given" \in Labels
  BY DEF Labels
<1>6. CallType'
  BY <1>2, <1>3, <1>4, <1>5, CallInvMoves
<1> QED  BY <1>2, <1>6, OthersType

LEMMA StartFrameType ==
    ASSUME TypeInv, NEW c \in Clients, NEW g, StartFrame(c, g) PROVE TypeInv'
<1> DEFINE r == client[c]
<1>1. CallInv(r)
  BY Record
<1>2. /\ r.at = "Start" /\ g \in r.lists /\ g \in Frames
      /\ Moves(c, "Element", r.todo, r.lists \ {g}, g, FrameHeader, 1)
      /\ UNCHANGED <<cache, pending, device, mixed, calls, had, stale>>
  BY StartFrameEffect DEF Doing
<1>3. r.lists \subseteq GroupsOf(r.given)
  BY <1>1, <1>2 DEF CallInv
<1>4. 1 \in 1..Len(Elements[g])
  <2>1. Elements[g] \in Seq(Parts(g)) /\ Elements[g] # <<>>
    BY <1>2, ConfigurationAssumption
  <2> QED  BY <2>1
<1>5. "Element" \in Labels
  BY DEF Labels
<1>6. CallType'
  BY <1>2, <1>3, <1>4, <1>5, CallInvMoves
<1> QED  BY <1>2, <1>6, OthersType

LEMMA PutType ==
    ASSUME TypeInv, NEW c \in Clients, NEW f \in Params, Put(c, f) PROVE TypeInv'
<1> DEFINE r == client[c]
           at == IF r.todo = {f} THEN "Fill" ELSE "Given"
           todo == IF r.todo = {f} THEN Missing(r.given, r.list) ELSE r.todo \ {f}
<1>1. CallInv(r)
  BY Record
<1>2. /\ r.at = "Given" /\ f \in r.todo /\ r.list \in Lists
      /\ Writes(c, ListPart(f), r.given[f], at, todo, r.next)
      /\ UNCHANGED <<cache, pending, device, mixed, calls, had, stale>>
  BY PutEffect DEF Doing
<1>3. r.lists \subseteq GroupsOf(r.given) /\ r.list \in GroupsOf(r.given) /\ r.todo \subseteq GivenIn(r.given, r.list)
  BY <1>1, <1>2 DEF CallInv
<1>4. /\ at \in {"Fill", "Given"} /\ at \in Labels
      /\ at = "Given" => todo # {} /\ todo \subseteq GivenIn(r.given, r.list)
      /\ at = "Fill" => todo = Missing(r.given, r.list)
  BY <1>2, <1>3 DEF Labels
<1> HIDE DEF at, todo
<1>5. PICK payload : Moves(c, at, todo, r.lists, r.list, payload, r.next)
  BY <1>2 DEF Writes
<1>6. at # "Set" /\ at # "Start" /\ at # "Idle" /\ at # "Element" /\ at \notin {"Element", "Remove", "Push"}
      /\ r.at # "Idle"
  BY <1>2, <1>4
<1>7. CallType'
  BY <1>2, <1>3, <1>4, <1>5, <1>6, CallInvMoves
<1> QED  BY <1>2, <1>7, OthersType

LEMMA FillType ==
    ASSUME TypeInv, NEW c \in Clients, NEW f \in Params, Fill(c, f) PROVE TypeInv'
<1> DEFINE r == client[c]
           todo == r.todo \ {f}
<1>1. CallInv(r)
  BY Record
<1>2. /\ r.at = "Fill" /\ f \in r.todo /\ r.list \in Lists
      /\ Writes(c, ListPart(f), cache[f], "Fill", todo, r.next)
      /\ UNCHANGED <<cache, pending, device, mixed, calls, had, stale>>
  BY FillEffect DEF Doing
<1>3. r.lists \subseteq GroupsOf(r.given) /\ r.list \in GroupsOf(r.given) /\ todo \subseteq Missing(r.given, r.list)
  BY <1>1, <1>2 DEF CallInv
<1>4. "Fill" \in Labels
  BY DEF Labels
<1> HIDE DEF todo
<1>5. PICK payload : Moves(c, "Fill", todo, r.lists, r.list, payload, r.next)
  BY <1>2 DEF Writes
<1>6. r.at # "Idle"
  BY <1>2
<1>7. CallType'
  BY <1>2, <1>3, <1>4, <1>5, <1>6, CallInvMoves
<1> QED  BY <1>2, <1>7, OthersType

LEMMA ElementType ==
    ASSUME TypeInv, NEW c \in Clients, Element(c) PROVE TypeInv'
<1> DEFINE r == client[c]
           n == Len(Elements[r.list])
           at == IF r.next = n THEN "Remove" ELSE "Element"
<1>1. CallInv(r)
  BY Record
<1>2. /\ r.at = "Element" /\ r.list \in Frames /\ r.next \in 1..n
      /\ Writes(c, Elements[r.list][r.next], cache[Elements[r.list][r.next].param], at, r.todo, r.next + 1)
      /\ UNCHANGED <<cache, pending, device, mixed, calls, had, stale>>
  BY ElementEffect DEF Doing
<1>3. r.lists \subseteq GroupsOf(r.given) /\ r.list \in GroupsOf(r.given)
  BY <1>1, <1>2 DEF CallInv
<1>4. n \in Nat
  <2>1. Elements[r.list] \in Seq(Parts(r.list))
    BY <1>2, ConfigurationAssumption
  <2> QED  BY <2>1
<1>5. /\ at \in {"Remove", "Element"} /\ at \in Labels
      /\ at = "Element" => r.next + 1 \in 1..n
  <2> HIDE DEF n
  <2> QED  BY <1>2, <1>4 DEF Labels
<1> HIDE DEF at
<1>6. PICK payload : Moves(c, at, r.todo, r.lists, r.list, payload, r.next + 1)
  BY <1>2 DEF Writes
<1>7. at # "Set" /\ at # "Start" /\ at # "Idle" /\ at \notin {"Given", "Fill"} /\ r.at # "Idle"
      /\ at # "Given" /\ at # "Fill"
  BY <1>2, <1>5
<1>8. CallType'
  BY <1>2, <1>3, <1>5, <1>6, <1>7, CallInvMoves
<1> QED  BY <1>2, <1>8, OthersType

\* The packets that are left are the ones of other parameters, in their order.
LEMMA Left ==
    ASSUME TypeInv, NEW c \in Clients, NEW at \in InOrder(Others(c)),
           pending' = [k \in DOMAIN at |-> pending[at[k]]]
    PROVE  /\ pending' \in Seq(PacketRecord) /\ DOMAIN pending' = DOMAIN at
           /\ \A k \in DOMAIN at : at[k] \in Others(c) /\ at[k] \in DOMAIN pending /\ pending'[k] = pending[at[k]]
           /\ \A i \in Others(c) : \E k \in DOMAIN at : at[k] = i
           /\ \A j, k \in DOMAIN at : j < k => at[j] < at[k]
<1> DEFINE S == Others(c)
<1>1. Len(pending) \in Nat /\ DOMAIN pending = 1..Len(pending) /\ \A i \in DOMAIN pending : pending[i] \in PacketRecord
  BY DEF TypeInv, QueueType
<1>2. S \in SUBSET (1..Len(pending))
  BY <1>1 DEF Others
<1>3. /\ Cardinality(S) \in Nat /\ at \in [1..Cardinality(S) -> S] /\ DOMAIN at = 1..Cardinality(S)
      /\ \A i \in S : \E k \in DOMAIN at : at[k] = i
      /\ \A j, k \in DOMAIN at : j < k => at[j] < at[k]
  BY <1>1, <1>2, InOrderFacts
<1> HIDE DEF S
<1>4. \A k \in DOMAIN at : at[k] \in S /\ at[k] \in DOMAIN pending /\ pending'[k] = pending[at[k]] /\ pending[at[k]] \in PacketRecord
  BY <1>1, <1>2, <1>3
<1>5. pending' \in [1..Cardinality(S) -> PacketRecord]
  BY <1>3, <1>4
<1>6. pending' \in Seq(PacketRecord)
  BY <1>3, <1>5, FunctionSeq
<1> QED  BY <1>3, <1>4, <1>6 DEF S

LEMMA RemoveType ==
    ASSUME TypeInv, NEW c \in Clients, Remove(c) PROVE TypeInv'
<1> DEFINE r == client[c]
<1>1. CallInv(r)
  BY Record
<1>2. /\ r.at = "Remove" /\ r.list \in Frames
      /\ Moves(c, "Push", r.todo, r.lists, r.list, r.payload, r.next)
      /\ \E at \in InOrder(Others(c)) : pending' = [k \in DOMAIN at |-> pending[at[k]]]
      /\ UNCHANGED <<cache, device, mixed, calls, had, stale>>
  BY RemoveEffect DEF Doing
<1>3. r.lists \subseteq GroupsOf(r.given) /\ r.list \in GroupsOf(r.given)
  BY <1>1, <1>2 DEF CallInv
<1>4. "Push" \in Labels
  BY DEF Labels
<1>5. r.at # "Idle"
  BY <1>2
<1>6. CallType'
  BY <1>2, <1>3, <1>4, <1>5, CallInvMoves
<1>7. QueueType'
  <2>1. PICK at \in InOrder(Others(c)) : pending' = [k \in DOMAIN at |-> pending[at[k]]]
    BY <1>2
  <2>2. /\ pending' \in Seq(PacketRecord) /\ DOMAIN pending' = DOMAIN at
        /\ \A k \in DOMAIN at : at[k] \in DOMAIN pending /\ pending'[k] = pending[at[k]]
    BY <2>1, Left
  <2>3. \A i \in DOMAIN pending : pending[i].param \in Params => pending[i].param \in Of(pending[i].group)
    BY DEF TypeInv, QueueType
  <2>4. ASSUME NEW k \in DOMAIN pending', pending'[k].param \in Params
        PROVE  pending'[k].param \in Of(pending'[k].group)
    BY <2>2, <2>3, <2>4
  <2> QED  BY <2>2, <2>4 DEF QueueType
<1>8. CacheType' /\ MarkType'
  BY <1>2 DEF TypeInv, CacheType, MarkType
<1> QED  BY <1>6, <1>7, <1>8 DEF TypeInv

\* The packet that is queued.
LEMMA AppendPacket ==
    ASSUME TypeInv, NEW q \in PacketRecord, pending' = Append(pending, q)
    PROVE  /\ pending' \in Seq(PacketRecord) /\ Len(pending) \in Nat
           /\ DOMAIN pending = 1..Len(pending) /\ DOMAIN pending' = 1..(Len(pending) + 1)
           /\ pending'[Len(pending) + 1] = q /\ \A i \in DOMAIN pending : pending'[i] = pending[i]
BY DEF TypeInv, QueueType

LEMMA PushType ==
    ASSUME TypeInv, NEW c \in Clients, Push(c) PROVE TypeInv'
<1> DEFINE r == client[c]
<1>1. CallInv(r) /\ r.payload \in Seq(Byte) /\ r.overlapped \in BOOLEAN
  BY Record
<1>2. PICK param \in Params \union {NoParam} :
         /\ param \in Params => param \in Of(r.list)
         /\ pending' = Append(pending, [group |-> r.list, payload |-> r.payload,
                                        overlapped |-> r.overlapped, param |-> param])
  BY PushEffect
<1>3. /\ r.at = "Push" \/ (r.at = "Fill" /\ r.todo = {})
      /\ r.list \in Groups /\ r.list \in GroupsOf(r.given)
      /\ stale' = IF r.overlapped THEN stale \union {r.list} ELSE stale \ {r.list}
      /\ client' \in [Clients -> CallRecord]
      /\ \A d \in Clients \ {c} : client'[d] = client[d]
      /\ r.lists = {} => client'[c] = NoCall
      /\ r.lists # {} => Moves(c, "Start", r.todo, r.lists, NoGroup, <<>>, r.next)
      /\ UNCHANGED <<cache, device, mixed, calls, had>>
  BY PushEffect DEF Doing
<1> DEFINE q == [group |-> r.list, payload |-> r.payload, overlapped |-> r.overlapped, param |-> param]
<1>4. q \in PacketRecord /\ q.param = param /\ q.group = r.list
  BY <1>1, <1>2, <1>3 DEF PacketRecord
<1>5. pending' = Append(pending, q)
  BY <1>2
<1> HIDE DEF q
<1>6. QueueType'
  <2>1. /\ pending' \in Seq(PacketRecord) /\ Len(pending) \in Nat
        /\ DOMAIN pending = 1..Len(pending) /\ DOMAIN pending' = 1..(Len(pending) + 1)
        /\ pending'[Len(pending) + 1] = q /\ \A i \in DOMAIN pending : pending'[i] = pending[i]
    BY <1>4, <1>5, AppendPacket
  <2>2. \A i \in DOMAIN pending : pending[i].param \in Params => pending[i].param \in Of(pending[i].group)
    BY DEF TypeInv, QueueType
  <2>3. ASSUME NEW i \in DOMAIN pending', pending'[i].param \in Params
        PROVE  pending'[i].param \in Of(pending'[i].group)
    <3>1. CASE i = Len(pending) + 1
      BY <1>2, <1>4, <2>1, <2>3, <3>1
    <3>2. CASE i \in DOMAIN pending
      BY <2>1, <2>2, <2>3, <3>2
    <3> QED  BY <2>1, <3>1, <3>2
  <2> QED  BY <2>1, <2>3 DEF QueueType
<1>7. CallType'
  <2>1. CASE r.lists = {}
    BY <1>3, <2>1, NoCallIs, CallTypeMoves
  <2>2. CASE r.lists # {}
    <3>1. r.lists \subseteq GroupsOf(r.given) /\ r.at # "Idle" /\ "Start" \in Labels
      BY <1>1, <1>3 DEF CallInv, Labels
    <3> QED  BY <1>3, <2>2, <3>1, CallInvMoves
  <2> QED  BY <2>1, <2>2
<1>8. CacheType' /\ MarkType'
  BY <1>3 DEF TypeInv, CacheType, MarkType
<1> QED  BY <1>6, <1>7, <1>8 DEF TypeInv

LEMMA BeginType ==
    ASSUME TypeInv, NEW c \in Clients, NEW given \in Givens, Kind(given), DOMAIN given # {}, Begin(c, given)
    PROVE  TypeInv'
<1>1. /\ Begins(c, given) /\ calls < Calls /\ calls' = calls + 1
      /\ UNCHANGED <<cache, pending, device, mixed, had, stale>>
  BY BeginEffect
<1>2. CallType'
  <2>1. CallInv(client'[c])
    BY <1>1 DEF Begins, CallInv
  <2>2. ASSUME NEW d \in Clients \ {c} PROVE CallInv(client'[d])
    <3>1. CallInv(client[d])
      BY DEF TypeInv, CallType
    <3>2. /\ client'[d].at = client[d].at /\ client'[d].given = client[d].given
          /\ client'[d].todo = client[d].todo /\ client'[d].lists = client[d].lists
          /\ client'[d].list = client[d].list /\ client'[d].next = client[d].next
      BY <1>1 DEF Begins
    <3> QED  BY <3>1, <3>2 DEF CallInv
  <2> QED  BY <1>1, <2>1, <2>2 DEF CallType, Begins
<1>3. MarkType'
  <2>1. Calls \in Nat /\ calls \in 0..Calls /\ mixed \subseteq Groups /\ stale \subseteq Groups
    BY ConfigurationAssumption DEF TypeInv, MarkType
  <2> QED  BY <1>1, <2>1 DEF MarkType
<1>4. CacheType' /\ QueueType'
  BY <1>1 DEF TypeInv, CacheType, QueueType
<1> QED  BY <1>2, <1>3, <1>4 DEF TypeInv

LEMMA KillType == ASSUME TypeInv, Kill PROVE TypeInv'
<1>1. /\ pending' = <<>> /\ client' = [c \in Clients |-> NoCall] /\ client' \in [Clients -> CallRecord]
      /\ stale' = stale \union {pending[i].group : i \in DOMAIN pending}
                        \union {Layout[f].group : f \in UNION {DOMAIN client[c].given : c \in Callers}}
      /\ UNCHANGED <<cache, device, mixed, calls, had>>
  BY KillEffect
<1>2. CallType'
  BY <1>1, NoCallIs DEF CallType
<1>3. CacheType' /\ QueueType'
  BY <1>1 DEF TypeInv, CacheType, QueueType
<1>4. stale' \subseteq Groups
  <2>0. \A i \in DOMAIN pending : pending[i] \in PacketRecord
    BY DEF TypeInv, QueueType
  <2>1. \A i \in DOMAIN pending : pending[i].group \in Groups
    BY <2>0 DEF PacketRecord
  <2>2. \A f \in UNION {DOMAIN client[c].given : c \in Callers} : Layout[f].group \in Groups
    <3> SUFFICES ASSUME NEW c \in Callers, NEW f \in DOMAIN client[c].given PROVE Layout[f].group \in Groups
      OBVIOUS
    <3>1. f \in Params
      BY Record DEF Callers
    <3> QED  BY <3>1, ConfigurationAssumption
  <2>3. stale \subseteq Groups
    BY DEF TypeInv, MarkType
  <2> QED  BY <1>1, <2>1, <2>2, <2>3
<1>5. MarkType'
  BY <1>1, <1>4 DEF TypeInv, MarkType
<1> QED  BY <1>2, <1>3, <1>5 DEF TypeInv

\* The front of the queue, and what is left of it.
LEMMA Front ==
    ASSUME TypeInv, pending # <<>>
    PROVE  /\ Len(pending) \in Nat \ {0} /\ DOMAIN pending = 1..Len(pending) /\ 1 \in DOMAIN pending
           /\ Head(pending) = pending[1] /\ Head(pending) \in PacketRecord
           /\ Tail(pending) \in Seq(PacketRecord) /\ DOMAIN Tail(pending) = 1..(Len(pending) - 1)
           /\ \A i \in DOMAIN Tail(pending) : i + 1 \in DOMAIN pending /\ Tail(pending)[i] = pending[i + 1]
BY DEF TypeInv, QueueType

LEMMA DeliverType == ASSUME TypeInv, Deliver PROVE TypeInv'
<1> DEFINE q == Head(pending)
<1>1. /\ pending # <<>> /\ pending' \in {pending, Tail(pending)}
      /\ mixed' = IF q.overlapped THEN mixed \union {q.group} ELSE mixed \ {q.group}
      /\ UNCHANGED <<cache, client, calls, had, stale>>
  BY DeliverEffect
<1>2. q.group \in Groups
  BY <1>1, Front DEF PacketRecord
<1> HIDE DEF q
<1>3. MarkType'
  BY <1>1, <1>2 DEF TypeInv, MarkType
<1>4. CacheType' /\ CallType'
  BY <1>1 DEF TypeInv, CacheType, CallType
<1>5. QueueType'
  <2>1. CASE pending' = pending
    BY <2>1 DEF TypeInv, QueueType
  <2>2. CASE pending' = Tail(pending)
    <3>1. /\ pending' \in Seq(PacketRecord)
          /\ \A i \in DOMAIN pending' : i + 1 \in DOMAIN pending /\ pending'[i] = pending[i + 1]
      BY <1>1, <2>2, Front
    <3>2. \A i \in DOMAIN pending : pending[i].param \in Params => pending[i].param \in Of(pending[i].group)
      BY DEF TypeInv, QueueType
    <3>3. \A i \in DOMAIN pending' : pending'[i].param \in Params => pending'[i].param \in Of(pending'[i].group)
      BY <3>1, <3>2
    <3> QED  BY <3>1, <3>3 DEF QueueType
  <2> QED  BY <1>1, <2>1, <2>2
<1> QED  BY <1>3, <1>4, <1>5 DEF TypeInv

LEMMA RequestIs ==
    ASSUME NEW c \in Clients, Request(c)
    PROVE  \E given \in Givens : Kind(given) /\ DOMAIN given # {} /\ Begin(c, given)
<1>1. ASSUME NEW fs \in (SUBSET ConfigParams) \ {{}}, PutParamset(c, fs)
      PROVE  \E given \in Givens : Kind(given) /\ DOMAIN given # {} /\ Begin(c, given)
  <2>1. PICK given \in [fs -> UNION {Values[f] : f \in fs}] :
           (\A f \in fs : given[f] \in Values[f]) /\ Begin(c, given)
    BY <1>1 DEF PutParamset
  <2>2. fs \in SUBSET Params
    BY DEF ConfigParams, Of
  <2>3. given \in Givens /\ DOMAIN given = fs
    BY <2>1, <2>2, GivenIsOne
  <2>4. Kind(given) /\ DOMAIN given # {}
    <3>1. fs \subseteq ConfigParams /\ fs # {}
      OBVIOUS
    <3> QED  BY <2>3, <3>1 DEF Kind
  <2> QED  BY <2>1, <2>3, <2>4
<1>2. ASSUME NEW f \in Params \ ConfigParams, NEW v \in Values[f], SetValue(c, f, v)
      PROVE  \E given \in Givens : Kind(given) /\ DOMAIN given # {} /\ Begin(c, given)
  <2> DEFINE given == [g \in {f} |-> v]
  <2>1. given \in [{f} -> UNION {Values[g] : g \in {f}}] /\ \A g \in {f} : given[g] \in Values[g]
    OBVIOUS
  <2>2. Begin(c, given)
    BY <1>2 DEF SetValue
  <2> HIDE DEF given
  <2>3. given \in Givens /\ DOMAIN given = {f}
    BY <2>1, GivenIsOne
  <2> QED  BY <2>2, <2>3 DEF Kind
<1> QED  BY <1>1, <1>2 DEF Request

-----------------------------------------------------------------------------
(* What a step leaves alone                                                 *)

\* The invariant: types apart.
Inv == Solitary /\ SetInv /\ BuildInv /\ PendingInv /\ NothingInvented /\ Current

\* Values are only ever added to the ones a parameter has had.
HadGrows == \A f \in Params : had[f] \subseteq had'[f]

LEMMA AloneKept ==
    ASSUME Solitary, NEW c \in Callers, \A d \in Clients \ {c} : client'[d] = client[d],
           c \in Callers' => client'[c].overlapped = client[c].overlapped
    PROVE  Solitary'
<1>1. c \in Clients /\ Callers' \subseteq Callers
  BY CallersKept DEF Callers
<1>2. ASSUME NEW d \in Callers', ~client'[d].overlapped PROVE Callers' = {d}
  <2>1. d \in Callers /\ d \in Clients
    BY <1>1 DEF Callers
  <2>2. client'[d].overlapped = client[d].overlapped
    BY <2>1
  <2>3. Callers = {d}
    BY <1>2, <2>1, <2>2 DEF Solitary
  <2> QED  BY <1>1, <2>3
<1> QED  BY <1>2 DEF Solitary

\* A call is not disturbed by the steps of another one.
LEMMA OthersKept ==
    ASSUME TypeInv, Solitary, SetInv, BuildInv, NEW c \in Callers, HadGrows,
           \A d \in Clients \ {c} : client'[d] = client[d]
    PROVE  /\ \A d \in Callers' \ {c} : Settled(d)'
           /\ \A d \in Clients \ {c} : Building(d)' => Built(d)'
<1>1. c \in Clients /\ Callers' \subseteq Callers /\ Callers \subseteq Clients
  BY CallersKept DEF Callers
<1>2. ASSUME NEW d \in Callers \ {c} PROVE client[d].overlapped /\ client'[d] = client[d]
  BY <1>1 DEF Solitary
<1>3. ASSUME NEW d \in Callers' \ {c} PROVE Settled(d)'
  <2>1. d \in Callers /\ d \in Clients /\ client'[d] = client[d] /\ client[d].overlapped
    BY <1>1, <1>2
  <2>2. Settled(d) /\ DOMAIN client[d].given \subseteq Params
    BY <2>1, Record DEF SetInv
  <2>3. ASSUME NEW f \in DOMAIN client[d].given
        PROVE  (client'[d].at = "Set" /\ f \in client'[d].todo) \/ client'[d].given[f] \in had'[f]
    <3>1. (client[d].at = "Set" /\ f \in client[d].todo) \/ client[d].given[f] \in had[f]
      BY <2>2 DEF Settled, Taken, Doing
    <3>2. had[f] \subseteq had'[f]
      BY <2>2 DEF HadGrows
    <3> QED  BY <2>1, <3>1, <3>2
  <2> QED  BY <2>1, <2>3 DEF Settled, Taken, Doing
<1>4. ASSUME NEW d \in Clients \ {c}, Building(d)' PROVE Built(d)'
  <2>1. client'[d] = client[d]
    OBVIOUS
  <2>2. Building(d) /\ d \in Callers
    BY <1>4, <2>1 DEF Building, Callers, Doing
  <2>3. client[d].overlapped /\ Built(d) /\ client[d].list \in Groups
    <3>1. client[d].list \in Lists \/ client[d].list \in Frames
      BY <2>2, Record DEF CallInv, Building
    <3> QED  BY <1>2, <2>2, <3>1, NoGroupIsNone DEF BuildInv
  <2>4. ASSUME NEW e \in Parts(client[d].list)
        PROVE  /\ Done(d, e)' <=> Done(d, e)
               /\ Filled(d, e) => Filled(d, e)'
    <3>1. Done(d, e)' <=> Done(d, e)
      BY <2>1 DEF Done, Doing
    <3>2. had[e.param] \subseteq had'[e.param]
      BY <2>3, PartFacts DEF HadGrows
    <3> QED  BY <2>1, <2>3, <3>1, <3>2 DEF Filled
  <2>5. \A e \in Parts(client[d].list) : IF Done(d, e)' THEN Filled(d, e)' ELSE Blank(client[d].payload, e)
    BY <2>3, <2>4 DEF Built
  <2> QED  BY <2>1, <2>3, <2>5 DEF Built
<1> QED  BY <1>3, <1>4

LEMMA SettledKept ==
    ASSUME NEW c \in Clients, Settled(c), client[c].at # "Set", UNCHANGED <<cache, had>>,
           client'[c].given = client[c].given, client'[c].overlapped = client[c].overlapped
    PROVE  Settled(c)'
BY DEF Settled, Taken, Doing

\* What was had by a packet is had.
LEMMA SoundKept ==
    ASSUME NEW q \in PacketRecord, Sound(q), HadGrows PROVE Sound(q)'
<1>1. q.group \in Groups
  BY DEF PacketRecord
<1>2. ASSUME NEW e \in Parts(q.group) PROVE \E v \in had'[e.param] : Shows(q.payload, e, v)
  <2>1. had[e.param] \subseteq had'[e.param]
    BY <1>1, PartFacts DEF HadGrows
  <2> QED  BY <2>1 DEF Sound
<1>3. ASSUME ~q.overlapped, NEW f \in Of(q.group)
      PROVE  \E v \in had'[f] : \A e \in Parts(q.group) : e.param = f => Shows(q.payload, e, v)
  <2>1. had[f] \subseteq had'[f]
    BY <1>1, OfFacts DEF HadGrows
  <2> QED  BY <1>3, <2>1 DEF Sound
<1> QED  BY <1>2, <1>3 DEF Sound

LEMMA PendingKept ==
    ASSUME TypeInv, PendingInv, HadGrows, UNCHANGED pending PROVE PendingInv'
<1> SUFFICES ASSUME NEW i \in DOMAIN pending PROVE Sound(pending[i])'
  BY DEF PendingInv
<1>1. pending[i] \in PacketRecord /\ Sound(pending[i])
  BY DEF TypeInv, QueueType, PendingInv
<1>2. \A q \in PacketRecord : Sound(q) => Sound(q)'
  BY SoundKept
<1>3. PICK q \in PacketRecord : q = pending[i]
  BY <1>1
<1>4. Sound(q)'
  BY <1>1, <1>2, <1>3
<1> QED  BY <1>3, <1>4 DEF Sound

LEMMA NothingInventedKept ==
    ASSUME NothingInvented, HadGrows, UNCHANGED <<device, mixed>> PROVE NothingInvented'
BY DEF NothingInvented, HadGrows, ReadTwice

\* A list is covered on while its call goes on.
LEMMA CoveredKept ==
    ASSUME NEW c \in Callers, c \in Callers', \A d \in Clients \ {c} : client'[d] = client[d],
           NEW g, Covered(g),
           g \in client[c].lists \/ (Building(c) /\ client[c].list = g) =>
               g \in client'[c].lists \/ (Building(c)' /\ client'[c].list = g)
    PROVE  Covered(g)'
<1>1. PICK d \in Callers : g \in client[d].lists \/ (Building(d) /\ client[d].list = g)
  BY DEF Covered
<1>2. CASE d = c
  BY <1>1, <1>2 DEF Covered
<1>3. CASE d # c
  <2>1. client'[d] = client[d] /\ d \in Callers'
    BY <1>3 DEF Callers, Doing
  <2> QED  BY <1>1, <2>1 DEF Covered, Building
<1> QED  BY <1>2, <1>3

BuildLabels == {"Given", "Fill", "Element", "Remove", "Push"}

\* A step that builds a packet.
LEMMA BuildStep ==
    ASSUME TypeInv, Inv, NEW c \in Clients, NEW at \in BuildLabels, NEW todo, NEW lists, NEW list, NEW payload, NEW next,
           Moves(c, at, todo, lists, list, payload, next), client[c].at # "Idle", client[c].at # "Set",
           UNCHANGED <<cache, device, mixed, had>>, Built(c)',
           client[c].lists \subseteq lists \union {list}, Building(c) => list = client[c].list
    PROVE  /\ Solitary' /\ SetInv' /\ BuildInv' /\ NothingInvented'
           /\ \A g : Covered(g) => Covered(g)'
<1>1. at # "Idle" /\ at # "Set"
  BY DEF BuildLabels
<1>2. Callers' = Callers /\ c \in Callers /\ HadGrows
  BY <1>1, MovesCallers DEF HadGrows
<1>3. /\ \A d \in Clients \ {c} : client'[d] = client[d]
      /\ client'[c].given = client[c].given /\ client'[c].overlapped = client[c].overlapped
      /\ client'[c].at = at /\ client'[c].lists = lists /\ client'[c].list = list
  BY DEF Moves
<1>4. Solitary'
  BY <1>2, <1>3, AloneKept DEF Inv
<1>5. /\ \A d \in Callers' \ {c} : Settled(d)'
      /\ \A d \in Clients \ {c} : Building(d)' => Built(d)'
  BY <1>2, <1>3, OthersKept DEF Inv
<1>6. SetInv'
  <2>1. Settled(c)
    BY <1>2 DEF Inv, SetInv
  <2>2. Settled(c)'
    BY <1>3, <2>1, SettledKept
  <2> QED  BY <1>5, <2>2 DEF SetInv
<1>7. BuildInv'
  BY <1>5 DEF BuildInv
<1>8. NothingInvented'
  BY <1>2, NothingInventedKept DEF Inv
<1>9. ASSUME NEW g, Covered(g) PROVE Covered(g)'
  <2>1. Building(c)'
    BY <1>3 DEF Building, BuildLabels
  <2>2. g \in client[c].lists \/ (Building(c) /\ client[c].list = g) =>
            g \in client'[c].lists \/ (Building(c)' /\ client'[c].list = g)
    BY <1>3, <2>1
  <2> QED  BY <1>2, <1>3, <1>9, <2>2, CoveredKept
<1> QED  BY <1>4, <1>6, <1>7, <1>8, <1>9

LEMMA CurrentKept ==
    ASSUME Current, UNCHANGED <<cache, pending, device, stale>>, \A g : Covered(g) => Covered(g)'
    PROVE  Current'
<1> SUFFICES ASSUME NEW g \in Groups \ stale PROVE Covered(g)' \/ LastShows(g)' \/ DeviceShows(g)'
  BY DEF Current
<1>1. LastShows(g) => LastShows(g)'
  BY DEF LastShows
<1>2. DeviceShows(g) => DeviceShows(g)'
  BY DEF DeviceShows
<1> QED  BY <1>1, <1>2 DEF Current

LEMMA BuildKeeps ==
    ASSUME TypeInv, Inv, UNCHANGED <<cache, pending, device, mixed, had, stale>>,
           Solitary' /\ SetInv' /\ BuildInv' /\ NothingInvented', \A g : Covered(g) => Covered(g)'
    PROVE  Inv'
<1>1. HadGrows
  BY DEF HadGrows
<1> QED  BY <1>1, PendingKept, CurrentKept DEF Inv

-----------------------------------------------------------------------------
(* The steps that build a packet                                            *)

\* Writing to a blank field of a packet that is being built fills it.
LEMMA WritesBuilt ==
    ASSUME TypeInv, NEW c \in Clients, Built(c), NEW e, NEW v, NEW at, NEW todo, NEW next,
           Writes(c, e, v, at, todo, next), v \in had[e.param], ~client[c].overlapped => v = cache[e.param],
           UNCHANGED <<cache, had>>, ~Done(c, e),
           \A d \in Parts(client[c].list) : Done(c, d)' <=> Done(c, d) \/ d = e
    PROVE  Built(c)'
<1> DEFINE r == client[c]
           new == SetPosition(r.payload, e.index, e.size, Data(e, v))
<1>1. /\ r.list \in Groups /\ e \in Parts(r.list) /\ v \in Values[e.param] /\ r.payload \in Seq(Byte)
      /\ client'[c].payload = new /\ client'[c].list = r.list /\ client'[c].overlapped = r.overlapped
  BY Record DEF Writes, Moves
<1>2. /\ new \in Seq(Byte) /\ Len(r.payload) <= Len(new)
      /\ Blank(r.payload, e) => Shows(new, e, v)
      /\ \A d \in Parts(r.list) \ {e} : /\ Blank(r.payload, d) => Blank(new, d)
                                        /\ \A w : Shows(r.payload, d, w) => Shows(new, d, w)
  BY <1>1, WritePart
<1> HIDE DEF new
<1>3. ASSUME NEW d \in Parts(r.list)
      PROVE  IF Done(c, d)' THEN Filled(c, d)' ELSE Blank(new, d)
  <2>1. CASE d = e
    <3>1. Blank(r.payload, e) /\ Done(c, d)'
      BY <1>1, <2>1 DEF Built
    <3>2. Shows(new, e, v)
      BY <1>2, <3>1
    <3>3. Filled(c, e)'
      BY <1>1, <3>2 DEF Filled
    <3> QED  BY <2>1, <3>1, <3>3
  <2>2. CASE d # e
    <3>1. Done(c, d)' <=> Done(c, d)
      BY <2>2
    <3>2. CASE Done(c, d)
      <4>1. PICK w \in had[d.param] : Shows(r.payload, d, w) /\ (~r.overlapped => w = cache[d.param])
        BY <3>2 DEF Built, Filled
      <4>2. Shows(new, d, w)
        BY <1>2, <2>2, <4>1
      <4>3. Filled(c, d)'
        BY <1>1, <4>1, <4>2 DEF Filled
      <4> QED  BY <3>1, <3>2, <4>3
    <3>3. CASE ~Done(c, d)
      <4>1. Blank(r.payload, d)
        BY <3>3 DEF Built
      <4> QED  BY <1>2, <2>2, <3>1, <3>3, <4>1
    <3> QED  BY <3>2, <3>3
  <2> QED  BY <2>1, <2>2
<1> QED  BY <1>1, <1>3 DEF Built

\* The label of a call, and whether a field is done, in one place each.
LEMMA DoneAt ==
    ASSUME NEW c, NEW e
    PROVE  /\ client[c].at = "Given" => (Done(c, e) <=> e.param \in DOMAIN client[c].given \ client[c].todo)
           /\ client[c].at = "Fill" => (Done(c, e) <=> e.param \notin client[c].todo)
           /\ client[c].at = "Element" =>
                (Done(c, e) <=> \E k \in 1..(client[c].next - 1) : Elements[client[c].list][k] = e)
           /\ client[c].at \in {"Remove", "Push"} => Done(c, e)
BY DEF Done, Doing
LEMMA DoneNext ==
    ASSUME NEW c, NEW e
    PROVE  /\ client'[c].at = "Given" => (Done(c, e)' <=> e.param \in DOMAIN client'[c].given \ client'[c].todo)
           /\ client'[c].at = "Fill" => (Done(c, e)' <=> e.param \notin client'[c].todo)
           /\ client'[c].at = "Element" =>
                (Done(c, e)' <=> \E k \in 1..(client'[c].next - 1) : Elements[client'[c].list][k] = e)
           /\ client'[c].at \in {"Remove", "Push"} => Done(c, e)'
BY DEF Done, Doing

LEMMA HeaderBuilt ==
    ASSUME NEW c,
           \A e \in Parts(client'[c].list) : ~Done(c, e)' /\ Blank(client'[c].payload, e)
    PROVE  Built(c)'
BY DEF Built

LEMMA StartListKeeps ==
    ASSUME TypeInv, Inv, NEW c \in Clients, NEW l, StartList(c, l) PROVE Inv'
<1> DEFINE r == client[c]
           todo == GivenIn(r.given, l)
<1>1. /\ r.at = "Start" /\ l \in r.lists /\ l \in Groups /\ l \in Lists
      /\ ListHeader(l) \in Seq(Byte) /\ Len(ListHeader(l)) = 2
      /\ Moves(c, "Given", todo, r.lists \ {l}, l, ListHeader(l), r.next)
      /\ UNCHANGED <<cache, pending, device, mixed, calls, had, stale>>
  BY StartListEffect DEF Doing
<1>2. /\ client'[c].at = "Given" /\ client'[c].given = r.given /\ client'[c].todo = todo
      /\ client'[c].list = l /\ client'[c].payload = ListHeader(l)
  BY <1>1 DEF Moves
<1>3. Built(c)'
  <2>1. ASSUME NEW e \in Parts(l) PROVE ~Done(c, e)' /\ Blank(ListHeader(l), e)
    <3>1. Layout[e.param].group = l
      BY <1>1, PartFacts, OfFacts
    <3>2. e.param \notin DOMAIN r.given \ todo
      BY <3>1 DEF GivenIn
    <3> HIDE DEF todo
    <3>3. ~Done(c, e)'
      BY <1>2, <3>2, DoneNext
    <3> QED  BY <1>1, <3>3, HeaderBlank
  <2> QED  BY <1>1, <1>2, <2>1, HeaderBuilt
<1>4. "Given" \in BuildLabels /\ ~Building(c) /\ r.lists \subseteq (r.lists \ {l}) \union {l}
  BY <1>1 DEF BuildLabels, Building
<1> HIDE DEF todo
<1>5. /\ Solitary' /\ SetInv' /\ BuildInv' /\ NothingInvented'
      /\ \A g : Covered(g) => Covered(g)'
  BY <1>1, <1>3, <1>4, BuildStep
<1> QED  BY <1>1, <1>5, BuildKeeps

LEMMA StartFrameKeeps ==
    ASSUME TypeInv, Inv, NEW c \in Clients, NEW g, StartFrame(c, g) PROVE Inv'
<1> DEFINE r == client[c]
<1>1. /\ r.at = "Start" /\ g \in r.lists /\ g \in Groups /\ g \notin Lists
      /\ FrameHeader \in Seq(Byte) /\ Len(FrameHeader) = 1
      /\ Moves(c, "Element", r.todo, r.lists \ {g}, g, FrameHeader, 1)
      /\ UNCHANGED <<cache, pending, device, mixed, calls, had, stale>>
  BY StartFrameEffect, NoGroupIsNone DEF Doing
<1>2. /\ client'[c].at = "Element" /\ client'[c].next = 1
      /\ client'[c].list = g /\ client'[c].payload = FrameHeader
  BY <1>1 DEF Moves
<1>3. Built(c)'
  <2>1. ASSUME NEW e \in Parts(g) PROVE ~Done(c, e)' /\ Blank(FrameHeader, e)
    <3>1. 1..(client'[c].next - 1) = {}
      BY <1>2
    <3>2. ~Done(c, e)'
      BY <1>2, <3>1, DoneNext
    <3> QED  BY <1>1, <3>2, HeaderBlank
  <2> QED  BY <1>1, <1>2, <2>1, HeaderBuilt
<1>4. "Element" \in BuildLabels /\ ~Building(c) /\ r.lists \subseteq (r.lists \ {g}) \union {g}
  BY <1>1 DEF BuildLabels, Building
<1>5. /\ Solitary' /\ SetInv' /\ BuildInv' /\ NothingInvented'
      /\ \A h : Covered(h) => Covered(h)'
  BY <1>1, <1>3, <1>4, BuildStep
<1> QED  BY <1>1, <1>5, BuildKeeps

\* What is given is had and is in the cache, once all of it is set.
LEMMA GivenHad ==
    ASSUME SetInv, NEW c \in Clients, client[c].at # "Set", client[c].at # "Idle", NEW f \in DOMAIN client[c].given
    PROVE  client[c].given[f] \in had[f] /\ (~client[c].overlapped => client[c].given[f] = cache[f])
<1>1. c \in Callers
  BY DEF Callers, Doing
<1> QED  BY <1>1 DEF SetInv, Settled, Taken, Doing

LEMMA WritesKeeps ==
    ASSUME TypeInv, Inv, NEW c \in Clients, NEW e, NEW v, NEW at \in BuildLabels, NEW todo, NEW next,
           Writes(c, e, v, at, todo, next), client[c].at \in BuildLabels,
           UNCHANGED <<cache, pending, device, mixed, had, stale>>, Built(c)'
    PROVE  Inv'
<1> DEFINE new == SetPosition(client[c].payload, e.index, e.size, Data(e, v))
<1>1. Moves(c, at, todo, client[c].lists, client[c].list, new, next)
  BY DEF Writes
<1>2. client[c].at # "Idle" /\ client[c].at # "Set"
  BY DEF BuildLabels
<1> HIDE DEF new
<1>3. /\ Solitary' /\ SetInv' /\ BuildInv' /\ NothingInvented'
      /\ \A g : Covered(g) => Covered(g)'
  BY <1>1, <1>2, BuildStep
<1> QED  BY <1>3, BuildKeeps

LEMMA BuiltNow ==
    ASSUME BuildInv, NEW c \in Clients, client[c].at \in BuildLabels PROVE Built(c)
BY DEF BuildInv, Building, BuildLabels

LEMMA PutKeeps ==
    ASSUME TypeInv, Inv, NEW c \in Clients, NEW f \in Params, Put(c, f) PROVE Inv'
<1> DEFINE r == client[c]
           e == ListPart(f)
           v == r.given[f]
           at == IF r.todo = {f} THEN "Fill" ELSE "Given"
           todo == IF r.todo = {f} THEN Missing(r.given, r.list) ELSE r.todo \ {f}
<1>1. /\ r.at = "Given" /\ f \in r.todo /\ f \in DOMAIN r.given /\ f \in Of(r.list) /\ r.list \in Lists
      /\ Writes(c, e, v, at, todo, r.next)
      /\ UNCHANGED <<cache, pending, device, mixed, calls, had, stale>>
  BY PutEffect DEF Doing
<1>2. /\ client'[c].at = at /\ client'[c].given = r.given /\ client'[c].todo = todo
  BY <1>1 DEF Moves, Writes
<1>3. /\ r.list \in Groups /\ e \in Parts(r.list) /\ e.param = f
  BY <1>1, NoGroupIsNone, ListPartOf
<1>4. v \in had[f] /\ (~r.overlapped => v = cache[f])
  BY <1>1, GivenHad DEF Inv
<1>5. at \in {"Fill", "Given"} /\ at \in BuildLabels /\ r.at \in BuildLabels
  BY <1>1 DEF BuildLabels
<1>6. \A d \in Parts(r.list) : (d = e <=> d.param = f) /\ d.param \in Of(r.list)
  <2> SUFFICES ASSUME NEW d \in Parts(r.list) PROVE (d = e <=> d.param = f) /\ d.param \in Of(r.list)
    OBVIOUS
  <2>1. d.param \in Of(r.list) /\ d = ListPart(d.param)
    BY <1>1, <1>3, PartFacts
  <2> HIDE DEF r
  <2> QED  BY <1>3, <2>1
<1>7. ~Done(c, e)
  BY <1>1, <1>3, DoneAt
<1>8. ASSUME NEW d \in Parts(r.list) PROVE Done(c, d)' <=> Done(c, d) \/ d = e
  <2>1. Done(c, d) <=> d.param \in DOMAIN r.given \ r.todo
    BY <1>1, DoneAt
  <2>2. CASE r.todo # {f}
    <3>1. at = "Given" /\ todo = r.todo \ {f}
      BY <2>2
    <3>2. Done(c, d)' <=> d.param \in DOMAIN r.given \ todo
      BY <1>2, <3>1, DoneNext
    <3> QED  BY <1>1, <1>6, <2>1, <3>1, <3>2
  <2>3. CASE r.todo = {f}
    <3>1. at = "Fill" /\ todo = Missing(r.given, r.list)
      BY <2>3
    <3>2. Done(c, d)' <=> d.param \notin todo
      BY <1>2, <3>1, DoneNext
    <3>3. d.param \in Of(r.list)
      BY <1>6
    <3>4. d.param \in Missing(r.given, r.list) <=> d.param \notin DOMAIN r.given
      <4>1. CASE d.param \in DOMAIN r.given
        <5>1. d.param \in GivenIn(r.given, r.list)
          BY <1>3, <3>3, <4>1, OfFacts DEF GivenIn
        <5> QED  BY <4>1, <5>1 DEF Missing
      <4>2. CASE d.param \notin DOMAIN r.given
        <5>1. ASSUME NEW g \in GivenIn(r.given, r.list) PROVE IntIndex(g) # IntIndex(d.param)
          <6>1. g \in DOMAIN r.given /\ Layout[g].group = r.list /\ g \in Params
            BY Record DEF GivenIn
          <6>2. Layout[d.param].group = r.list /\ g # d.param /\ d.param \in ConfigParams /\ g \in ConfigParams
            <7>1. g \in Of(r.list)
              BY <6>1 DEF Of
            <7> QED  BY <1>1, <1>3, <3>3, <4>2, <6>1, <7>1, OfFacts
          <6> QED  BY <6>1, <6>2, ConfigurationAssumption DEF DistinctBytes
        <5> QED  BY <3>3, <4>2, <5>1 DEF Missing
      <4> QED  BY <4>1, <4>2
    <3> QED  BY <1>1, <1>6, <2>1, <2>3, <3>1, <3>2, <3>4
  <2> QED  BY <2>2, <2>3
<1> HIDE DEF at, todo, e, v
<1>9. Built(c)
  BY <1>5, BuiltNow DEF Inv
<1>10. Built(c)'
  <2>1. v \in had[e.param] /\ (~r.overlapped => v = cache[e.param])
    BY <1>3, <1>4
  <2> QED  BY <1>1, <1>7, <1>8, <1>9, <2>1, WritesBuilt
<1> QED  BY <1>1, <1>5, <1>10, WritesKeeps

LEMMA FillKeeps ==
    ASSUME TypeInv, Inv, NEW c \in Clients, NEW f \in Params, Fill(c, f) PROVE Inv'
<1> DEFINE r == client[c]
           e == ListPart(f)
           v == cache[f]
           todo == r.todo \ {f}
<1>1. /\ r.at = "Fill" /\ f \in r.todo /\ f \in Of(r.list) /\ r.list \in Lists
      /\ Writes(c, e, v, "Fill", todo, r.next)
      /\ UNCHANGED <<cache, pending, device, mixed, calls, had, stale>>
  BY FillEffect DEF Doing
<1>2. client'[c].at = "Fill" /\ client'[c].todo = todo
  BY <1>1 DEF Moves, Writes
<1>3. /\ r.list \in Groups /\ e \in Parts(r.list) /\ e.param = f
  BY <1>1, NoGroupIsNone, ListPartOf
<1>4. v \in had[f] /\ "Fill" \in BuildLabels
  BY CacheValue DEF BuildLabels
<1>5. \A d \in Parts(r.list) : d = e <=> d.param = f
  <2> SUFFICES ASSUME NEW d \in Parts(r.list) PROVE d = e <=> d.param = f
    OBVIOUS
  <2>1. d = ListPart(d.param)
    BY <1>1, <1>3, PartFacts
  <2> HIDE DEF r
  <2> QED  BY <1>3, <2>1
<1>6. ~Done(c, e)
  BY <1>1, <1>3, DoneAt
<1>7. ASSUME NEW d \in Parts(r.list) PROVE Done(c, d)' <=> Done(c, d) \/ d = e
  <2>1. Done(c, d) <=> d.param \notin r.todo
    BY <1>1, DoneAt
  <2>2. Done(c, d)' <=> d.param \notin todo
    BY <1>2, DoneNext
  <2> QED  BY <1>1, <1>5, <2>1, <2>2
<1> HIDE DEF todo, e
<1>8. Built(c)
  BY <1>1, <1>4, BuiltNow DEF Inv
<1>9. Built(c)'
  <2>1. v \in had[e.param] /\ (~r.overlapped => v = cache[e.param])
    BY <1>3, <1>4
  <2> HIDE DEF v
  <2> QED  BY <1>1, <1>6, <1>7, <1>8, <2>1, WritesBuilt
<1> HIDE DEF v
<1> QED  BY <1>1, <1>4, <1>9, WritesKeeps

LEMMA ElementKeeps ==
    ASSUME TypeInv, Inv, NEW c \in Clients, Element(c) PROVE Inv'
<1> DEFINE r == client[c]
           s == Elements[r.list]
           e == s[r.next]
           v == cache[e.param]
           at == IF r.next = Len(s) THEN "Remove" ELSE "Element"
<1>1. /\ r.at = "Element" /\ r.list \in Frames /\ r.next \in 1..Len(s)
      /\ Writes(c, e, v, at, r.todo, r.next + 1)
      /\ UNCHANGED <<cache, pending, device, mixed, calls, had, stale>>
  BY ElementEffect DEF Doing
<1>2. client'[c].at = at /\ client'[c].next = r.next + 1 /\ client'[c].list = r.list
  BY <1>1 DEF Moves, Writes
<1>3. /\ r.list \in Groups /\ e \in Parts(r.list)
  BY <1>1 DEF Writes
<1>4. v \in had[e.param]
  BY <1>3, PartFacts, CacheValue
<1>5. at \in {"Remove", "Element"} /\ at \in BuildLabels /\ r.at \in BuildLabels
  BY <1>1 DEF BuildLabels
<1>6. /\ s \in Seq(Parts(r.list)) /\ Len(s) \in Nat /\ DOMAIN s = 1..Len(s)
      /\ \A j, k \in DOMAIN s : s[j] = s[k] => j = k
      /\ \A d \in Parts(r.list) : \E k \in DOMAIN s : d = s[k]
  <2>1. s \in Seq(Parts(r.list)) /\ Disjoint(r.list)
    BY <1>1, <1>3, ConfigurationAssumption
  <2>2. r.list \notin Lists
    BY <1>1, ConfigurationAssumption
  <2>3. Parts(r.list) = {Elements[r.list][k] : k \in DOMAIN Elements[r.list]}
    BY <2>2 DEF Parts
  <2>4. \A d \in Parts(r.list) : \E k \in DOMAIN s : d = s[k]
    BY <2>3
  <2>5. \A j, k \in DOMAIN s : s[j] = s[k] => j = k
    BY <1>1, <2>1 DEF Disjoint
  <2> HIDE DEF s
  <2>6. Len(s) \in Nat /\ DOMAIN s = 1..Len(s)
    BY <2>1
  <2> QED  BY <2>1, <2>4, <2>5, <2>6
<1>7. \A d : Done(c, d) <=> \E k \in 1..(r.next - 1) : s[k] = d
  BY <1>1, DoneAt
<1> HIDE DEF s
<1>8. ~Done(c, e)
  <2>1. ASSUME NEW k \in 1..(r.next - 1), s[k] = s[r.next] PROVE FALSE
    <3>1. k \in DOMAIN s /\ r.next \in DOMAIN s /\ k # r.next
      BY <1>1, <1>6
    <3> QED  BY <1>6, <2>1, <3>1
  <2> QED  BY <1>7, <2>1
<1>9. ASSUME NEW d \in Parts(r.list) PROVE Done(c, d)' <=> Done(c, d) \/ d = e
  <2>0. \A k \in 1..r.next : k = r.next \/ k \in 1..(r.next - 1)
    BY <1>1, <1>6
  <2>00. 1..(r.next - 1) \subseteq 1..r.next /\ r.next \in 1..r.next
    BY <1>1, <1>6
  <2>1. Done(c, d) \/ d = e <=> \E k \in 1..r.next : s[k] = d
    BY <1>7, <2>0, <2>00
  <2>2. CASE r.next # Len(s)
    <3>1. client'[c].at = "Element" /\ r.next + 1 - 1 = r.next
      BY <1>1, <1>2, <1>6, <2>2
    <3>2. Done(c, d)' <=> \E k \in 1..(client'[c].next - 1) : Elements[client'[c].list][k] = d
      BY <3>1, DoneNext
    <3>3. client'[c].next - 1 = r.next
      <4>1. \A m, n : n \in Nat /\ m = n + 1 => m - 1 = n
        OBVIOUS
      <4>2. r.next \in Nat /\ client'[c].next = r.next + 1
        BY <1>1, <1>2, <1>6
      <4> QED  BY <4>1, <4>2
    <3>4. Elements[client'[c].list] = s
      BY <1>2 DEF s
    <3>5. Done(c, d)' <=> \E k \in 1..r.next : s[k] = d
      BY <3>2, <3>3, <3>4
    <3> QED  BY <2>1, <3>5
  <2>3. CASE r.next = Len(s)
    <3>1. Done(c, d)'
      BY <1>2, <2>3, DoneNext
    <3> QED  BY <1>6, <2>1, <2>3, <3>1
  <2> QED  BY <2>2, <2>3
<1> HIDE DEF at, e
<1>10. Built(c)
  BY <1>5, BuiltNow DEF Inv
<1>11. Built(c)'
  <2>1. v \in had[e.param] /\ (~r.overlapped => v = cache[e.param])
    BY <1>4
  <2> HIDE DEF v
  <2> QED  BY <1>1, <1>8, <1>9, <1>10, <2>1, WritesBuilt
<1> HIDE DEF v
<1> QED  BY <1>1, <1>5, <1>11, WritesKeeps

-----------------------------------------------------------------------------
(* The other steps                                                          *)

LEMMA DomainNat == ASSUME NEW S, NEW s \in Seq(S) PROVE DOMAIN s \subseteq Nat
OBVIOUS

LEMMA PendingIs ==
    ASSUME \A k \in DOMAIN pending' : \E q \in PacketRecord : q = pending'[k] /\ Sound(q)' PROVE PendingInv'
<1> SUFFICES ASSUME NEW k \in DOMAIN pending' PROVE Sound(pending[k])'
  BY DEF PendingInv
<1>1. PICK q \in PacketRecord : q = pending'[k] /\ Sound(q)'
  OBVIOUS
<1> QED  BY <1>1 DEF Sound

\* A packet that was sound is.
LEMMA StaysSound ==
    ASSUME TypeInv, PendingInv, HadGrows, NEW i \in DOMAIN pending
    PROVE  \E q \in PacketRecord : q = pending[i] /\ Sound(q)'
<1>1. PICK q \in PacketRecord : q = pending[i]
  BY DEF TypeInv, QueueType
<1>2. Sound(q)
  BY <1>1 DEF PendingInv
<1> QED  BY <1>1, <1>2, SoundKept

LEMMA RemoveKeeps ==
    ASSUME TypeInv, Inv, NEW c \in Clients, Remove(c) PROVE Inv'
<1> DEFINE r == client[c]
<1>1. /\ r.at = "Remove" /\ r.list \in Frames
      /\ Moves(c, "Push", r.todo, r.lists, r.list, r.payload, r.next)
      /\ \E at \in InOrder(Others(c)) : pending' = [k \in DOMAIN at |-> pending[at[k]]]
      /\ UNCHANGED <<cache, device, mixed, calls, had, stale>>
  BY RemoveEffect DEF Doing
<1>2. /\ client'[c].at = "Push" /\ client'[c].list = r.list /\ client'[c].payload = r.payload
      /\ client'[c].overlapped = r.overlapped
  BY <1>1 DEF Moves
<1>3. "Push" \in BuildLabels /\ r.at \in BuildLabels /\ r.list \in Groups
  BY <1>1, NoGroupIsNone DEF BuildLabels
<1>4. Built(c)'
  <2>1. Built(c)
    BY <1>3, BuiltNow DEF Inv
  <2>2. ASSUME NEW e \in Parts(r.list) PROVE Done(c, e) /\ Done(c, e)' /\ (Filled(c, e) => Filled(c, e)')
    <3>1. Done(c, e) /\ Done(c, e)'
      BY <1>1, <1>2, DoneAt, DoneNext
    <3>2. Filled(c, e) => Filled(c, e)'
      BY <1>1, <1>2 DEF Filled
    <3> QED  BY <3>1, <3>2
  <2> QED  BY <1>2, <2>1, <2>2 DEF Built
<1>5. /\ Solitary' /\ SetInv' /\ BuildInv' /\ NothingInvented'
      /\ \A g : Covered(g) => Covered(g)'
  BY <1>1, <1>3, <1>4, BuildStep
<1>6. PICK at \in InOrder(Others(c)) : pending' = [k \in DOMAIN at |-> pending[at[k]]]
  BY <1>1
<1>7. /\ pending' \in Seq(PacketRecord) /\ DOMAIN pending' = DOMAIN at
      /\ \A k \in DOMAIN at : at[k] \in Others(c) /\ at[k] \in DOMAIN pending /\ pending'[k] = pending[at[k]]
      /\ \A i \in Others(c) : \E k \in DOMAIN at : at[k] = i
      /\ \A j, k \in DOMAIN at : j < k => at[j] < at[k]
  BY <1>6, Left
<1>8. PendingInv'
  <2>1. HadGrows
    BY <1>1 DEF HadGrows
  <2>2. ASSUME NEW k \in DOMAIN pending' PROVE \E q \in PacketRecord : q = pending'[k] /\ Sound(q)'
    <3>1. at[k] \in DOMAIN pending /\ pending'[k] = pending[at[k]]
      BY <1>7
    <3> QED  BY <2>1, <3>1, StaysSound DEF Inv
  <2> QED  BY <2>2, PendingIs
\* The packets of the other groups are left.
<1>9. ASSUME NEW i \in DOMAIN pending, pending[i].group # r.list PROVE i \in Others(c)
  <2>1. r.list \in GroupsOf(r.given) /\ Kind(r.given) /\ DOMAIN r.given \subseteq Params
    BY <1>1, Record DEF CallInv
  <2>2. PICK f \in DOMAIN r.given : Layout[f].group = r.list
    BY <2>1 DEF GroupsOf
  <2>3. f \in Of(r.list) /\ f \notin ConfigParams
    <3>1. f \in Of(r.list)
      BY <2>1, <2>2 DEF Of
    <3>2. r.list \notin Lists
      BY <1>1, ConfigurationAssumption
    <3> QED  BY <1>3, <3>1, <3>2, OfFacts
  <2>4. DOMAIN r.given = {f}
    BY <2>1, <2>2, <2>3 DEF Kind
  <2>5. pending[i].param = f => FALSE
    <3> SUFFICES ASSUME pending[i].param = f PROVE FALSE
      OBVIOUS
    <3>1. pending[i].param \in Of(pending[i].group)
      BY <2>3, OfFacts, <2>1, <2>2 DEF TypeInv, QueueType
    <3>2. Layout[f].group = pending[i].group
      BY <3>1 DEF Of
    <3> QED  BY <1>9, <2>2, <3>2
  <2> QED  BY <2>4, <2>5 DEF Others
<1>10. ASSUME NEW g \in Groups \ stale PROVE Covered(g)' \/ LastShows(g)' \/ DeviceShows(g)'
  <2>1. CASE Covered(g)
    BY <1>5, <2>1
  <2>2. CASE g = r.list
    <3>1. c \in Callers /\ Building(c)
      BY <1>1 DEF Callers, Building, Doing
    <3> QED  BY <1>5, <2>2, <3>1 DEF Covered
  <2>3. CASE LastShows(g) /\ g # r.list
    <3>1. PICK i \in DOMAIN pending :
             /\ pending[i].group = g /\ \A j \in DOMAIN pending : j > i => pending[j].group # g
             /\ \A e \in Parts(g) : Shows(pending[i].payload, e, cache[e.param])
      BY <2>3 DEF LastShows
    <3>2. PICK k \in DOMAIN at : at[k] = i
      BY <1>7, <1>9, <2>3, <3>1
    <3>3. ASSUME NEW j \in DOMAIN at, j > k PROVE pending'[j].group # g
      <4>1. at[j] > at[k] /\ at[j] \in DOMAIN pending /\ pending'[j] = pending[at[j]]
        <5>1. k < j
          BY <3>3, <1>7, DomainNat
        <5>2. at[k] < at[j] /\ at[j] \in Nat /\ at[k] \in Nat
          BY <1>7, <5>1, DomainNat DEF TypeInv, QueueType
        <5> QED  BY <1>7, <5>2
      <4> QED  BY <3>1, <3>2, <4>1
    <3>4. pending'[k] = pending[i] /\ k \in DOMAIN pending'
      BY <1>7, <3>2
    <3>5. \A e \in Parts(g) : Shows(pending'[k].payload, e, cache'[e.param])
      BY <1>1, <3>1, <3>4
    <3>6. LastShows(g)'
      BY <1>7, <3>1, <3>3, <3>4, <3>5 DEF LastShows
    <3> QED  BY <3>6
  <2>4. CASE DeviceShows(g)
    <3>1. \A k \in DOMAIN pending' : pending'[k].group # g
      BY <1>7, <2>4 DEF DeviceShows
    <3> QED  BY <1>1, <2>4, <3>1 DEF DeviceShows
  <2> QED  BY <2>1, <2>2, <2>3, <2>4 DEF Inv, Current
<1>11. Current'
  BY <1>1, <1>10 DEF Current
<1> QED  BY <1>5, <1>8, <1>11 DEF Inv

\* The packet a call queues shows values that were had, of the cache if it did
\* not overlap.
LEMMA FinishedSound ==
    ASSUME TypeInv, Inv, NEW c \in Clients, NEW q \in PacketRecord,
           Doing(c, "Push") \/ (Doing(c, "Fill") /\ client[c].todo = {}),
           q.group = client[c].list, q.payload = client[c].payload, q.overlapped = client[c].overlapped
    PROVE  /\ Sound(q)
           /\ ~q.overlapped => \A e \in Parts(q.group) : Shows(q.payload, e, cache[e.param])
<1>1. q.group \in Groups
  BY DEF PacketRecord
<1>2. Built(c)
  BY BuiltNow DEF Inv, BuildLabels, Doing
<1>3. \A e \in Parts(q.group) : Done(c, e)
  BY DoneAt DEF Doing
<1>4. \A e \in Parts(q.group) :
         \E v \in had[e.param] : Shows(q.payload, e, v) /\ (~q.overlapped => v = cache[e.param])
  BY <1>2, <1>3 DEF Built, Filled
<1>6. ~q.overlapped => \A e \in Parts(q.group) : Shows(q.payload, e, cache[e.param])
  BY <1>4
<1>7. ASSUME ~q.overlapped, NEW f \in Of(q.group)
      PROVE  \E v \in had[f] : \A e \in Parts(q.group) : e.param = f => Shows(q.payload, e, v)
  <2>1. cache[f] \in had[f]
    BY <1>1, OfFacts, CacheValue
  <2>2. \A e \in Parts(q.group) : e.param = f => Shows(q.payload, e, cache[f])
    BY <1>6, <1>7
  <2> QED  BY <2>1, <2>2
<1> QED  BY <1>4, <1>6, <1>7 DEF Sound

LEMMA PushKeeps ==
    ASSUME TypeInv, Inv, NEW c \in Clients, Push(c) PROVE Inv'
<1> DEFINE r == client[c]
           n == Len(pending) + 1
<1>1. PICK param \in Params \union {NoParam} :
         pending' = Append(pending, [group |-> r.list, payload |-> r.payload,
                                     overlapped |-> r.overlapped, param |-> param])
  BY PushEffect
<1>2. /\ Doing(c, "Push") \/ (Doing(c, "Fill") /\ r.todo = {})
      /\ r.list \in Groups
      /\ stale' = IF r.overlapped THEN stale \union {r.list} ELSE stale \ {r.list}
      /\ client' \in [Clients -> CallRecord]
      /\ \A d \in Clients \ {c} : client'[d] = client[d]
      /\ r.lists = {} => client'[c] = NoCall
      /\ r.lists # {} => Moves(c, "Start", r.todo, r.lists, NoGroup, <<>>, r.next)
      /\ UNCHANGED <<cache, device, mixed, calls, had>>
  BY PushEffect
<1> DEFINE q == [group |-> r.list, payload |-> r.payload, overlapped |-> r.overlapped, param |-> param]
<1>3. q \in PacketRecord /\ q.group = r.list /\ q.payload = r.payload /\ q.overlapped = r.overlapped
  BY <1>1, <1>2, Record DEF PacketRecord
<1>4. pending' = Append(pending, q)
  BY <1>1
<1> HIDE DEF q
<1>5. /\ Len(pending) \in Nat
      /\ DOMAIN pending = 1..Len(pending) /\ DOMAIN pending' = 1..n
      /\ pending'[n] = q /\ \A i \in DOMAIN pending : pending'[i] = pending[i]
  BY <1>3, <1>4, AppendPacket
<1>6. /\ Sound(q)
      /\ ~q.overlapped => \A e \in Parts(q.group) : Shows(q.payload, e, cache[e.param])
  BY <1>2, <1>3, FinishedSound
<1>7. c \in Callers /\ HadGrows /\ r.at # "Idle" /\ r.at # "Set"
  BY <1>2 DEF Callers, Doing, HadGrows
<1>8. IF r.lists = {} THEN client'[c].at = "Idle" /\ client'[c].lists = {}
      ELSE client'[c].at = "Start" /\ client'[c].lists = r.lists
           /\ client'[c].given = r.given /\ client'[c].overlapped = r.overlapped
  BY <1>2, NoCallIs DEF Moves
<1>9. Solitary'
  <2>1. c \in Callers' => client'[c].overlapped = r.overlapped
    BY <1>8 DEF Callers, Doing
  <2> QED  BY <1>2, <1>7, <2>1, AloneKept DEF Inv
<1>10. /\ \A d \in Callers' \ {c} : Settled(d)'
       /\ \A d \in Clients \ {c} : Building(d)' => Built(d)'
  BY <1>2, <1>7, OthersKept DEF Inv
<1>11. SetInv'
  <2>1. ASSUME c \in Callers' PROVE Settled(c)'
    <3>1. client'[c].given = r.given /\ client'[c].overlapped = r.overlapped
      BY <1>8, <2>1 DEF Callers, Doing
    <3>2. Settled(c)
      BY <1>7 DEF Inv, SetInv
    <3> QED  BY <1>2, <1>7, <3>1, <3>2, SettledKept
  <2> QED  BY <1>10, <2>1 DEF SetInv
<1>12. BuildInv'
  <2>1. ~Building(c)'
    BY <1>8 DEF Building
  <2> QED  BY <1>10, <2>1 DEF BuildInv
<1>13. PendingInv'
  <2>1. ASSUME NEW i \in DOMAIN pending' PROVE \E p \in PacketRecord : p = pending'[i] /\ Sound(p)'
    <3>1. CASE i = n
      BY <1>3, <1>5, <1>6, <1>7, <3>1, SoundKept
    <3>2. CASE i # n
      <4>1. i \in DOMAIN pending /\ pending'[i] = pending[i]
        BY <1>5, <3>2
      <4> QED  BY <1>7, <4>1, StaysSound DEF Inv
    <3> QED  BY <3>1, <3>2
  <2> QED  BY <2>1, PendingIs
<1>14. NothingInvented'
  BY <1>2, <1>7, NothingInventedKept DEF Inv
<1>15. ASSUME NEW g \in Groups \ stale' PROVE Covered(g)' \/ LastShows(g)' \/ DeviceShows(g)'
  <2> HIDE DEF n
  <2>1. CASE g = r.list
    <3>1. ~r.overlapped
      BY <1>2, <1>15, <2>1
    <3>2. \A e \in Parts(g) : Shows(pending'[n].payload, e, cache'[e.param])
      BY <1>2, <1>3, <1>5, <1>6, <2>1, <3>1
    <3>3. n \in DOMAIN pending' /\ \A j \in DOMAIN pending' : ~(j > n)
      BY <1>5 DEF n
    <3>4. LastShows(g)'
      BY <1>3, <1>5, <2>1, <3>2, <3>3 DEF LastShows
    <3> QED  BY <3>4
  <2>2. CASE g # r.list
    <3>1. g \in Groups \ stale
      BY <1>2, <1>15, <2>2
    <3>2. ASSUME Covered(g) PROVE Covered(g)'
      <4>1. CASE r.lists = {}
        <5>1. PICK d \in Callers : g \in client[d].lists \/ (Building(d) /\ client[d].list = g)
          BY <3>2 DEF Covered
        <5>2. d # c /\ client'[d] = client[d] /\ d \in Callers'
          BY <1>2, <2>2, <4>1, <5>1 DEF Callers, Doing
        <5> QED  BY <5>1, <5>2 DEF Covered, Building
      <4>2. CASE r.lists # {}
        <5>1. c \in Callers' /\ client'[c].lists = r.lists
          BY <1>8, <4>2 DEF Callers, Doing
        <5> QED  BY <1>2, <1>7, <2>2, <3>2, <5>1, CoveredKept
      <4> QED  BY <4>1, <4>2
    <3>3. ASSUME LastShows(g) PROVE LastShows(g)'
      <4>1. PICK i \in DOMAIN pending :
               /\ pending[i].group = g /\ \A j \in DOMAIN pending : j > i => pending[j].group # g
               /\ \A e \in Parts(g) : Shows(pending[i].payload, e, cache[e.param])
        BY <3>3 DEF LastShows
      <4>2. i \in DOMAIN pending' /\ pending'[i] = pending[i]
        BY <1>5 DEF n
      <4>3. ASSUME NEW j \in DOMAIN pending', j > i PROVE pending'[j].group # g
        <5>1. CASE j = n
          BY <1>3, <1>5, <2>2, <5>1
        <5>2. CASE j # n
          <6>1. j \in DOMAIN pending /\ pending'[j] = pending[j]
            BY <1>5, <5>2 DEF n
          <6> QED  BY <4>1, <4>3, <6>1
        <5> QED  BY <5>1, <5>2
      <4>4. \A e \in Parts(g) : Shows(pending'[i].payload, e, cache'[e.param])
        BY <1>2, <4>1, <4>2
      <4> QED  BY <4>1, <4>2, <4>3, <4>4 DEF LastShows
    <3>4. ASSUME DeviceShows(g) PROVE DeviceShows(g)'
      <4>1. ASSUME NEW j \in DOMAIN pending' PROVE pending'[j].group # g
        <5>1. CASE j = n
          BY <1>3, <1>5, <2>2, <5>1
        <5>2. CASE j # n
          <6>1. j \in DOMAIN pending /\ pending'[j] = pending[j]
            BY <1>5, <5>2 DEF n
          <6> QED  BY <3>4, <6>1 DEF DeviceShows
        <5> QED  BY <5>1, <5>2
      <4> QED  BY <1>2, <3>4, <4>1 DEF DeviceShows
    <3> QED  BY <3>1, <3>2, <3>3, <3>4 DEF Inv, Current
  <2> QED  BY <2>1, <2>2
<1>16. Current'
  BY <1>15 DEF Current
<1> QED  BY <1>9, <1>11, <1>12, <1>13, <1>14, <1>16 DEF Inv

LEMMA SetParameterKeeps ==
    ASSUME TypeInv, Inv, NEW c \in Clients, NEW f \in Params, SetParameter(c, f) PROVE Inv'
<1> DEFINE r == client[c]
           at == IF r.todo = {f} THEN "Start" ELSE "Set"
<1>1. /\ r.at = "Set" /\ f \in r.todo /\ Moves(c, at, r.todo \ {f}, r.lists, r.list, r.payload, r.next)
      /\ \A g \in Params \ {f} : cache'[g] = cache[g] /\ had'[g] = had[g]
      /\ cache'[f] = r.given[f] /\ had'[f] = had[f] \union {r.given[f]}
      /\ UNCHANGED <<pending, device, mixed, calls, stale>>
  BY SetParameterEffect DEF Doing
<1>2. at \in {"Start", "Set"} /\ (at = "Set" <=> r.todo # {f})
  OBVIOUS
<1> HIDE DEF at
<1>3. /\ client'[c].at = at /\ client'[c].given = r.given /\ client'[c].todo = r.todo \ {f}
      /\ client'[c].overlapped = r.overlapped /\ client'[c].lists = r.lists
      /\ \A d \in Clients \ {c} : client'[d] = client[d]
  BY <1>1 DEF Moves
<1>4. c \in Callers /\ c \in Callers'
  BY <1>1, <1>2, <1>3 DEF Callers, Doing
<1>5. HadGrows
  BY <1>1 DEF HadGrows
<1>6. Solitary'
  BY <1>3, <1>4, AloneKept DEF Inv
<1>7. /\ \A d \in Callers' \ {c} : Settled(d)'
      /\ \A d \in Clients \ {c} : Building(d)' => Built(d)'
  BY <1>3, <1>4, <1>5, OthersKept DEF Inv
<1>8. r.lists = GroupsOf(r.given) /\ r.todo \subseteq DOMAIN r.given /\ DOMAIN r.given \subseteq Params
  BY <1>1, Record DEF CallInv
<1>9. Settled(c)'
  <2>1. ASSUME NEW g \in DOMAIN r.given
        PROVE  \/ client'[c].at = "Set" /\ g \in client'[c].todo
               \/ client'[c].given[g] \in had'[g]
                  /\ (~client'[c].overlapped => cache'[g] = client'[c].given[g])
    <3>1. CASE g = f
      BY <1>1, <1>3, <3>1
    <3>2. CASE g # f
      <4>1. \/ g \in r.todo
            \/ r.given[g] \in had[g] /\ (~r.overlapped => cache[g] = r.given[g])
        BY <1>4 DEF Inv, SetInv, Settled, Taken
      <4>2. CASE g \in r.todo
        BY <1>2, <1>3, <3>2, <4>2
      <4>3. CASE r.given[g] \in had[g] /\ (~r.overlapped => cache[g] = r.given[g])
        BY <1>1, <1>3, <1>8, <3>2, <4>3
      <4> QED  BY <4>1, <4>2, <4>3
    <3> QED  BY <3>1, <3>2
  <2> QED  BY <1>3, <2>1 DEF Settled, Taken, Doing
<1>10. SetInv'
  BY <1>7, <1>9 DEF SetInv
<1>11. BuildInv'
  <2>1. ~Building(c)'
    BY <1>2, <1>3 DEF Building
  <2> QED  BY <1>7, <2>1 DEF BuildInv
<1>12. PendingInv'
  BY <1>1, <1>5, PendingKept DEF Inv
<1>13. NothingInvented'
  BY <1>1, <1>5, NothingInventedKept DEF Inv
\* Its own list is still to be built; what is in the cache of the others is the same.
<1>14. ASSUME NEW g \in Groups \ stale PROVE Covered(g)' \/ LastShows(g)' \/ DeviceShows(g)'
  <2>1. CASE Covered(g)
    <3>1. Building(c) => FALSE
      BY <1>1 DEF Building
    <3> QED  BY <1>3, <1>4, <2>1, <3>1, CoveredKept
  <2>2. CASE f \in Of(g)
    <3>1. g \in client'[c].lists
      BY <1>1, <1>3, <1>8, <2>2, OfFacts DEF GroupsOf
    <3> QED  BY <1>4, <3>1 DEF Covered
  <2>3. CASE f \notin Of(g)
    <3>1. \A h \in Of(g) : cache'[h] = cache[h]
      BY <1>1, <2>3, OfFacts
    <3>2. \A e \in Parts(g) : cache'[e.param] = cache[e.param]
      BY <3>1, PartFacts
    <3>3. LastShows(g) => LastShows(g)'
      BY <1>1, <3>2 DEF LastShows
    <3>4. DeviceShows(g) => DeviceShows(g)'
      BY <1>1, <3>1 DEF DeviceShows
    <3> QED  BY <2>1, <3>3, <3>4 DEF Inv, Current
  <2> QED  BY <2>2, <2>3
<1>15. Current'
  BY <1>1, <1>14 DEF Current
<1> QED  BY <1>6, <1>10, <1>11, <1>12, <1>13, <1>15 DEF Inv

LEMMA BeginKeeps ==
    ASSUME TypeInv, Inv, NEW c \in Clients, NEW given \in Givens, Begin(c, given) PROVE Inv'
<1>1. /\ client[c].at = "Idle" /\ Begins(c, given)
      /\ UNCHANGED <<cache, pending, device, mixed, had, stale>>
  BY BeginEffect DEF Doing
<1>2. /\ client'[c].at = "Set" /\ client'[c].given = given /\ client'[c].todo = DOMAIN given
      /\ client'[c].overlapped = (Callers # {})
      /\ \A d \in Clients \ {c} :
            /\ client'[d].at = client[d].at /\ client'[d].given = client[d].given
            /\ client'[d].todo = client[d].todo /\ client'[d].lists = client[d].lists
            /\ client'[d].list = client[d].list /\ client'[d].payload = client[d].payload
            /\ client'[d].next = client[d].next
            /\ d \in Callers => client'[d].overlapped
  BY <1>1 DEF Begins
<1>3. Callers' = Callers \union {c} /\ c \notin Callers
  BY <1>1, <1>2 DEF Callers, Doing
<1>4. \A d \in Callers : d \in Clients \ {c} /\ client'[d].overlapped
  BY <1>2, <1>3 DEF Callers
<1>5. HadGrows
  BY <1>1 DEF HadGrows
<1>6. Solitary'
  <2>1. ASSUME NEW d \in Callers', ~client'[d].overlapped PROVE Callers' = {d}
    <3>1. d = c
      BY <1>3, <1>4, <2>1
    <3>2. Callers = {}
      BY <1>2, <2>1, <3>1
    <3> QED  BY <1>3, <3>1, <3>2
  <2> QED  BY <2>1 DEF Solitary
<1>7. SetInv'
  <2>1. Settled(c)'
    BY <1>2 DEF Settled, Doing
  <2>2. ASSUME NEW d \in Callers PROVE Settled(d)'
    <3>1. Settled(d)
      BY DEF Inv, SetInv
    <3>2. d \in Clients \ {c} /\ client'[d].overlapped
      BY <1>4
    <3> QED  BY <1>1, <1>2, <3>1, <3>2 DEF Settled, Taken, Doing
  <2> QED  BY <1>3, <2>1, <2>2 DEF SetInv
<1>8. BuildInv'
  <2>1. ~Building(c)'
    BY <1>2 DEF Building
  <2>2. ASSUME NEW d \in Clients \ {c}, Building(d)' PROVE Built(d)'
    <3>1. Building(d) /\ d \in Callers
      BY <1>2, <2>2 DEF Building, Callers, Doing
    <3>2. Built(d) /\ client'[d].overlapped
      BY <1>4, <3>1 DEF Inv, BuildInv
    <3>3. ASSUME NEW e PROVE (Done(d, e)' <=> Done(d, e)) /\ (Filled(d, e) => Filled(d, e)')
      <4>1. Done(d, e)' <=> Done(d, e)
        BY <1>2 DEF Done, Doing
      <4>2. Filled(d, e) => Filled(d, e)'
        BY <1>1, <1>2, <3>2 DEF Filled
      <4> QED  BY <4>1, <4>2
    <3>4. client'[d].payload = client[d].payload /\ client'[d].list = client[d].list
      BY <1>2
    <3> QED  BY <3>2, <3>3, <3>4 DEF Built
  <2> QED  BY <2>1, <2>2 DEF BuildInv
<1>9. \A g : Covered(g) => Covered(g)'
  <2> SUFFICES ASSUME NEW g, Covered(g) PROVE Covered(g)'
    OBVIOUS
  <2>1. PICK d \in Callers : g \in client[d].lists \/ (Building(d) /\ client[d].list = g)
    BY DEF Covered
  <2>2. d \in Callers' /\ client'[d].lists = client[d].lists /\ client'[d].list = client[d].list
        /\ client'[d].at = client[d].at
    BY <1>2, <1>3, <1>4
  <2> QED  BY <2>1, <2>2 DEF Covered, Building
<1>10. NothingInvented'
  BY <1>1, <1>5, NothingInventedKept DEF Inv
<1> QED  BY <1>1, <1>6, <1>7, <1>8, <1>9, <1>10, BuildKeeps

LEMMA KillKeeps == ASSUME TypeInv, Inv, Kill PROVE Inv'
<1>1. /\ pending' = <<>> /\ client' = [c \in Clients |-> NoCall] /\ Callers' = {}
      /\ stale' = stale \union {pending[i].group : i \in DOMAIN pending}
                        \union {Layout[f].group : f \in UNION {DOMAIN client[c].given : c \in Callers}}
      /\ UNCHANGED <<cache, device, mixed, calls, had>>
  BY KillEffect
<1>2. Solitary' /\ SetInv'
  BY <1>1 DEF Solitary, SetInv
<1>3. BuildInv'
  BY <1>1, NoCallIs DEF BuildInv, Building
<1>4. DOMAIN pending' = {}
  BY <1>1
<1>5. PendingInv'
  BY <1>4 DEF PendingInv
<1>6. NothingInvented'
  BY <1>1, NothingInventedKept DEF Inv, HadGrows
<1>7. ASSUME NEW g \in Groups \ stale' PROVE DeviceShows(g)'
  <2>1. ~Covered(g)
    <3> SUFFICES ASSUME NEW c \in Callers, g \in client[c].lists \/ (Building(c) /\ client[c].list = g)
                 PROVE  FALSE
      BY DEF Covered
    <3>1. c \in Clients /\ client[c].at # "Idle" /\ client[c].at \in Labels /\ CallInv(client[c])
      BY Record DEF Callers, Doing
    <3>2. client[c].lists \subseteq GroupsOf(client[c].given)
      BY <3>1 DEF CallInv, Labels
    <3>3. Building(c) => client[c].list \in GroupsOf(client[c].given)
      BY <3>1 DEF CallInv, Building
    <3>4. g \in GroupsOf(client[c].given)
      BY <3>2, <3>3
    <3>5. PICK f \in DOMAIN client[c].given : g = Layout[f].group
      BY <3>4 DEF GroupsOf
    <3>6. f \in UNION {DOMAIN client[d].given : d \in Callers}
      OBVIOUS
    <3> QED  BY <1>1, <1>7, <3>5, <3>6
  <2>2. \A i \in DOMAIN pending : pending[i].group # g
    BY <1>1, <1>7
  <2>3. DeviceShows(g)
    BY <1>1, <1>7, <2>1, <2>2 DEF Inv, Current, LastShows
  <2> QED  BY <1>1, <1>4, <2>3 DEF DeviceShows
<1>8. Current'
  BY <1>7 DEF Current
<1> QED  BY <1>2, <1>3, <1>5, <1>6, <1>8 DEF Inv

LEMMA DeliverKeeps == ASSUME TypeInv, Inv, Deliver PROVE Inv'
<1> DEFINE q == Head(pending)
<1>1. /\ pending # <<>>
      /\ \A f \in Params : device'[f] = IF f \in Of(q.group) THEN DeviceReads(q.payload, f) ELSE device[f]
      /\ mixed' = IF q.overlapped THEN mixed \union {q.group} ELSE mixed \ {q.group}
      /\ pending' \in {pending, Tail(pending)}
      /\ UNCHANGED <<cache, client, calls, had, stale>>
  BY DeliverEffect
<1>2. /\ Len(pending) \in Nat \ {0} /\ DOMAIN pending = 1..Len(pending) /\ 1 \in DOMAIN pending
      /\ q = pending[1] /\ q \in PacketRecord
      /\ DOMAIN Tail(pending) = 1..(Len(pending) - 1)
      /\ \A i \in DOMAIN Tail(pending) : i + 1 \in DOMAIN pending /\ Tail(pending)[i] = pending[i + 1]
  BY <1>1, Front
<1>3. q.group \in Groups /\ q.payload \in Seq(Byte) /\ Sound(q)
  BY <1>2 DEF PacketRecord, Inv, PendingInv
<1> HIDE DEF q
<1>4. HadGrows
  BY <1>1 DEF HadGrows
<1>5. Solitary' /\ SetInv'
  BY <1>1 DEF Inv, Solitary, SetInv, Settled, Taken, Callers, Doing
<1>6. BuildInv'
  BY <1>1 DEF Inv, BuildInv, Building, Built, Done, Filled, Doing
<1>7. \A g : Covered(g) => Covered(g)'
  BY <1>1 DEF Covered, Callers, Doing, Building
\* What is in the queue now was in it before.
<1>8. PendingInv'
  <2>1. CASE pending' = pending
    BY <1>4, <2>1, PendingKept DEF Inv
  <2>2. CASE pending' = Tail(pending)
    <3>1. ASSUME NEW k \in DOMAIN pending' PROVE \E p \in PacketRecord : p = pending'[k] /\ Sound(p)'
      <4>1. k + 1 \in DOMAIN pending /\ pending'[k] = pending[k + 1]
        BY <1>2, <2>2
      <4> QED  BY <1>4, <4>1, StaysSound DEF Inv
    <3> QED  BY <3>1, PendingIs
  <2> QED  BY <1>1, <2>1, <2>2
<1>9. NothingInvented'
  <2> SUFFICES ASSUME NEW f \in Params
               PROVE  device'[f] \in had'[f] \/ (ReadTwice(f) /\ Layout[f].group \in mixed')
    BY DEF NothingInvented, ReadTwice
  <2>1. CASE f \notin Of(q.group)
    <3>1. device'[f] = device[f] /\ Layout[f].group # q.group
      BY <1>1, <2>1 DEF Of
    <3>2. device[f] \in had[f] \/ (ReadTwice(f) /\ Layout[f].group \in mixed)
      BY DEF Inv, NothingInvented
    <3> QED  BY <1>1, <3>1, <3>2
  <2>2. CASE f \in Of(q.group)
    <3>1. device'[f] = DeviceReads(q.payload, f) /\ Layout[f].group = q.group /\ had'[f] = had[f]
      BY <1>1, <1>3, <2>2, OfFacts
    <3>2. CASE \E v \in had[f] : \A e \in Parts(q.group) : e.param = f => Shows(q.payload, e, v)
      <4>1. PICK v \in had[f] : \A e \in Parts(q.group) : e.param = f => Shows(q.payload, e, v)
        BY <3>2
      <4>2. v \in Values[f]
        BY CacheValue
      <4>3. DeviceReads(q.payload, f) = v
        BY <1>3, <2>2, <4>1, <4>2, ReadValue
      <4> QED  BY <3>1, <4>3
    <3>3. CASE ~q.overlapped
      BY <1>3, <2>2, <3>2, <3>3 DEF Sound
    <3>4. CASE q.overlapped /\ ReadTwice(f)
      BY <1>1, <3>1, <3>4
    <3>5. CASE ~ReadTwice(f)
      <4>1. \A d, e \in Parts(q.group) : d.param = f /\ e.param = f => d = e
        <5>1. CASE f \in ConfigParams
          <6>1. q.group \in Lists
            BY <1>3, <2>2, <5>1, OfFacts
          <6> QED  BY <1>3, <6>1, PartFacts
        <5>2. CASE f \notin ConfigParams
          BY <3>1, <3>5, <5>2 DEF ReadTwice
        <5> QED  BY <5>1, <5>2
      <4>2. CASE \E e \in Parts(q.group) : e.param = f
        <5>1. PICK e \in Parts(q.group) : e.param = f
          BY <4>2
        <5>2. PICK v \in had[f] : Shows(q.payload, e, v)
          BY <1>3, <5>1 DEF Sound
        <5> QED  BY <3>2, <4>1, <5>1, <5>2
      <4>3. CASE ~\E e \in Parts(q.group) : e.param = f
        BY <3>2, <4>3, CacheValue
      <4> QED  BY <4>2, <4>3
    <3> QED  BY <3>3, <3>4, <3>5
  <2> QED  BY <2>1, <2>2
<1>10. ASSUME NEW g \in Groups \ stale PROVE Covered(g)' \/ LastShows(g)' \/ DeviceShows(g)'
  <2>1. CASE Covered(g)
    BY <1>7, <2>1
  <2>2. CASE DeviceShows(g)
    <3>1. g # q.group
      BY <1>2, <2>2 DEF DeviceShows
    <3>2. \A f \in Of(g) : device'[f] = cache'[f]
      BY <1>1, <1>3, <2>2, <3>1, OfFacts DEF DeviceShows
    <3>3. \A k \in DOMAIN pending' : pending'[k].group # g
      <4>1. CASE pending' = pending
        BY <2>2, <4>1 DEF DeviceShows
      <4>2. CASE pending' = Tail(pending)
        BY <1>2, <2>2, <4>2 DEF DeviceShows
      <4> QED  BY <1>1, <4>1, <4>2
    <3> QED  BY <3>2, <3>3 DEF DeviceShows
  <2>3. CASE LastShows(g)
    <3>1. PICK i \in DOMAIN pending :
             /\ pending[i].group = g /\ \A j \in DOMAIN pending : j > i => pending[j].group # g
             /\ \A e \in Parts(g) : Shows(pending[i].payload, e, cache[e.param])
      BY <2>3 DEF LastShows
    <3>2. CASE pending' = pending
      <4>1. LastShows(g)'
        BY <1>1, <2>3, <3>2 DEF LastShows
      <4> QED  BY <4>1
    <3>3. CASE pending' = Tail(pending) /\ i # 1
      <4> DEFINE k == i - 1
      <4>1. k \in DOMAIN pending' /\ pending'[k] = pending[i] /\ k \in Nat /\ i = k + 1
        <5>1. k \in DOMAIN pending' /\ k + 1 = i
          BY <1>2, <3>3
        <5> QED  BY <1>2, <3>3, <5>1
      <4> HIDE DEF k
      <4>2. ASSUME NEW j \in DOMAIN pending', j > k PROVE pending'[j].group # g
        <5>1. j + 1 \in DOMAIN pending /\ pending'[j] = pending[j + 1] /\ j \in Nat
          BY <1>2, <3>3
        <5>2. j + 1 > i
          BY <4>1, <4>2, <5>1
        <5> QED  BY <3>1, <5>1, <5>2
      <4>3. \A e \in Parts(g) : Shows(pending'[k].payload, e, cache'[e.param])
        BY <1>1, <3>1, <4>1
      <4>4. LastShows(g)'
        BY <3>1, <4>1, <4>2, <4>3 DEF LastShows
      <4> QED  BY <4>4
    <3>4. CASE pending' = Tail(pending) /\ i = 1
      <4>1. g = q.group /\ \A e \in Parts(g) : Shows(q.payload, e, cache[e.param])
        BY <1>2, <3>1, <3>4
      <4>2. ASSUME NEW f \in Of(g) PROVE device'[f] = cache'[f]
        <5>1. f \in Params /\ cache[f] \in Values[f]
          BY OfFacts, CacheValue
        <5>2. \A e \in Parts(g) : e.param = f => Shows(q.payload, e, cache[f])
          BY <4>1
        <5>3. DeviceReads(q.payload, f) = cache[f]
          BY <1>3, <5>1, <5>2, ReadValue
        <5> QED  BY <1>1, <4>1, <5>1, <5>3
      <4>3. ASSUME NEW k \in DOMAIN pending' PROVE pending'[k].group # g
        <5>1. k + 1 \in DOMAIN pending /\ pending'[k] = pending[k + 1] /\ k + 1 > 1
          BY <1>2, <3>4
        <5> QED  BY <3>1, <3>4, <5>1
      <4> QED  BY <4>2, <4>3 DEF DeviceShows
    <3> QED  BY <1>1, <3>2, <3>3, <3>4
  <2> QED  BY <2>1, <2>2, <2>3 DEF Inv, Current
<1>11. Current'
  BY <1>1, <1>10 DEF Current
<1> QED  BY <1>5, <1>6, <1>8, <1>9, <1>11 DEF Inv

-----------------------------------------------------------------------------
(* Every step keeps the invariants                                          *)

LEMMA InitInv == ConfigurationInit => TypeInv /\ Inv
<1> SUFFICES ASSUME ConfigurationInit PROVE TypeInv /\ Inv
  OBVIOUS
<1>1. /\ cache = [f \in Params |-> CHOOSE v \in Values[f] : TRUE]
      /\ pending = <<>> /\ client = [c \in Clients |-> NoCall]
      /\ device = cache /\ mixed = {} /\ calls = 0 /\ stale = {}
      /\ had = [f \in Params |-> {cache[f]}]
  BY DEF ConfigurationInit
<1>2. DOMAIN pending = {} /\ pending \in Seq(PacketRecord)
  BY <1>1
<1>3. \A f \in Params : cache[f] \in Values[f] /\ had[f] = {cache[f]}
  BY <1>1, ConfigurationAssumption
<1>4. \A c \in Clients : client[c] = NoCall
  BY <1>1
<1>5. Callers = {} /\ client \in [Clients -> CallRecord] /\ \A c \in Clients : ~Building(c) /\ CallInv(client[c])
  BY <1>1, <1>4, NoCallIs DEF Callers, Doing, Building
<1>6. TypeInv
  <2>1. CacheType
    BY <1>1, <1>3 DEF CacheType
  <2>2. QueueType
    BY <1>2 DEF QueueType
  <2>3. MarkType
    BY <1>1, ConfigurationAssumption DEF MarkType
  <2> QED  BY <1>5, <2>1, <2>2, <2>3 DEF TypeInv, CallType
<1>7. Solitary /\ SetInv /\ BuildInv /\ PendingInv
  BY <1>2, <1>5 DEF Solitary, SetInv, BuildInv, PendingInv
<1>8. NothingInvented
  BY <1>1, <1>3 DEF NothingInvented
<1>9. Current
  <2>1. \A g \in Groups : DeviceShows(g)
    BY <1>1, <1>2 DEF DeviceShows
  <2> QED  BY <2>1 DEF Current
<1> QED  BY <1>6, <1>7, <1>8, <1>9 DEF Inv

LEMMA StutterInv == ASSUME TypeInv, Inv, UNCHANGED configurationVars PROVE TypeInv' /\ Inv'
<1>1. UNCHANGED <<cache, pending, client, device, mixed, calls, had, stale>>
  BY DEF configurationVars
<1>2. CallType'
  BY <1>1 DEF TypeInv, CallType
<1>3. TypeInv'
  BY <1>1, <1>2, OthersType
<1>4. Solitary' /\ SetInv'
  BY <1>1 DEF Inv, Solitary, SetInv, Settled, Taken, Callers, Doing
<1>5. BuildInv'
  BY <1>1 DEF Inv, BuildInv, Building, Built, Done, Filled, Doing
<1>6. NothingInvented'
  BY <1>1 DEF Inv, NothingInvented, ReadTwice
<1>7. \A g : Covered(g) => Covered(g)'
  BY <1>1 DEF Covered, Callers, Doing, Building
<1> QED  BY <1>1, <1>3, <1>4, <1>5, <1>6, <1>7, BuildKeeps

LEMMA NextInv == TypeInv /\ Inv /\ [ConfigurationNext]_configurationVars => TypeInv' /\ Inv'
<1> SUFFICES ASSUME TypeInv, Inv, [ConfigurationNext]_configurationVars PROVE TypeInv' /\ Inv'
  OBVIOUS
<1>1. ASSUME NEW c \in Clients, Request(c) PROVE TypeInv' /\ Inv'
  <2>1. PICK given \in Givens : Kind(given) /\ DOMAIN given # {} /\ Begin(c, given)
    BY <1>1, RequestIs
  <2> QED  BY <2>1, BeginType, BeginKeeps
<1>2. ASSUME NEW c \in Clients, NEW f \in Params, SetParameter(c, f) PROVE TypeInv' /\ Inv'
  BY <1>2, SetParameterType, SetParameterKeeps
<1>3. ASSUME NEW c \in Clients, NEW f \in Params, Put(c, f) PROVE TypeInv' /\ Inv'
  BY <1>3, PutType, PutKeeps
<1>4. ASSUME NEW c \in Clients, NEW f \in Params, Fill(c, f) PROVE TypeInv' /\ Inv'
  BY <1>4, FillType, FillKeeps
<1>5. ASSUME NEW c \in Clients, NEW g \in Groups, StartList(c, g) PROVE TypeInv' /\ Inv'
  BY <1>5, StartListType, StartListKeeps
<1>6. ASSUME NEW c \in Clients, NEW g \in Groups, StartFrame(c, g) PROVE TypeInv' /\ Inv'
  BY <1>6, StartFrameType, StartFrameKeeps
<1>7. ASSUME NEW c \in Clients, Element(c) PROVE TypeInv' /\ Inv'
  BY <1>7, ElementType, ElementKeeps
<1>8. ASSUME NEW c \in Clients, Remove(c) PROVE TypeInv' /\ Inv'
  BY <1>8, RemoveType, RemoveKeeps
<1>9. ASSUME NEW c \in Clients, Push(c) PROVE TypeInv' /\ Inv'
  BY <1>9, PushType, PushKeeps
<1>10. CASE Deliver
  BY <1>10, DeliverType, DeliverKeeps
<1>11. CASE Kill
  BY <1>11, KillType, KillKeeps
<1>12. CASE UNCHANGED configurationVars
  BY <1>12, StutterInv
<1> QED
  BY <1>1, <1>2, <1>3, <1>4, <1>5, <1>6, <1>7, <1>8, <1>9, <1>10, <1>11, <1>12 DEF ConfigurationNext, Build

LEMMA ConfigurationInvariant == ConfigurationSpec => [](TypeInv /\ Inv)
BY InitInv, NextInv, PTL DEF ConfigurationSpec

\* Every parameter of the cache has a value it was given and every packet that is
\* queued is one of bytes for a list or a frame.
THEOREM ConfigurationTypes == ConfigurationSpec => []ConfigurationTypeOK
<1>1. TypeInv => ConfigurationTypeOK
  <2> SUFFICES ASSUME TypeInv PROVE ConfigurationTypeOK
    OBVIOUS
  <2>1. ASSUME NEW c \in Callers
        PROVE  /\ \A f \in DOMAIN client[c].given : client[c].given[f] \in Values[f]
               /\ client[c].lists \subseteq Groups /\ client[c].overlapped \in BOOLEAN
    BY Record DEF Callers
  <2> QED  BY <2>1 DEF ConfigurationTypeOK, TypeInv, CacheType, QueueType, MarkType, PacketRecord
<1> QED  BY <1>1, ConfigurationInvariant, PTL

\* Whatever calls of putParamset and setValue run side by side, in whatever order
\* their steps and the deliveries come and wherever the process is killed, the
\* device has of each parameter a value that was set, or halves of two such values
\* if it is in two elements of a frame and the calls overlapped.
THEOREM DeviceHasNothingInvented == ConfigurationSpec => []NothingInvented
<1>1. Inv => NothingInvented
  BY DEF Inv
<1> QED  BY <1>1, ConfigurationInvariant, PTL

\* Once no call runs and nothing is pending, the device has what the cache shows
\* of every list and frame whose last call neither overlapped nor was killed.
THEOREM DeviceInSync == ConfigurationSpec => []InSync
<1>1. Inv => InSync
  <2> SUFFICES ASSUME Inv, Callers = {}, pending = <<>>, NEW f \in Params, Layout[f].group \notin stale
               PROVE  device[f] = cache[f]
    BY DEF InSync
  <2> DEFINE g == Layout[f].group
  <2>1. g \in Groups /\ f \in Of(g)
    BY ConfigurationAssumption DEF Of
  <2>2. ~Covered(g)
    BY DEF Covered
  <2>3. ~LastShows(g)
    BY DEF LastShows
  <2>4. DeviceShows(g)
    BY <2>1, <2>2, <2>3 DEF Inv, Current
  <2> QED  BY <2>1, <2>4 DEF DeviceShows
<1> QED  BY <1>1, ConfigurationInvariant, PTL
=============================================================================
