----------------------------- MODULE LinksProofs -----------------------------
(***************************************************************************)
(* Links: the records of two peers agree for any number of devices, calls  *)
(* and troubles.  LinksMutual is not inductive: a call makes its pair      *)
(* agree in two steps, so the invariant says how far each call has come,   *)
(* and that a call that calls itself clean has its pair for itself.        *)
(***************************************************************************)
EXTENDS Links, FiniteSetTheorems, TLAPS

Locations == {"First", "Second", "Push", "Announce", "Poll", "Clear"}
Calling == [at : Locations, op : {"add", "remove"}, sender : Devices, receiver : Devices,
            device : Devices, clean : BOOLEAN]

LinksType ==
    /\ paired \subseteq Devices
    /\ generation \in [Devices -> Nat]
    /\ records \in [Devices -> SUBSET [address : Devices, id : Nat]]
    /\ client \in [Clients -> Calling \union {Idle, Over}]
    /\ \A c \in Busy : client[c].sender # client[c].receiver

\* A call is about peers, and no peer has a record of one that is still to come.
Present ==
    /\ \A c \in Busy : PairOf(c) \subseteq paired
    /\ \A d \in Devices : \A r \in records[d] : r.id <= generation[r.address]
    /\ \A d \in Devices \ paired : records[d] = {}

Mutual(a, b) == LinkedTo(a, b) <=> LinkedTo(b, a)

Alone == \A c, x \in Busy : client[c].clean /\ PairOf(x) = PairOf(c) => x = c

\* How far a clean call has come.
Recording ==
    \A c \in Busy : client[c].clean =>
        /\ At(c, "First") => PairOf(c) \in torn \/ Mutual(client[c].sender, client[c].receiver)
        /\ At(c, "Second") =>
               (LinkedTo(client[c].sender, client[c].receiver) <=> client[c].op = "add")
        /\ ~At(c, "First") /\ ~At(c, "Second") => Mutual(client[c].sender, client[c].receiver)

Agree == \A a, b \in Devices : AtRest(a, b) => Mutual(a, b)
Once == \A a \in Devices : \A r, s \in records[a] : r.address = s.address => r = s

IInv == LinksType /\ Present /\ Alone /\ Recording /\ Agree /\ Once

-----------------------------------------------------------------------------

\* A busy thread works on a call between two devices.
LEMMA BusyCalls ==
    ASSUME LinksType, NEW c \in Busy
    PROVE  /\ c \in Clients /\ client[c] \in Calling
           /\ client[c].sender \in Devices /\ client[c].receiver \in Devices
           /\ client[c].sender # client[c].receiver
           /\ PairOf(c) = {client[c].sender, client[c].receiver}
BY DEF LinksType, Busy, At, Idle, Over, Calling, PairOf

\* The partner of the one device is the other.
LEMMA Partners ==
    ASSUME LinksType, NEW c \in Busy
    PROVE  /\ Partner(c, client[c].sender) = client[c].receiver
           /\ Partner(c, client[c].receiver) = client[c].sender
<1>1. PairOf(c) = {client[c].sender, client[c].receiver} /\ client[c].sender # client[c].receiver
    BY BusyCalls
<1> QED  BY <1>1 DEF Partner

\* What a call records of one device touches no other link.
LEMMA RecordedLink ==
    ASSUME LinksType, Present, Once, NEW c \in Busy, NEW d \in Devices, NEW e \in Devices,
           e = Partner(c, d), d \in paired,
           records' = Recorded(c, d), generation' = generation, paired' = paired
    PROVE  /\ records' \in [Devices -> SUBSET [address : Devices, id : Nat]]
           /\ \A a, b \in Devices : a # d \/ b # e => (LinkedTo(a, b)' <=> LinkedTo(a, b))
           /\ LinkedTo(d, e)' <=> client[c].op = "add"
           /\ \A x \in Devices : \A r \in records'[x] : r.id <= generation[r.address]
           /\ \A x \in Devices \ paired : records'[x] = {}
           /\ Once'
<1>1. /\ generation \in [Devices -> Nat]
      /\ records \in [Devices -> SUBSET [address : Devices, id : Nat]]
    BY DEF LinksType
<1>2. \A b \in Devices : Record(b) \in [address : Devices, id : Nat] /\ Record(b)' = Record(b)
                          /\ Record(b).address = b /\ Record(b).id = generation[b]
    BY <1>1 DEF Record
<1>3. /\ client[c].op = "add" => records' = [records EXCEPT ![d] = AddPeer(d, e)]
      /\ client[c].op # "add" => records' = [records EXCEPT ![d] = RemovePeer(d, e)]
    BY DEF Recorded
<1>4. /\ AddPeer(d, e) \in SUBSET [address : Devices, id : Nat]
      /\ \A r \in AddPeer(d, e) : r = Record(e) \/ (r \in records[d] /\ r.address # e)
      /\ \A r \in records[d] : r.address # e => r \in AddPeer(d, e)
      /\ Record(e) \in AddPeer(d, e)
    BY <1>1, <1>2 DEF AddPeer
<1>5. /\ RemovePeer(d, e) \in SUBSET [address : Devices, id : Nat]
      /\ \A r \in RemovePeer(d, e) : r \in records[d] /\ r # Record(e)
      /\ \A r \in records[d] : r # Record(e) => r \in RemovePeer(d, e)
    BY <1>1 DEF RemovePeer
<1>6. \A x \in Devices \ {d} : records'[x] = records[x]
    BY <1>1, <1>3
<1>7. \/ client[c].op = "add" /\ records'[d] = AddPeer(d, e)
      \/ client[c].op # "add" /\ records'[d] = RemovePeer(d, e)
    BY <1>1, <1>3
<1>8. records' \in [Devices -> SUBSET [address : Devices, id : Nat]]
    BY <1>1, <1>3, <1>4, <1>5
<1>9. \A a, b \in Devices : a # d \/ b # e => (LinkedTo(a, b)' <=> LinkedTo(a, b))
  <2> SUFFICES ASSUME NEW a \in Devices, NEW b \in Devices, a # d \/ b # e
               PROVE  Record(b) \in records'[a] <=> Record(b) \in records[a]
      BY <1>2 DEF LinkedTo
  <2>1. CASE a # d
      BY <2>1, <1>6
  <2>2. CASE a = d /\ b # e
      BY <2>2, <1>2, <1>4, <1>5, <1>7
  <2> QED  BY <2>1, <2>2
<1>10. LinkedTo(d, e)' <=> client[c].op = "add"
    BY <1>2, <1>4, <1>5, <1>7 DEF LinkedTo
<1>11. \A r \in records'[d] : r.id <= generation[r.address]
  <2>1. generation[e] <= generation[e]
      BY <1>1
  <2> QED  BY <2>1, <1>2, <1>4, <1>5, <1>7 DEF Present
<1>12. \A x \in Devices : \A r \in records'[x] : r.id <= generation[r.address]
    BY <1>6, <1>11 DEF Present
<1>13. \A r, s \in records'[d] : r.address = s.address => r = s
    BY <1>2, <1>4, <1>5, <1>7 DEF Once
<1>14. Once'
    BY <1>6, <1>13 DEF Once
<1>15. \A x \in Devices \ paired : records'[x] = {}
    BY <1>6 DEF Present
<1> QED  BY <1>8, <1>9, <1>10, <1>12, <1>14, <1>15

\* A call goes on: nothing but its own place changes among the calls.
LEMMA Goes ==
    ASSUME LinksType, NEW c \in Busy, NEW f \in Calling,
           f.op = client[c].op, f.sender = client[c].sender, f.receiver = client[c].receiver,
           f.clean = client[c].clean, client' = [client EXCEPT ![c] = f]
    PROVE  /\ Busy' = Busy
           /\ client' \in [Clients -> Calling \union {Idle, Over}]
           /\ client'[c] = f /\ \A x \in Clients \ {c} : client'[x] = client[x]
           /\ \A x \in Busy : /\ client'[x].op = client[x].op
                              /\ client'[x].sender = client[x].sender
                              /\ client'[x].receiver = client[x].receiver
                              /\ client'[x].clean = client[x].clean
                              /\ PairOf(x)' = PairOf(x)
<1>1. c \in Clients /\ client[c] \in Calling /\ client \in [Clients -> Calling \union {Idle, Over}]
    BY BusyCalls DEF LinksType
<1>2. client'[c] = f /\ \A x \in Clients \ {c} : client'[x] = client[x]
    BY <1>1
<1>3. client' \in [Clients -> Calling \union {Idle, Over}]
    BY <1>1
<1>4. f.at \in Locations
    BY DEF Calling
<1>5. Busy' = Busy
    BY <1>2, <1>4 DEF Busy, At, Locations
<1>6. Busy \subseteq Clients
    BY DEF Busy
<1> QED  BY <1>2, <1>3, <1>5, <1>6 DEF PairOf

\* A call ends, or dies.
LEMMA Ends ==
    ASSUME LinksType, NEW D \in SUBSET Busy,
           \A c \in D : client'[c] = Over, \A c \in Clients \ D : client'[c] = client[c],
           client' \in [Clients -> Calling \union {Idle, Over}]
    PROVE  /\ Busy' = Busy \ D
           /\ \A x \in Busy' : client'[x] = client[x] /\ PairOf(x)' = PairOf(x)
<1>1. Busy \subseteq Clients
    BY DEF Busy
<1>2. Busy' = Busy \ D
    BY <1>1 DEF Busy, At, Over
<1> QED  BY <1>1, <1>2 DEF PairOf

-----------------------------------------------------------------------------

\* Steps that touch no record and no call.
LEMMA Elsewhere ==
    ASSUME IInv, UNCHANGED <<paired, generation, records, client, torn>>
    PROVE  IInv'
<1>1. LinksType'
    BY DEF IInv, LinksType, Busy, At
<1>2. Present' /\ Alone'
    BY DEF IInv, Present, Alone, Busy, At, PairOf
<1>3. Recording' /\ Agree' /\ Once'
    BY DEF IInv, Recording, Agree, Once, Mutual, LinkedTo, Record, AtRest, Busy, At, PairOf
<1> QED  BY <1>1, <1>2, <1>3 DEF IInv

\* A call goes on after it has recorded what it had to.
LEMMA GoesOn ==
    ASSUME IInv, NEW c \in Busy, NEW f \in Calling,
           f.op = client[c].op, f.sender = client[c].sender, f.receiver = client[c].receiver,
           f.clean = client[c].clean, client' = [client EXCEPT ![c] = f],
           client[c].at \notin {"First", "Second"}, f.at \notin {"First", "Second"},
           UNCHANGED <<paired, generation, records, torn>>
    PROVE  IInv'
<1> USE DEF IInv
<1> DEFINE Kept ==
           /\ Busy' = Busy
           /\ client' \in [Clients -> Calling \union {Idle, Over}]
           /\ client'[c] = f /\ \A x \in Clients \ {c} : client'[x] = client[x]
           /\ \A x \in Busy : /\ client'[x].op = client[x].op
                              /\ client'[x].sender = client[x].sender
                              /\ client'[x].receiver = client[x].receiver
                              /\ client'[x].clean = client[x].clean
                              /\ PairOf(x)' = PairOf(x)
<1>1. Kept
    BY Goes
<1>2. \A x \in Busy : x \in Clients
    BY DEF Busy
<1>3. \A a, b : LinkedTo(a, b)' <=> LinkedTo(a, b)
    BY DEF LinkedTo, Record
<1>4. LinksType'
    BY <1>1 DEF LinksType
<1>5. Present' /\ Alone' /\ Once'
    BY <1>1 DEF Present, Alone, Once
<1>6. Recording'
    BY <1>1, <1>2, <1>3 DEF Recording, Mutual, At
<1>7. Agree'
    BY <1>1, <1>3 DEF Agree, Mutual, AtRest
<1> QED  BY <1>4, <1>5, <1>6, <1>7

\* The first record of a call: the pair is out of step until the second.
LEMMA FirstKeeps ==
    ASSUME IInv, NEW c \in Clients, First(c)
    PROVE  IInv'
<1> USE DEF IInv
<1> DEFINE f == [client[c] EXCEPT !.at = "Second"]
<1>1. c \in Busy
    BY DEF First, At, Busy
<1>2. PICK d \in Devices, e \in Devices :
          /\ d = client[c].sender /\ e = client[c].receiver /\ client[c] \in Calling /\ d # e
          /\ PairOf(c) = {d, e} /\ d \in paired /\ e = Partner(c, d)
    BY <1>1, BusyCalls, Partners DEF Present
<1>3. /\ f \in Calling /\ f.at = "Second" /\ f.op = client[c].op /\ f.sender = client[c].sender
      /\ f.receiver = client[c].receiver /\ f.clean = client[c].clean
      /\ client' = [client EXCEPT ![c] = f]
    BY <1>2 DEF Calling, Locations, First, Go
<1> HIDE DEF f
<1>4. /\ Busy' = Busy
      /\ client' \in [Clients -> Calling \union {Idle, Over}]
      /\ client'[c] = f /\ \A x \in Clients \ {c} : client'[x] = client[x]
      /\ \A x \in Busy : /\ client'[x].op = client[x].op
                         /\ client'[x].sender = client[x].sender
                         /\ client'[x].receiver = client[x].receiver
                         /\ client'[x].clean = client[x].clean
                         /\ PairOf(x)' = PairOf(x)
    BY <1>1, <1>3, Goes
<1>5. /\ records' = Recorded(c, d) /\ generation' = generation /\ paired' = paired /\ torn' = torn
    BY <1>2 DEF First, ghosts
<1>6. /\ records' \in [Devices -> SUBSET [address : Devices, id : Nat]]
      /\ \A a, b \in Devices : a # d \/ b # e => (LinkedTo(a, b)' <=> LinkedTo(a, b))
      /\ LinkedTo(d, e)' <=> client[c].op = "add"
      /\ \A x \in Devices : \A r \in records'[x] : r.id <= generation[r.address]
      /\ \A x \in Devices \ paired : records'[x] = {}
      /\ Once'
    BY <1>1, <1>2, <1>5, RecordedLink
<1>7. LinksType' /\ Present' /\ Alone'
    BY <1>4, <1>5, <1>6 DEF LinksType, Present, Alone
<1>8. \A a, b \in Devices : {a, b} # {d, e} => (Mutual(a, b)' <=> Mutual(a, b))
    BY <1>6 DEF Mutual
<1>9. Agree'
  <2> SUFFICES ASSUME NEW a \in Devices, NEW b \in Devices, AtRest(a, b)'
               PROVE  Mutual(a, b)'
      BY DEF Agree
  <2>1. {a, b} # {d, e}
      BY <1>1, <1>2, <1>4 DEF AtRest
  <2>2. AtRest(a, b)
      BY <1>4, <1>5 DEF AtRest
  <2> QED  BY <2>1, <2>2, <1>8 DEF Agree
<1>10. Recording'
  <2> SUFFICES ASSUME NEW x \in Busy, client[x].clean
               PROVE  /\ At(x, "First")' => PairOf(x) \in torn \/ Mutual(client[x].sender, client[x].receiver)'
                      /\ At(x, "Second")' => (LinkedTo(client[x].sender, client[x].receiver)'
                                                 <=> client[x].op = "add")
                      /\ ~At(x, "First")' /\ ~At(x, "Second")' =>
                             Mutual(client[x].sender, client[x].receiver)'
      BY <1>4, <1>5 DEF Recording, Mutual, LinkedTo, Record
  <2>1. /\ client[x].sender \in Devices /\ client[x].receiver \in Devices /\ x \in Clients
        /\ PairOf(x) = {client[x].sender, client[x].receiver}
      BY BusyCalls
  <2>2. CASE x = c
      BY <2>2, <1>1, <1>2, <1>3, <1>4, <1>6 DEF At, LinkedTo, Record
  <2>3. CASE x # c
    <3>1. PairOf(x) # PairOf(c)
        BY <2>3, <1>1 DEF Alone
    <3>2. \A l : At(x, l)' <=> At(x, l)
        BY <2>1, <2>3, <1>4 DEF At
    <3>3. Mutual(client[x].sender, client[x].receiver)' <=> Mutual(client[x].sender, client[x].receiver)
        BY <2>1, <3>1, <1>2, <1>4, <1>8 DEF Mutual, LinkedTo, Record
    <3>4. LinkedTo(client[x].sender, client[x].receiver)' <=> LinkedTo(client[x].sender, client[x].receiver)
        BY <2>1, <3>1, <1>2, <1>4, <1>6 DEF LinkedTo, Record
    <3> QED  BY <3>2, <3>3, <3>4 DEF Recording
  <2> QED  BY <2>2, <2>3
<1> QED  BY <1>6, <1>7, <1>9, <1>10

\* The second record brings them together, whatever the pair was before.
LEMMA SecondKeeps ==
    ASSUME IInv, NEW c \in Clients, Second(c)
    PROVE  IInv'
<1> USE DEF IInv
<1> DEFINE f == [client[c] EXCEPT !.at = "Push"]
<1>1. c \in Busy
    BY DEF Second, At, Busy
<1>2. PICK d \in Devices, e \in Devices :
          /\ d = client[c].receiver /\ e = client[c].sender /\ client[c] \in Calling /\ d # e
          /\ PairOf(c) = {d, e} /\ d \in paired /\ e = Partner(c, d)
    BY <1>1, BusyCalls, Partners DEF Present
<1>3. /\ f \in Calling /\ f.at = "Push" /\ f.op = client[c].op /\ f.sender = client[c].sender
      /\ f.receiver = client[c].receiver /\ f.clean = client[c].clean
      /\ client' = [client EXCEPT ![c] = f]
    BY <1>2 DEF Calling, Locations, Second, Go
<1> HIDE DEF f
<1>4. /\ Busy' = Busy
      /\ client' \in [Clients -> Calling \union {Idle, Over}]
      /\ client'[c] = f /\ \A x \in Clients \ {c} : client'[x] = client[x]
      /\ \A x \in Busy : /\ client'[x].op = client[x].op
                         /\ client'[x].sender = client[x].sender
                         /\ client'[x].receiver = client[x].receiver
                         /\ client'[x].clean = client[x].clean
                         /\ PairOf(x)' = PairOf(x)
    BY <1>1, <1>3, Goes
<1>5. /\ records' = Recorded(c, d) /\ generation' = generation /\ paired' = paired /\ torn' = torn
    BY <1>2 DEF Second, ghosts
<1>6. /\ records' \in [Devices -> SUBSET [address : Devices, id : Nat]]
      /\ \A a, b \in Devices : a # d \/ b # e => (LinkedTo(a, b)' <=> LinkedTo(a, b))
      /\ LinkedTo(d, e)' <=> client[c].op = "add"
      /\ \A x \in Devices : \A r \in records'[x] : r.id <= generation[r.address]
      /\ \A x \in Devices \ paired : records'[x] = {}
      /\ Once'
    BY <1>1, <1>2, <1>5, RecordedLink
<1>7. LinksType' /\ Present' /\ Alone'
    BY <1>4, <1>5, <1>6 DEF LinksType, Present, Alone
<1>8. \A a, b \in Devices : {a, b} # {d, e} => (Mutual(a, b)' <=> Mutual(a, b))
    BY <1>6 DEF Mutual
<1>9. Agree'
  <2> SUFFICES ASSUME NEW a \in Devices, NEW b \in Devices, AtRest(a, b)'
               PROVE  Mutual(a, b)'
      BY DEF Agree
  <2>1. {a, b} # {d, e}
      BY <1>1, <1>2, <1>4 DEF AtRest
  <2>2. AtRest(a, b)
      BY <1>4, <1>5 DEF AtRest
  <2> QED  BY <2>1, <2>2, <1>8 DEF Agree
<1>10. Recording'
  <2> SUFFICES ASSUME NEW x \in Busy, client[x].clean
               PROVE  /\ At(x, "First")' => PairOf(x) \in torn \/ Mutual(client[x].sender, client[x].receiver)'
                      /\ At(x, "Second")' => (LinkedTo(client[x].sender, client[x].receiver)'
                                                 <=> client[x].op = "add")
                      /\ ~At(x, "First")' /\ ~At(x, "Second")' =>
                             Mutual(client[x].sender, client[x].receiver)'
      BY <1>4, <1>5 DEF Recording, Mutual, LinkedTo, Record
  <2>1. /\ client[x].sender \in Devices /\ client[x].receiver \in Devices /\ x \in Clients
        /\ PairOf(x) = {client[x].sender, client[x].receiver}
      BY BusyCalls
  <2>2. CASE x = c
    <3>1. LinkedTo(e, d) <=> client[c].op = "add"
        BY <2>2, <1>1, <1>2 DEF Recording, At, Second
    <3>2. Mutual(e, d)'
        BY <3>1, <1>2, <1>6 DEF Mutual
    <3> QED  BY <2>2, <3>2, <1>1, <1>2, <1>3, <1>4 DEF At, Mutual, LinkedTo, Record
  <2>3. CASE x # c
    <3>1. PairOf(x) # PairOf(c)
        BY <2>3, <1>1 DEF Alone
    <3>2. \A l : At(x, l)' <=> At(x, l)
        BY <2>1, <2>3, <1>4 DEF At
    <3>3. Mutual(client[x].sender, client[x].receiver)' <=> Mutual(client[x].sender, client[x].receiver)
        BY <2>1, <3>1, <1>2, <1>4, <1>8 DEF Mutual, LinkedTo, Record
    <3>4. LinkedTo(client[x].sender, client[x].receiver)' <=> LinkedTo(client[x].sender, client[x].receiver)
        BY <2>1, <3>1, <1>2, <1>4, <1>6 DEF LinkedTo, Record
    <3> QED  BY <3>2, <3>3, <3>4 DEF Recording
  <2> QED  BY <2>2, <2>3
<1> QED  BY <1>6, <1>7, <1>9, <1>10

\* A call returns: what it leaves is out of step only if it met another one.
LEMMA ReturnKeeps ==
    ASSUME IInv, NEW c \in Busy, client[c].at \notin {"First", "Second"},
           client' = [client EXCEPT ![c] = Over],
           torn' = IF client[c].clean THEN torn \ {PairOf(c)} ELSE torn \union {PairOf(c)},
           UNCHANGED <<paired, generation, records>>
    PROVE  IInv'
<1> USE DEF IInv
<1>1. c \in Clients /\ client \in [Clients -> Calling \union {Idle, Over}]
    BY BusyCalls DEF LinksType
<1>2. /\ client' \in [Clients -> Calling \union {Idle, Over}]
      /\ client'[c] = Over /\ \A x \in Clients \ {c} : client'[x] = client[x]
    BY <1>1
<1>3. /\ Busy' = Busy \ {c}
      /\ \A x \in Busy' : client'[x] = client[x] /\ PairOf(x)' = PairOf(x)
  <2>1. {c} \in SUBSET Busy
      OBVIOUS
  <2> QED  BY <1>2, <2>1, Ends
<1>4. \A a, b : LinkedTo(a, b)' <=> LinkedTo(a, b)
    BY DEF LinkedTo, Record
<1>5. LinksType' /\ Present' /\ Alone' /\ Once'
    BY <1>2, <1>3 DEF LinksType, Present, Alone, Once
<1>6. Recording'
  <2> SUFFICES ASSUME NEW x \in Busy', client[x].clean, PairOf(x) \in torn
               PROVE  PairOf(x) \in torn'
      BY <1>3, <1>4 DEF Recording, Mutual, At
  <2>1. x \in Busy /\ x # c
      BY <1>3
  <2>2. PairOf(x) # PairOf(c)
      BY <2>1 DEF Alone
  <2> QED  BY <2>2
<1>7. Agree'
  <2> SUFFICES ASSUME NEW a \in Devices, NEW b \in Devices, AtRest(a, b)'
               PROVE  Mutual(a, b)
      BY <1>4 DEF Agree, Mutual
  <2>1. CASE {a, b} = PairOf(c)
    <3>1. client[c].clean
        BY <2>1 DEF AtRest
    <3>2. Mutual(client[c].sender, client[c].receiver)
        BY <3>1 DEF Recording, At
    <3> QED  BY <2>1, <3>2, BusyCalls DEF Mutual
  <2>2. CASE {a, b} # PairOf(c)
    <3>1. AtRest(a, b)
        BY <2>2, <1>3 DEF AtRest
    <3> QED  BY <3>1 DEF Agree
  <2> QED  BY <2>1, <2>2
<1> QED  BY <1>5, <1>6, <1>7

\* A kill ends the calls that are under way; their pairs are torn.
LEMMA KillKeeps ==
    ASSUME IInv, Kill
    PROVE  IInv'
<1> USE DEF IInv
<1>1. /\ client' = [c \in Clients |-> IF c \in Busy THEN Over ELSE client[c]]
      /\ paired' = paired /\ generation' = generation /\ records' = records
      /\ \A c \in Busy : PairOf(c) \in torn'
      /\ \A p \in torn : p \in torn'
    BY DEF Kill, peers
<1>2. client' \in [Clients -> Calling \union {Idle, Over}]
    BY <1>1 DEF LinksType
<1>3. Busy' = {}
  <2>1. \A c \in Clients : c \notin Busy'
      BY <1>1 DEF Busy, At, Over
  <2> QED  BY <2>1 DEF Busy
<1>4. LinksType' /\ Present' /\ Alone' /\ Recording' /\ Once'
    BY <1>1, <1>2, <1>3 DEF LinksType, Present, Alone, Recording, Once
<1>5. Agree'
  <2> SUFFICES ASSUME NEW a \in Devices, NEW b \in Devices, AtRest(a, b)'
               PROVE  Mutual(a, b)'
      BY DEF Agree
  <2>1. AtRest(a, b)
      BY <1>1 DEF AtRest
  <2> QED  BY <1>1, <2>1 DEF Agree, Mutual, LinkedTo, Record
<1> QED  BY <1>4, <1>5

\* A call begins: its pair is at rest, or it meets another call and neither
\* of the two is clean.
LEMMA StartKeeps ==
    ASSUME IInv, NEW c \in Clients, NEW op \in {"add", "remove"},
           NEW s \in Devices, NEW r \in Devices, s # r, Start(c, op, s, r)
    PROVE  IInv'
<1> USE DEF IInv
<1> DEFINE others == {x \in Busy : PairOf(x) = {s, r}}
           f == [at |-> "First", op |-> op, sender |-> s, receiver |-> r, device |-> s,
                 clean |-> others = {}]
           g(x) == [client[x] EXCEPT !.clean = FALSE]
<1>1. /\ c \in Clients \ Busy /\ {s, r} \subseteq paired
      /\ client' = [x \in Clients |-> IF x = c THEN f ELSE IF x \in others THEN g(x) ELSE client[x]]
      /\ UNCHANGED <<paired, generation, records, torn>>
    BY DEF Start, Busy, At, peers, ghosts
<1>2. f \in Calling /\ f.at = "First" /\ f.sender = s /\ f.receiver = r /\ f.clean = (others = {})
    BY DEF Calling, Locations
<1>3. \A x \in Busy : client[x] \in Calling /\ x \in Clients
    BY BusyCalls
<1>4. \A x \in Busy : /\ g(x) \in Calling /\ g(x).at = client[x].at /\ g(x).op = client[x].op
                      /\ g(x).sender = client[x].sender /\ g(x).receiver = client[x].receiver
                      /\ g(x).clean = FALSE
    BY <1>3 DEF Calling
<1> HIDE DEF f, g
<1>5. /\ client'[c] = f
      /\ \A x \in Busy : /\ client'[x].at = client[x].at /\ client'[x].op = client[x].op
                         /\ client'[x].sender = client[x].sender
                         /\ client'[x].receiver = client[x].receiver
                         /\ x \in others => client'[x].clean = FALSE
                         /\ x \notin others => client'[x] = client[x]
    BY <1>1, <1>3, <1>4
<1>6. client' \in [Clients -> Calling \union {Idle, Over}]
    BY <1>1, <1>2, <1>3, <1>4 DEF LinksType
<1>7. Busy' = Busy \union {c}
  <2>1. \A x \in Clients : x \in Busy' <=> x \in Busy \/ x = c
      BY <1>1, <1>2, <1>5 DEF Busy, At
  <2>2. Busy \subseteq Clients /\ Busy' \subseteq Clients
      BY DEF Busy
  <2> QED  BY <2>1, <2>2
<1>8. PairOf(c)' = {s, r} /\ \A x \in Busy : PairOf(x)' = PairOf(x)
    BY <1>2, <1>5 DEF PairOf
<1>9. \A a, b : LinkedTo(a, b)' <=> LinkedTo(a, b)
    BY <1>1 DEF LinkedTo, Record
<1>10. LinksType'
  <2>1. client'[c].sender # client'[c].receiver
      BY <1>2, <1>5
  <2>2. \A x \in Busy' : client'[x].sender # client'[x].receiver
      BY <2>1, <1>5, <1>7 DEF LinksType
  <2> QED  BY <2>2, <1>1, <1>6 DEF LinksType
<1>11. Present' /\ Once'
    BY <1>1, <1>7, <1>8 DEF Present, Once
<1>12. Alone'
  <2> SUFFICES ASSUME NEW y \in Busy', NEW x \in Busy', client'[y].clean, PairOf(x)' = PairOf(y)'
               PROVE  x = y
      BY DEF Alone
  <2>1. CASE y = c
    <3>1. others = {}
        BY <2>1, <1>2, <1>5
    <3> QED  BY <2>1, <3>1, <1>7, <1>8
  <2>2. CASE y # c
    <3>1. y \in Busy /\ y \notin others
        BY <2>2, <1>5, <1>7
    <3>2. client[y].clean /\ PairOf(y) # {s, r}
        BY <3>1, <1>5
    <3> QED  BY <3>1, <3>2, <1>7, <1>8 DEF Alone
  <2> QED  BY <2>1, <2>2
<1>13. Recording'
  <2> SUFFICES ASSUME NEW x \in Busy', client'[x].clean
               PROVE  /\ At(x, "First")' =>
                             PairOf(x)' \in torn \/ Mutual(client'[x].sender, client'[x].receiver)
                      /\ At(x, "Second")' =>
                             (LinkedTo(client'[x].sender, client'[x].receiver) <=> client'[x].op = "add")
                      /\ ~At(x, "First")' /\ ~At(x, "Second")' =>
                             Mutual(client'[x].sender, client'[x].receiver)
      BY <1>1 DEF Recording, Mutual, LinkedTo, Record
  <2>1. CASE x = c
    <3>1. others = {}
        BY <2>1, <1>2, <1>5
    <3>2. {s, r} \in torn \/ AtRest(s, r)
        BY <1>1, <3>1 DEF AtRest
    <3>3. {s, r} \in torn \/ Mutual(s, r)
        BY <3>2 DEF Agree
    <3> QED  BY <2>1, <3>3, <1>2, <1>5, <1>8 DEF At
  <2>2. CASE x # c
    <3>1. x \in Busy /\ client'[x] = client[x]
        BY <2>2, <1>5, <1>7
    <3> QED  BY <3>1, <1>8 DEF Recording, At
  <2> QED  BY <2>1, <2>2
<1>14. Agree'
  <2> SUFFICES ASSUME NEW a \in Devices, NEW b \in Devices, AtRest(a, b)'
               PROVE  Mutual(a, b)
      BY <1>9 DEF Agree, Mutual
  <2>1. AtRest(a, b)
      BY <1>1, <1>7, <1>8 DEF AtRest
  <2> QED  BY <2>1 DEF Agree
<1> QED  BY <1>10, <1>11, <1>12, <1>13, <1>14

\* A deleted device has no records, and a partner's record of it names no peer.
LEMMA DeleteKeeps ==
    ASSUME IInv, NEW d \in Devices, Delete(d)
    PROVE  IInv'
<1> USE DEF IInv
<1>1. /\ paired' = paired \ {d} /\ records' = [records EXCEPT ![d] = {}]
      /\ generation' = generation /\ client' = client /\ torn' = torn
      /\ \A c \in Busy : d \notin PairOf(c)
    BY DEF Delete, WorksWith
<1>2. /\ records' \in [Devices -> SUBSET [address : Devices, id : Nat]]
      /\ records'[d] = {} /\ \A x \in Devices \ {d} : records'[x] = records[x]
    BY <1>1 DEF LinksType
<1>3. Busy' = Busy /\ \A c \in Busy : PairOf(c)' = PairOf(c)
    BY <1>1 DEF Busy, At, PairOf
<1>4. \A a, b \in Devices \ {d} : LinkedTo(a, b)' <=> LinkedTo(a, b)
    BY <1>1, <1>2 DEF LinkedTo, Record
<1>5. LinksType' /\ Present' /\ Alone' /\ Once'
    BY <1>1, <1>2, <1>3 DEF LinksType, Present, Alone, Once
<1>6. Recording'
  <2>1. \A c \in Busy : /\ client[c].sender \in Devices \ {d}
                        /\ client[c].receiver \in Devices \ {d}
      BY <1>1, BusyCalls
  <2>2. \A c \in Busy :
            LinkedTo(client[c].sender, client[c].receiver)' <=> LinkedTo(client[c].sender, client[c].receiver)
      BY <1>1, <1>4, <2>1 DEF LinkedTo, Record
  <2>3. \A c \in Busy :
            Mutual(client[c].sender, client[c].receiver)' <=> Mutual(client[c].sender, client[c].receiver)
      BY <1>1, <1>4, <2>1 DEF Mutual, LinkedTo, Record
  <2> QED  BY <1>1, <1>3, <2>2, <2>3 DEF Recording, At
<1>7. Agree'
  <2> SUFFICES ASSUME NEW a \in Devices, NEW b \in Devices, AtRest(a, b)'
               PROVE  Mutual(a, b)'
      BY DEF Agree
  <2>1. a # d /\ b # d /\ AtRest(a, b)
      BY <1>1, <1>3 DEF AtRest
  <2> QED  BY <2>1, <1>4 DEF Agree, Mutual
<1> QED  BY <1>5, <1>6, <1>7

\* Nobody has a record of the new peer of a device, and it has none itself.
LEMMA PairKeeps ==
    ASSUME IInv, NEW d \in Devices, Pair(d)
    PROVE  IInv'
<1> USE DEF IInv
<1>1. /\ paired' = paired \union {d} /\ d \notin paired
      /\ generation' = [generation EXCEPT ![d] = @ + 1]
      /\ records' = records /\ client' = client /\ torn' = torn
    BY DEF Pair, ghosts
<1>2. /\ generation' \in [Devices -> Nat] /\ generation'[d] = generation[d] + 1
      /\ \A x \in Devices \ {d} : generation'[x] = generation[x]
    BY <1>1 DEF LinksType
<1>3. \A x \in Devices : generation[x] \in Nat
    BY DEF LinksType
<1>4. \A x \in Devices : \A r \in records[x] : r.address \in Devices /\ r.id \in Nat
    BY DEF LinksType
<1>5. Busy' = Busy /\ \A c \in Busy : PairOf(c)' = PairOf(c)
    BY <1>1 DEF Busy, At, PairOf
<1>6. \A c \in Busy : client[c].sender \in Devices \ {d} /\ client[c].receiver \in Devices \ {d}
    BY <1>1, BusyCalls DEF Present
<1>7. \A a, b \in Devices \ {d} : LinkedTo(a, b)' <=> LinkedTo(a, b)
    BY <1>1, <1>2 DEF LinkedTo, Record
<1>8. \A x \in Devices : \A r \in records[x] : r.id <= generation'[r.address]
    BY <1>2, <1>3, <1>4 DEF Present
<1>9. \A b \in Devices : ~LinkedTo(d, b)' /\ ~LinkedTo(b, d)'
  <2> SUFFICES ASSUME NEW b \in Devices
               PROVE  ~LinkedTo(d, b)' /\ ~LinkedTo(b, d)'
      OBVIOUS
  <2>1. records[d] = {}
      BY <1>1 DEF Present
  <2>2. [address |-> d, id |-> generation[d] + 1] \notin records[b]
      BY <1>3 DEF Present
  <2> QED  BY <2>1, <2>2, <1>1, <1>2 DEF LinkedTo, Record
<1>10. LinksType' /\ Present' /\ Alone' /\ Once'
    BY <1>1, <1>2, <1>5, <1>8 DEF LinksType, Present, Alone, Once
<1>11. Recording'
  <2>1. \A c \in Busy :
            LinkedTo(client[c].sender, client[c].receiver)' <=> LinkedTo(client[c].sender, client[c].receiver)
      BY <1>1, <1>6, <1>7 DEF LinkedTo, Record
  <2>2. \A c \in Busy :
            Mutual(client[c].sender, client[c].receiver)' <=> Mutual(client[c].sender, client[c].receiver)
      BY <1>1, <1>6, <1>7 DEF Mutual, LinkedTo, Record
  <2> QED  BY <1>1, <1>5, <2>1, <2>2 DEF Recording, At
<1>12. Agree'
  <2> SUFFICES ASSUME NEW a \in Devices, NEW b \in Devices, AtRest(a, b)'
               PROVE  Mutual(a, b)'
      BY DEF Agree
  <2>1. CASE a = d \/ b = d
      BY <2>1, <1>9 DEF Mutual
  <2>2. CASE a # d /\ b # d
    <3>1. AtRest(a, b)
        BY <2>2, <1>1, <1>5 DEF AtRest
    <3> QED  BY <2>2, <3>1, <1>7 DEF Agree, Mutual
  <2> QED  BY <2>1, <2>2
<1> QED  BY <1>10, <1>11, <1>12

-----------------------------------------------------------------------------

LEMMA InitIInv == Init => IInv
<1> SUFFICES ASSUME Init PROVE IInv
    OBVIOUS
<1>1. Busy = {}
    BY DEF Init, Busy, At, Idle
<1>2. LinksType
    BY <1>1 DEF Init, LinksType
<1> QED  BY <1>1, <1>2 DEF Init, IInv, Present, Alone, Recording, Agree, Once, Mutual, LinkedTo

LEMMA NextIInv == LinksAssumption /\ IInv /\ [Next]_vars => IInv'
<1> SUFFICES ASSUME LinksAssumption, IInv, [Next]_vars PROVE IInv'
    OBVIOUS
<1>1. ASSUME NEW c \in Clients, NEW l \in Linkable, NEW op \in {"add", "remove"},
             Start(c, op, l[1], l[2])
      PROVE  IInv'
  <2>1. l[1] \in Devices /\ l[2] \in Devices /\ l[1] # l[2]
      BY DEF LinksAssumption
  <2> QED  BY <1>1, <2>1, StartKeeps
<1>2. ASSUME NEW c \in Clients, Step(c)
      PROVE  IInv'
  <2>1. CASE First(c)
      BY <2>1, FirstKeeps
  <2>2. CASE Second(c)
      BY <2>2, SecondKeeps
  <2>3. CASE Push(c) \/ Announce(c) \/ Poll(c) \/ Clear(c)
    <3>1. c \in Busy /\ client[c].at \notin {"First", "Second"}
          /\ UNCHANGED <<paired, generation, records>>
        BY <2>3 DEF Push, Announce, Poll, Clear, At, Busy, peers
    <3>2. client[c] \in Calling /\ client[c].receiver \in Devices
        BY <3>1, BusyCalls DEF IInv
    <3>3. ASSUME NEW l \in Locations \ {"First", "Second"}, NEW d \in Devices,
                 client' = [client EXCEPT ![c] = [@ EXCEPT !.at = l, !.device = d]], torn' = torn
          PROVE  IInv'
      <4> DEFINE f == [client[c] EXCEPT !.at = l, !.device = d]
      <4>1. /\ f \in Calling /\ f.op = client[c].op /\ f.sender = client[c].sender
            /\ f.receiver = client[c].receiver /\ f.clean = client[c].clean /\ f.at = l
          BY <3>2 DEF Calling
      <4>2. client' = [client EXCEPT ![c] = f]
          BY <3>3
      <4> HIDE DEF f
      <4> QED  BY <3>1, <3>3, <4>1, <4>2, GoesOn
    <3>4. ASSUME NEW l \in Locations \ {"First", "Second"}, Go(c, l), torn' = torn
          PROVE  IInv'
      <4> DEFINE f == [client[c] EXCEPT !.at = l]
      <4>1. /\ f \in Calling /\ f.op = client[c].op /\ f.sender = client[c].sender
            /\ f.receiver = client[c].receiver /\ f.clean = client[c].clean /\ f.at = l
          BY <3>2 DEF Calling
      <4>2. client' = [client EXCEPT ![c] = f]
          BY <3>4 DEF Go
      <4> HIDE DEF f
      <4> QED  BY <3>1, <3>4, <4>1, <4>2, GoesOn
    <3>5. CASE NextDevice(c)
      <4>1. CASE client[c].device = client[c].sender
        <5>1. "Push" \in Locations \ {"First", "Second"}
            BY DEF Locations
        <5> QED  BY <3>2, <3>3, <3>5, <4>1, <5>1 DEF NextDevice
      <4>2. CASE client[c].device # client[c].sender
          BY <3>1, <3>5, <4>2, ReturnKeeps DEF NextDevice
      <4> QED  BY <4>1, <4>2
    <3>6. CASE torn' = torn /\ \E l \in {"Announce", "Poll", "Clear"} : Go(c, l)
        BY <3>4, <3>6 DEF Locations
    <3> QED  BY <2>3, <3>5, <3>6 DEF Push, Announce, Poll, Clear, ghosts
  <2> QED  BY <1>2, <2>1, <2>2, <2>3 DEF Step
<1>3. ASSUME NEW d \in Devices,
             Visit(d) \/ Report(d) \/ Deliver(d) \/ DeliverUnacknowledged(d) \/ Expire(d) \/ GiveUp(d)
      PROVE  IInv'
    BY <1>3, Elsewhere DEF Visit, Report, Deliver, DeliverUnacknowledged, Expire, GiveUp, peers, ghosts
<1>4. CASE WorkerClear \/ WorkerEnqueue \/ Stop \/ UNCHANGED vars
    BY <1>4, Elsewhere DEF WorkerClear, WorkerEnqueue, Stop, vars, peers, ghosts
<1> QED  BY <1>1, <1>2, <1>3, <1>4, DeleteKeeps, PairKeeps, KillKeeps DEF Next

\* The link records of two peers agree (MAXCentral::addLink, removeLink and
\* MAXPeer::addPeer, removePeer), for any number of devices, calls and troubles.
THEOREM RecordsAgree == Spec => []LinksMutual
<1>1. IInv => LinksMutual
    BY DEF IInv, Agree, Once, Mutual, LinksMutual
<1> QED  BY <1>1, InitIInv, NextIInv, LinksAssumption, PTL DEF Spec

-----------------------------------------------------------------------------
(* CONFIG_PENDING.  A packet that is pending was announced, or the call that *)
(* queued it is about to announce it; as long as nobody else works with the  *)
(* device, its send queue does not go before the packets have gone.          *)

Packets == [op : {"add", "remove"}, partner : Devices]
PendingType ==
    /\ pending \in [Devices -> Seq(Packets)]
    /\ configPending \in [Devices -> BOOLEAN]
    /\ queue \in [Devices -> {"none", "running", "done", "told"}]
    /\ told \in [Devices -> SUBSET Devices]
    /\ worker.at # "Visit" => worker.peer \in Devices
    /\ \A c \in Busy : client[c].device \in PairOf(c)

\* Nothing is pending for a device without a peer, nor when the worker, or a
\* call that has seen the queue go, is about to clear the flag.
NothingLeft ==
    /\ \A d \in Devices \ paired : pending[d] = <<>>
    /\ worker.at = "Clear" => worker.peer \in crossed \/ pending[worker.peer] = <<>>
    /\ \A c \in Busy : At(c, "Clear") /\ client[c].device \in Always \ crossed
                       => pending[client[c].device] = <<>>
Announced ==
    /\ \A d \in (Always \intersect paired) \ crossed :
          pending[d] # <<>> => configPending[d] \/ \E c \in Busy : At(c, "Announce") /\ client[c].device = d
    /\ \A c \in Busy : At(c, "Poll") /\ client[c].device \in Always \ crossed
                       /\ pending[client[c].device] # <<>>
                       => configPending[client[c].device] /\ queue[client[c].device] \in {"running", "told"}
AInv == IInv /\ PendingType /\ NothingLeft /\ Announced

LEMMA SeqFacts ==
    ASSUME NEW S
    PROVE  /\ <<>> \in Seq(S)
           /\ \A q \in Seq(S), e \in S : Append(q, e) \in Seq(S)
           /\ \A q \in Seq(S) : q # <<>> => Head(q) \in S /\ Tail(q) \in Seq(S)
OBVIOUS

LEMMA LastOne ==
    ASSUME NEW S, NEW q \in Seq(S), q # <<>>
    PROVE  Tail(q) = <<>> <=> Len(q) = 1
<1>1. Tail(q) \in Seq(S) /\ Len(Tail(q)) = Len(q) - 1 /\ Len(q) \in Nat
    OBVIOUS
<1>2. \A e \in Seq(S) : Len(e) = 0 <=> e = <<>>
    OBVIOUS
<1>3. Tail(q) = <<>> <=> Len(Tail(q)) = 0
    BY <1>1, <1>2
<1> QED  BY <1>1, <1>3

\* How a call goes on, begins or ends, for the other ones.
Same(x) ==
    /\ client'[x].at = client[x].at /\ client'[x].device = client[x].device
    /\ client'[x].op = client[x].op /\ PairOf(x)' = PairOf(x)
    /\ client'[x].sender = client[x].sender /\ client'[x].receiver = client[x].receiver
Moved(c, l, d) ==
    /\ Busy' = Busy /\ client'[c].at = l /\ client'[c].device = d
    /\ client'[c].op = client[c].op /\ client'[c].clean = client[c].clean
    /\ client'[c].sender = client[c].sender /\ client'[c].receiver = client[c].receiver
    /\ PairOf(c)' = PairOf(c)
    /\ \A x \in Busy \ {c} : Same(x) /\ client'[x].clean = client[x].clean
Began(c, op, s, r) ==
    /\ c \notin Busy /\ Busy' = Busy \union {c}
    /\ client'[c].at = "First" /\ client'[c].device = s /\ client'[c].op = op
    /\ client'[c].sender = s /\ client'[c].receiver = r /\ PairOf(c)' = {s, r}
    /\ client'[c].clean = ({x \in Busy : PairOf(x) = {s, r}} = {})
    /\ \A x \in Busy : /\ Same(x)
                       /\ client'[x].clean => client[x].clean /\ PairOf(x) # {s, r}
Ended(c) ==
    /\ Busy' = Busy \ {c}
    /\ \A x \in Busy' : Same(x) /\ client'[x].clean = client[x].clean

LEMMA Moves ==
    ASSUME LinksType, NEW c \in Busy, NEW l \in Locations, NEW d \in Devices,
           client' = [client EXCEPT ![c] = [@ EXCEPT !.at = l, !.device = d]]
    PROVE  Moved(c, l, d)
<1> DEFINE f == [client[c] EXCEPT !.at = l, !.device = d]
<1>1. client[c] \in Calling /\ Busy \subseteq Clients
    BY BusyCalls DEF Busy
<1>2. /\ f \in Calling /\ f.op = client[c].op /\ f.sender = client[c].sender
      /\ f.receiver = client[c].receiver /\ f.clean = client[c].clean /\ f.at = l /\ f.device = d
    BY <1>1 DEF Calling
<1>3. client' = [client EXCEPT ![c] = f]
    OBVIOUS
<1> HIDE DEF f
<1>4. /\ Busy' = Busy /\ client'[c] = f /\ \A x \in Clients \ {c} : client'[x] = client[x]
      /\ \A x \in Busy : PairOf(x)' = PairOf(x)
    BY <1>2, <1>3, Goes
<1> QED  BY <1>1, <1>2, <1>4 DEF Moved, Same

LEMMA GoMoves ==
    ASSUME LinksType, NEW c \in Busy, NEW l \in Locations, Go(c, l)
    PROVE  Moved(c, l, client[c].device)
<1>1. client[c] \in Calling /\ c \in Clients /\ client \in [Clients -> Calling \union {Idle, Over}]
    BY BusyCalls DEF LinksType
<1>2. client[c].device \in Devices
    BY <1>1 DEF Calling
<1>3. [client[c] EXCEPT !.at = l] = [client[c] EXCEPT !.at = l, !.device = client[c].device]
    BY <1>1 DEF Calling
<1>4. client' = [client EXCEPT ![c] = [@ EXCEPT !.at = l, !.device = client[c].device]]
    BY <1>1, <1>3 DEF Go
<1> QED  BY <1>2, <1>4, Moves

LEMMA NextMoves ==
    ASSUME LinksType, NEW c \in Busy, NextDevice(c)
    PROVE  \/ client[c].device = client[c].sender /\ Moved(c, "Push", client[c].receiver) /\ torn' = torn
           \/ /\ client[c].device # client[c].sender /\ Ended(c)
              /\ torn' = IF client[c].clean THEN torn \ {PairOf(c)} ELSE torn \union {PairOf(c)}
<1>1. client[c].receiver \in Devices /\ "Push" \in Locations /\ c \in Clients
    BY BusyCalls DEF Locations
<1>2. CASE client[c].device = client[c].sender
    BY <1>1, <1>2, Moves DEF NextDevice
<1>3. CASE client[c].device # client[c].sender
  <2>1. client' = [client EXCEPT ![c] = Over] /\ client \in [Clients -> Calling \union {Idle, Over}]
      BY <1>3 DEF NextDevice, LinksType
  <2>2. /\ client'[c] = Over /\ \A x \in Clients \ {c} : client'[x] = client[x]
        /\ client' \in [Clients -> Calling \union {Idle, Over}] /\ {c} \in SUBSET Busy
      BY <1>1, <2>1
  <2>3. Busy' = Busy \ {c} /\ \A x \in Busy' : client'[x] = client[x] /\ PairOf(x)' = PairOf(x)
      BY <2>2, Ends
  <2> QED  BY <1>3, <2>3 DEF NextDevice, Ended, Same
<1> QED  BY <1>2, <1>3

LEMMA StartMoves ==
    ASSUME LinksType, NEW c \in Clients, NEW op \in {"add", "remove"}, NEW s, NEW r, Start(c, op, s, r)
    PROVE  Began(c, op, s, r)
<1> DEFINE others == {x \in Busy : PairOf(x) = {s, r}}
           f == [at |-> "First", op |-> op, sender |-> s, receiver |-> r, device |-> s,
                 clean |-> others = {}]
           g(x) == [client[x] EXCEPT !.clean = FALSE]
<1>1. /\ c \notin Busy
      /\ client' = [x \in Clients |-> IF x = c THEN f ELSE IF x \in others THEN g(x) ELSE client[x]]
    BY DEF Start, Busy, At
<1>2. /\ f.at = "First" /\ f.sender = s /\ f.receiver = r /\ f.clean = (others = {}) /\ f.device = s
      /\ f.op = op
    OBVIOUS
<1>3. \A x \in Busy : client[x] \in Calling /\ x \in Clients
    BY BusyCalls
<1>4. \A x \in Busy : /\ g(x).at = client[x].at /\ g(x).op = client[x].op /\ g(x).device = client[x].device
                      /\ g(x).sender = client[x].sender /\ g(x).receiver = client[x].receiver
                      /\ g(x).clean = FALSE
    BY <1>3 DEF Calling
<1> HIDE DEF f, g
<1>5. /\ client'[c] = f
      /\ \A x \in Busy : /\ client'[x].at = client[x].at /\ client'[x].op = client[x].op
                         /\ client'[x].device = client[x].device
                         /\ client'[x].sender = client[x].sender
                         /\ client'[x].receiver = client[x].receiver
                         /\ client'[x].clean => client[x].clean /\ x \notin others
    BY <1>1, <1>3, <1>4
<1>6. Busy' = Busy \union {c}
  <2>1. \A x \in Clients : x \in Busy' <=> x \in Busy \/ x = c
      BY <1>1, <1>2, <1>5 DEF Busy, At
  <2>2. Busy \subseteq Clients /\ Busy' \subseteq Clients
      BY DEF Busy
  <2> QED  BY <2>1, <2>2
<1>7. PairOf(c)' = {s, r} /\ \A x \in Busy : PairOf(x)' = PairOf(x)
    BY <1>2, <1>5 DEF PairOf
<1> QED  BY <1>1, <1>2, <1>5, <1>6, <1>7 DEF Began, Same

LEMMA NextPendingType ==
    ASSUME LinksAssumption, IInv, PendingType, [Next]_vars
    PROVE  PendingType'
<1> DEFINE Queues == {"none", "running", "done", "told"}
           Devs == /\ pending' \in [Devices -> Seq(Packets)] /\ configPending' \in [Devices -> BOOLEAN]
                   /\ queue' \in [Devices -> Queues] /\ told' \in [Devices -> SUBSET Devices]
                   /\ worker'.at # "Visit" => worker'.peer \in Devices
           Own == \A c \in Busy' : client'[c].device \in PairOf(c)'
<1>0. /\ LinksType /\ PendingType /\ <<>> \in Seq(Packets)
      /\ \A c \in Busy : client[c].device \in Devices /\ c \in Clients
    BY BusyCalls, SeqFacts DEF IInv, PendingType, Calling
<1>l. LinksType
    BY DEF IInv
<1>1. SUFFICES Devs /\ Own
    BY DEF PendingType
<1>2. ASSUME UNCHANGED client PROVE Own
    BY <1>0, <1>2 DEF PendingType, Busy, At, PairOf
<1>3. ASSUME NEW c \in Busy, NEW l, NEW d, Moved(c, l, d), d \in PairOf(c) PROVE Own
    BY <1>0, <1>3 DEF PendingType, Moved, Same
<1>4. ASSUME NEW c \in Clients, NEW l \in Linkable, NEW op \in {"add", "remove"}, Start(c, op, l[1], l[2])
      PROVE  Devs /\ Own
  <2>1. Began(c, op, l[1], l[2])
      BY <1>l, <1>4, StartMoves
  <2>2. Devs
      BY <1>0, <1>4 DEF Start, sending, PendingType
  <2>3. Own
    <3>1. l[1] \in PairOf(c)'
        BY <2>1 DEF Began
    <3> QED  BY <1>0, <2>1, <3>1 DEF Began, Same, PendingType
  <2> QED  BY <2>2, <2>3
<1>5. ASSUME NEW c \in Clients, Step(c)
      PROVE  Devs /\ Own
  <2>1. c \in Busy /\ client[c].device \in PairOf(c) /\ client[c].receiver \in PairOf(c)
    <3>1. c \in Busy
        BY <1>5 DEF Step, First, Second, Push, Announce, Poll, Clear, At, Busy
    <3> QED  BY <1>0, <3>1 DEF PendingType, PairOf
  <2>2. ASSUME NEW l \in Locations, Go(c, l) PROVE Own
    <3>1. Moved(c, l, client[c].device)
        BY <1>l, <2>1, <2>2, GoMoves
    <3> QED  BY <1>3, <2>1, <3>1
  <2>3. ASSUME NextDevice(c) PROVE Own
    <3>1. CASE Ended(c)
        BY <1>0, <3>1 DEF PendingType, Ended, Same
    <3>2. CASE Moved(c, "Push", client[c].receiver)
        BY <1>3, <2>1, <3>2
    <3> QED  BY <1>l, <2>1, <2>3, <3>1, <3>2, NextMoves
  <2>4. CASE First(c) \/ Second(c)
      BY <1>0, <2>2, <2>4 DEF First, Second, sending, PendingType, Locations
  <2>5. CASE Push(c)
    <3>1. Packet(c, client[c].device) \in Packets /\ client[c].device \in Devices
      <4>1. client[c].op \in {"add", "remove"} /\ Partner(c, client[c].device) \in Devices
          BY <1>l, <2>1, BusyCalls, Partners DEF Calling
      <4> QED  BY <1>0, <2>1, <4>1 DEF Packet, Packets
    <3>2. pending' \in [Devices -> Seq(Packets)]
        BY <1>0, <2>5, <3>1, SeqFacts DEF Push, Behind, PendingType
    <3> QED  BY <1>0, <2>2, <2>5, <3>2 DEF Push, sending, PendingType, Locations
  <2>6. CASE Announce(c)
      BY <1>0, <2>1, <2>2, <2>6 DEF Announce, SetConfigPending, CreateQueue, PendingType, Locations
  <2>7. CASE Poll(c)
      BY <1>0, <2>2, <2>3, <2>7 DEF Poll, sending, PendingType, Locations
  <2>8. CASE Clear(c)
      BY <1>0, <2>3, <2>8 DEF Clear, PendingType
  <2> QED  BY <1>5, <2>4, <2>5, <2>6, <2>7, <2>8 DEF Step
<1>6. CASE WorkerClear \/ WorkerEnqueue
  <2>1. CASE WorkerClear
      BY <1>0, <1>2, <2>1 DEF WorkerClear, Walking, PendingType
  <2>2. CASE WorkerEnqueue
      BY <1>0, <1>2, <2>2 DEF WorkerEnqueue, Enqueue, Walking, PendingType
  <2> QED  BY <1>6, <2>1, <2>2
<1>7. ASSUME NEW d \in Devices, Visit(d) \/ Report(d)
      PROVE  Devs /\ Own
  <2>1. CASE Visit(d)
      BY <1>0, <1>2, <2>1 DEF Visit, sending, PendingType
  <2>2. CASE Report(d)
      BY <1>0, <1>2, <2>2 DEF Report, Enqueue, PendingType
  <2> QED  BY <1>7, <2>1, <2>2
<1>8. ASSUME NEW d \in Devices, Deliver(d) \/ DeliverUnacknowledged(d)
      PROVE  Devs /\ Own
  <2>1. pending[d] # <<>> /\ UNCHANGED <<configPending, worker, client>> /\ told' = Obeyed(d)
        /\ pending' \in {pending, [pending EXCEPT ![d] = Tail(@)]}
        /\ queue' \in {queue, [queue EXCEPT ![d] = "done"]}
      BY <1>8 DEF Deliver, DeliverUnacknowledged, Sendable, sending
  <2>2. Head(pending[d]) \in Packets /\ Tail(pending[d]) \in Seq(Packets)
      BY <1>0, <2>1, SeqFacts DEF PendingType
  <2>3. told' \in [Devices -> SUBSET Devices]
      BY <1>0, <2>1, <2>2 DEF Obeyed, Packets, PendingType
  <2>4. pending' \in [Devices -> Seq(Packets)]
    <3>1. CASE pending' = pending
        BY <1>0, <3>1 DEF PendingType
    <3>2. CASE pending' = [pending EXCEPT ![d] = Tail(pending[d])]
        BY <1>0, <2>2, <3>2 DEF PendingType
    <3> QED  BY <2>1, <3>1, <3>2
  <2> QED  BY <1>0, <1>2, <2>1, <2>3, <2>4 DEF PendingType
<1>9. ASSUME NEW d \in Devices, Expire(d) \/ GiveUp(d)
      PROVE  Devs /\ Own
    BY <1>0, <1>2, <1>9 DEF Expire, GiveUp, Unregister, PendingType
<1>10. ASSUME NEW d \in Devices, Delete(d) \/ Pair(d)
      PROVE  Devs /\ Own
  <2>1. CASE Delete(d)
    <3>1. worker'.at # "Visit" => worker'.peer \in Devices
        BY <1>0, <2>1 DEF Delete, Walking, PendingType
    <3> QED  BY <1>0, <1>2, <2>1, <3>1 DEF Delete, PendingType
  <2>2. CASE Pair(d)
      BY <1>0, <1>2, <2>2 DEF Pair, sending, PendingType
  <2> QED  BY <1>10, <2>1, <2>2
<1>11. CASE Stop
    BY <1>0, <1>2, <1>11 DEF Stop, Walking, PendingType
<1>12. CASE Kill
  <2>1. Busy' = {}
    <3>1. client' = [c \in Clients |-> IF c \in Busy THEN Over ELSE client[c]]
        BY <1>12 DEF Kill
    <3>2. \A c \in Clients : c \notin Busy'
        BY <3>1 DEF Busy, At, Over
    <3> QED  BY <3>2 DEF Busy
  <2> QED  BY <1>0, <1>12, <2>1 DEF Kill, Walking, PendingType
<1>13. CASE UNCHANGED vars
    BY <1>0, <1>2, <1>13 DEF vars, sending, PendingType
<1> QED  BY <1>4, <1>5, <1>6, <1>7, <1>8, <1>9, <1>10, <1>11, <1>12, <1>13 DEF Next

\* Who the steps of a call are about.
LEMMA StepFacts ==
    ASSUME AInv, NEW c \in Clients, Step(c)
    PROVE  /\ c \in Busy /\ client[c].device \in Devices /\ client[c].device \in PairOf(c)
           /\ client[c].device \in paired
           /\ \A x \in Busy : client[x].device \in PairOf(x)
           /\ First(c) => Moved(c, "Second", client[c].device)
           /\ Second(c) => Moved(c, "Push", client[c].device)
           /\ Push(c) => Moved(c, "Announce", client[c].device)
           /\ Announce(c) => Moved(c, "Poll", client[c].device)
           /\ Poll(c) => Moved(c, "Clear", client[c].device) \/ NextDevice(c)
           /\ Clear(c) => NextDevice(c)
           /\ NextDevice(c) => Moved(c, "Push", client[c].receiver) \/ Ended(c)
<1>l. LinksType /\ c \in Busy
    BY DEF AInv, IInv, Step, First, Second, Push, Announce, Poll, Clear, At, Busy
<1>1. client[c].device \in Devices
    BY <1>l, BusyCalls DEF Calling
<1>2. \A x \in Busy : client[x].device \in PairOf(x)
    BY DEF AInv, PendingType
<1>3. client[c].device \in paired
    BY <1>l, <1>2 DEF AInv, IInv, Present
<1>4. \A l \in Locations : Go(c, l) => Moved(c, l, client[c].device)
    BY <1>l, GoMoves
<1>5. NextDevice(c) => Moved(c, "Push", client[c].receiver) \/ Ended(c)
    BY <1>l, NextMoves
<1> QED  BY <1>l, <1>1, <1>2, <1>3, <1>4, <1>5 DEF First, Second, Push, Announce, Poll, Clear, Locations

LEMMA NextNothingLeft ==
    ASSUME LinksAssumption, AInv, [Next]_vars
    PROVE  NothingLeft'
<1>0. /\ NothingLeft /\ Announced /\ pending \in [Devices -> Seq(Packets)]
      /\ (worker.at # "Visit" => worker.peer \in Devices)
      /\ \A c \in Busy : client[c].device \in PairOf(c) /\ client[c].device \in Devices
  <2>1. LinksType
      BY DEF AInv, IInv
  <2> QED  BY <2>1, BusyCalls DEF AInv, PendingType, Calling
\* Nothing more is pending than before and no more calls are about to clear.
<1>1. ASSUME UNCHANGED paired,
             worker' = worker \/ worker'.at # "Clear",
             \A d \in Devices : pending[d] = <<>> => pending'[d] = <<>>,
             \A d \in Devices : d \in crossed /\ d \notin crossed' => pending'[d] = <<>>,
             \A c \in Busy' : client'[c].at = "Clear" =>
                 c \in Busy /\ client[c].at = "Clear" /\ client'[c].device = client[c].device
      PROVE  NothingLeft'
    BY <1>0, <1>1 DEF NothingLeft, At
<1>2. ASSUME UNCHANGED client
      PROVE  \A c \in Busy' : c \in Busy /\ client' = client
    BY <1>2 DEF Busy, At
<1>3. ASSUME NEW c, NEW l, NEW d, Moved(c, l, d), l # "Clear"
      PROVE  \A x \in Busy' : client'[x].at = "Clear" =>
                 x \in Busy /\ client[x].at = "Clear" /\ client'[x].device = client[x].device
    BY <1>3 DEF Moved, Same
<1>4. ASSUME NEW c \in Clients, NEW l \in Linkable, NEW op \in {"add", "remove"}, Start(c, op, l[1], l[2])
      PROVE  NothingLeft'
  <2>1. Began(c, op, l[1], l[2])
    <3>1. LinksType
        BY DEF AInv, IInv
    <3> QED  BY <3>1, <1>4, StartMoves
  <2>2. UNCHANGED <<paired, worker, pending, crossed>>
      BY <1>4 DEF Start, peers, ghosts
  <2> QED  BY <1>1, <2>1, <2>2 DEF Began, Same
<1>5. ASSUME NEW c \in Clients, Step(c)
      PROVE  NothingLeft'
  <2> DEFINE d == client[c].device
  <2>0. /\ c \in Busy /\ d \in Devices /\ d \in PairOf(c) /\ d \in paired
        /\ First(c) => Moved(c, "Second", d)
        /\ Second(c) => Moved(c, "Push", d)
        /\ Push(c) => Moved(c, "Announce", d)
        /\ Announce(c) => Moved(c, "Poll", d)
        /\ Poll(c) => Moved(c, "Clear", d) \/ NextDevice(c)
        /\ Clear(c) => NextDevice(c)
        /\ NextDevice(c) => Moved(c, "Push", client[c].receiver) \/ Ended(c)
      BY <1>5, StepFacts
  <2>1. CASE UNCHANGED <<paired, worker, pending, crossed>> /\ \E l, e : l # "Clear" /\ Moved(c, l, e)
      BY <1>1, <1>3, <2>1
  <2>2. CASE UNCHANGED <<paired, worker, pending, crossed>> /\ Ended(c)
      BY <1>1, <2>2 DEF Ended, Same
  <2>3. CASE First(c) \/ Second(c) \/ Announce(c)
      BY <2>0, <2>1, <2>3 DEF First, Second, Announce, ghosts, peers
  <2>4. CASE Push(c)
    <3>1. /\ UNCHANGED <<paired, worker>> /\ Moved(c, "Announce", d)
          /\ pending' = [pending EXCEPT ![d] = Append(@, Packet(c, d))]
          /\ crossed' = IF WorksWith(d) = {c} /\ worker.peer # d THEN crossed ELSE crossed \union {d}
        BY <2>0, <2>4 DEF Push, Behind, peers
    <3>2. \A e \in Devices \ {d} : pending'[e] = pending[e]
        BY <1>0, <2>0, <3>1
    <3>3. crossed \subseteq crossed'
        BY <3>1
    <3>4. worker.at = "Clear" => worker.peer \in crossed' \/ pending'[worker.peer] = <<>>
      <4>1. CASE worker.peer = d
          BY <3>1, <4>1
      <4>2. CASE worker.peer # d
          BY <1>0, <3>2, <3>3, <4>2 DEF NothingLeft
      <4> QED  BY <4>1, <4>2
    <3>5. ASSUME NEW x \in Busy', client'[x].at = "Clear", client'[x].device \in Always \ crossed'
          PROVE  pending'[client'[x].device] = <<>>
      <4>1. x \in Busy /\ x # c /\ client[x].at = "Clear" /\ client'[x].device = client[x].device
          BY <3>1, <3>5 DEF Moved, Same
      <4>2. client[x].device # d
        <5>1. ASSUME client[x].device = d PROVE d \in crossed'
          <6>1. x \in WorksWith(d)
              BY <1>0, <4>1, <5>1 DEF WorksWith
          <6> QED  BY <3>1, <4>1, <6>1
        <5> QED  BY <3>5, <4>1, <5>1
      <4>3. client[x].device \in Devices /\ pending[client[x].device] = <<>>
          BY <1>0, <3>3, <3>5, <4>1 DEF NothingLeft, At
      <4> QED  BY <3>2, <4>1, <4>2, <4>3
    <3>6. \A e \in Devices \ paired : pending'[e] = <<>>
        BY <1>0, <2>0, <3>2 DEF NothingLeft
    <3> QED  BY <3>1, <3>4, <3>5, <3>6 DEF NothingLeft, At
  <2>5. CASE Poll(c)
    <3>1. UNCHANGED <<paired, worker, pending, crossed>>
        BY <2>5 DEF Poll, peers
    <3>2. CASE Moved(c, "Clear", d) /\ ~NextDevice(c)
      <4>1. d \in Always \ crossed => pending[d] = <<>>
          BY <1>0, <2>0, <2>5, <3>2 DEF Announced, Poll, At
      <4> QED  BY <1>0, <3>1, <3>2, <4>1 DEF NothingLeft, Moved, Same, At
    <3>3. CASE NextDevice(c)
        BY <2>0, <2>1, <2>2, <3>1, <3>3
    <3> QED  BY <2>0, <2>5, <3>2, <3>3
  <2>6. CASE Clear(c)
      BY <2>0, <2>1, <2>2, <2>6 DEF Clear, peers
  <2> QED  BY <1>5, <2>3, <2>4, <2>5, <2>6 DEF Step
<1>6. ASSUME NEW d \in Devices, Visit(d)
      PROVE  NothingLeft'
    BY <1>0, <1>2, <1>6 DEF Visit, NothingLeft, peers, ghosts, At
<1>7. ASSUME UNCHANGED <<paired, client, pending, crossed>>, worker' = worker \/ worker'.at = "Visit"
      PROVE  NothingLeft'
    BY <1>1, <1>2, <1>7
<1>8. CASE WorkerClear \/ WorkerEnqueue \/ Stop \/ UNCHANGED vars
    BY <1>7, <1>8 DEF WorkerClear, WorkerEnqueue, Stop, vars, peers, ghosts, Walking
<1>9. ASSUME NEW d \in Devices, Report(d) \/ DeliverUnacknowledged(d) \/ Expire(d) \/ GiveUp(d)
      PROVE  NothingLeft'
    BY <1>7, <1>9 DEF Report, DeliverUnacknowledged, Expire, GiveUp, peers, ghosts
<1>10. ASSUME NEW d \in Devices, Deliver(d)
       PROVE  NothingLeft'
  <2>1. /\ UNCHANGED <<paired, client, worker>> /\ pending' = [pending EXCEPT ![d] = Tail(@)]
        /\ pending[d] # <<>> /\ crossed' = IF Len(pending[d]) = 1 THEN crossed \ {d} ELSE crossed
      BY <1>10 DEF Deliver, Sendable, peers
  <2>2. pending[d] \in Seq(Packets) /\ (Len(pending[d]) = 1 => Tail(pending[d]) = <<>>)
      BY <1>0, <2>1, LastOne
  <2>3. /\ \A e \in Devices : pending[e] = <<>> => pending'[e] = <<>>
        /\ \A e \in Devices : e \in crossed /\ e \notin crossed' => pending'[e] = <<>>
      BY <1>0, <2>1, <2>2
  <2> QED  BY <1>1, <1>2, <2>1, <2>3
<1>11. ASSUME NEW d \in Devices, Delete(d)
       PROVE  NothingLeft'
  <2>1. /\ UNCHANGED client /\ pending' = [pending EXCEPT ![d] = <<>>] /\ paired' = paired \ {d}
        /\ crossed' = crossed \ {d} /\ (worker' = worker \/ worker' = Walking)
      BY <1>11 DEF Delete
  <2>2. \A e \in Devices : pending[e] = <<>> \/ e = d => pending'[e] = <<>>
      BY <1>0, <2>1
  <2> QED  BY <1>0, <1>2, <2>1, <2>2 DEF NothingLeft, At, Walking
<1>12. ASSUME NEW d \in Devices, Pair(d)
       PROVE  NothingLeft'
    BY <1>0, <1>2, <1>12 DEF Pair, NothingLeft, ghosts, At
<1>13. CASE Kill
  <2>1. \A d \in Devices : pending'[d] = <<>>
      BY <1>13 DEF Kill
  <2>2. worker'.at = "Visit"
      BY <1>13 DEF Kill, Walking
  <2>3. Busy' = {}
    <3>1. client' = [c \in Clients |-> IF c \in Busy THEN Over ELSE client[c]]
        BY <1>13 DEF Kill
    <3>2. \A c \in Clients : c \notin Busy'
        BY <3>1 DEF Busy, At, Over
    <3> QED  BY <3>2 DEF Busy
  <2> QED  BY <2>1, <2>2, <2>3 DEF NothingLeft
<1> QED
    BY <1>4, <1>5, <1>6, <1>8, <1>9, <1>10, <1>11, <1>12, <1>13 DEF Next

LEMMA NextAnnounced ==
    ASSUME LinksAssumption, AInv, [Next]_vars
    PROVE  Announced'
<1>0. /\ NothingLeft /\ Announced /\ pending \in [Devices -> Seq(Packets)]
      /\ configPending \in [Devices -> BOOLEAN]
      /\ queue \in [Devices -> {"none", "running", "done", "told"}]
      /\ (worker.at # "Visit" => worker.peer \in Devices)
      /\ \A c \in Busy : client[c].device \in PairOf(c) /\ client[c].device \in Devices
  <2>1. LinksType
      BY DEF AInv, IInv
  <2> QED  BY <2>1, BusyCalls DEF AInv, PendingType, Calling
\* Every device whose packets are not new keeps its flag, and its queue while a
\* call polls it; no call about to announce has gone on.
<1>1. ASSUME paired' \subseteq paired,
             \A d \in Devices : pending'[d] # <<>> /\ d \notin crossed' =>
                 pending[d] # <<>> /\ d \notin crossed /\ (configPending[d] => configPending'[d]),
             \A c \in Busy' : client'[c].at = "Poll" =>
                 LET d == client'[c].device
                 IN  /\ c \in Busy /\ client[c].at = "Poll" /\ client[c].device = d
                     /\ pending'[d] # <<>> /\ queue[d] \in {"running", "told"}
                        => queue'[d] \in {"running", "told"},
             \A c \in Busy : client[c].at = "Announce" =>
                 c \in Busy' /\ client'[c].at = "Announce" /\ client'[c].device = client[c].device
      PROVE  Announced'
  <2>1. ASSUME NEW d \in (Always \intersect paired') \ crossed', pending'[d] # <<>>
        PROVE  configPending'[d] \/ \E c \in Busy' : client'[c].at = "Announce" /\ client'[c].device = d
    <3>1. d \in Devices
        BY <2>1 DEF LinksAssumption
    <3>2. configPending[d] \/ \E c \in Busy : client[c].at = "Announce" /\ client[c].device = d
        BY <1>0, <1>1, <2>1, <3>1 DEF Announced, At
    <3> QED  BY <1>1, <2>1, <3>1, <3>2
  <2>2. ASSUME NEW c \in Busy', client'[c].at = "Poll", client'[c].device \in Always \ crossed',
               pending'[client'[c].device] # <<>>
        PROVE  /\ configPending'[client'[c].device]
               /\ queue'[client'[c].device] \in {"running", "told"}
    <3> DEFINE d == client'[c].device
    <3>1. /\ c \in Busy /\ client[c].at = "Poll" /\ client[c].device = d /\ d \in Devices
          /\ (queue[d] \in {"running", "told"} => queue'[d] \in {"running", "told"})
        BY <1>0, <1>1, <2>2
    <3>2. configPending[d] /\ queue[d] \in {"running", "told"}
        BY <1>0, <1>1, <2>2, <3>1 DEF Announced, At
    <3> QED  BY <1>1, <2>2, <3>1, <3>2
  <2> QED  BY <2>1, <2>2 DEF Announced, At
<1>2. ASSUME UNCHANGED client
      PROVE  Busy' = Busy
    BY <1>2 DEF Busy, At
\* The worker, the queues and the devices.
<1>3. ASSUME UNCHANGED client, paired' \subseteq paired,
             \A d \in Devices : pending'[d] # <<>> /\ d \notin crossed' =>
                 /\ pending[d] # <<>> /\ d \notin crossed /\ (configPending[d] => configPending'[d])
                 /\ (queue[d] \in {"running", "told"} /\ Polled(d) => queue'[d] \in {"running", "told"})
      PROVE  Announced'
  <2>1. \A c \in Busy : client[c].at = "Poll" => Polled(client[c].device)
      BY DEF Polled, At
  <2>2. ASSUME NEW c \in Busy', client'[c].at = "Poll"
        PROVE  LET d == client'[c].device
               IN  /\ c \in Busy /\ client[c].at = "Poll" /\ client[c].device = d
                   /\ pending'[d] # <<>> /\ queue[d] \in {"running", "told"} /\ d \notin crossed'
                      => queue'[d] \in {"running", "told"}
      BY <1>0, <1>2, <1>3, <2>1, <2>2
  <2>3. ASSUME NEW d \in (Always \intersect paired') \ crossed', pending'[d] # <<>>
        PROVE  configPending'[d] \/ \E c \in Busy' : client'[c].at = "Announce" /\ client'[c].device = d
    <3>1. d \in Devices /\ d \in paired
        BY <1>3, <2>3 DEF LinksAssumption
    <3>2. configPending[d] \/ \E c \in Busy : client[c].at = "Announce" /\ client[c].device = d
        BY <1>0, <1>3, <2>3, <3>1 DEF Announced, At
    <3> QED  BY <1>2, <1>3, <2>3, <3>1, <3>2
  <2>4. ASSUME NEW c \in Busy', client'[c].at = "Poll", client'[c].device \in Always \ crossed',
               pending'[client'[c].device] # <<>>
        PROVE  /\ configPending'[client'[c].device]
               /\ queue'[client'[c].device] \in {"running", "told"}
    <3> DEFINE d == client'[c].device
    <3>1. /\ c \in Busy /\ client[c].at = "Poll" /\ client[c].device = d /\ d \in Devices
          /\ (queue[d] \in {"running", "told"} => queue'[d] \in {"running", "told"})
        BY <1>0, <2>2, <2>4
    <3>2. configPending[d] /\ queue[d] \in {"running", "told"}
        BY <1>0, <1>3, <2>4, <3>1 DEF Announced, At
    <3> QED  BY <1>3, <2>4, <3>1, <3>2
  <2> QED  BY <2>3, <2>4 DEF Announced, At
<1>4. ASSUME NEW c \in Clients, NEW l \in Linkable, NEW op \in {"add", "remove"}, Start(c, op, l[1], l[2])
      PROVE  Announced'
  <2>1. Began(c, op, l[1], l[2])
    <3>1. LinksType
        BY DEF AInv, IInv
    <3> QED  BY <3>1, <1>4, StartMoves
  <2>2. UNCHANGED <<paired, pending, crossed, configPending, queue>>
      BY <1>4 DEF Start, peers, ghosts, sending
  <2> QED  BY <1>1, <2>1, <2>2 DEF Began, Same
<1>5. ASSUME NEW c \in Clients, Step(c)
      PROVE  Announced'
  <2> DEFINE d == client[c].device
  <2>0. /\ c \in Busy /\ d \in Devices /\ d \in PairOf(c)
        /\ First(c) => Moved(c, "Second", d)
        /\ Second(c) => Moved(c, "Push", d)
        /\ Push(c) => Moved(c, "Announce", d)
        /\ Announce(c) => Moved(c, "Poll", d)
        /\ Poll(c) => Moved(c, "Clear", d) \/ NextDevice(c)
        /\ Clear(c) => NextDevice(c)
        /\ NextDevice(c) => Moved(c, "Push", client[c].receiver) \/ Ended(c)
      BY <1>5, StepFacts
  <2>1. ASSUME client[c].at # "Announce",
               (\E l, e : l # "Poll" /\ Moved(c, l, e)) \/ Ended(c)
        PROVE  /\ \A x \in Busy' : client'[x].at = "Poll" =>
                      x \in Busy /\ x # c /\ client[x].at = "Poll" /\ client[x].device = client'[x].device
               /\ \A x \in Busy : client[x].at = "Announce" =>
                      x \in Busy' /\ client'[x].at = "Announce" /\ client'[x].device = client[x].device
      BY <2>1 DEF Moved, Ended, Same
  <2>2. CASE First(c) \/ Second(c) \/ Poll(c)
    <3>1. UNCHANGED <<paired, pending, crossed, configPending, queue>> /\ client[c].at # "Announce"
        BY <2>2 DEF First, Second, Poll, ghosts, peers, sending, At
    <3>2. (\E l, e : l # "Poll" /\ Moved(c, l, e)) \/ Ended(c)
        BY <2>0, <2>2
    <3> QED  BY <1>1, <2>1, <3>1, <3>2
  <2>3. CASE Push(c)
    <3>1. /\ UNCHANGED <<paired, worker, configPending, queue>> /\ Moved(c, "Announce", d)
          /\ pending' = [pending EXCEPT ![d] = Append(@, Packet(c, d))]
          /\ crossed' = IF WorksWith(d) = {c} /\ worker.peer # d THEN crossed ELSE crossed \union {d}
          /\ client[c].at = "Push"
        BY <2>0, <2>3 DEF Push, Behind, peers, sending, At
    <3>2. \A e \in Devices \ {d} : pending'[e] = pending[e]
        BY <1>0, <2>0, <3>1
    <3>3. ASSUME NEW e \in (Always \intersect paired') \ crossed', pending'[e] # <<>>
          PROVE  configPending'[e] \/ \E x \in Busy' : client'[x].at = "Announce" /\ client'[x].device = e
      <4>1. CASE e = d
          BY <2>0, <3>1, <4>1 DEF Moved
      <4>2. CASE e # d
        <5>1. e \in Devices /\ e \in paired /\ e \notin crossed /\ pending[e] # <<>>
            BY <3>1, <3>2, <3>3, <4>2 DEF LinksAssumption
        <5>2. configPending[e] \/ \E x \in Busy : client[x].at = "Announce" /\ client[x].device = e
            BY <1>0, <3>3, <5>1 DEF Announced, At
        <5> QED  BY <3>1, <5>2 DEF Moved, Same
      <4> QED  BY <4>1, <4>2
    <3>4. ASSUME NEW x \in Busy', client'[x].at = "Poll", client'[x].device \in Always \ crossed',
                 pending'[client'[x].device] # <<>>
          PROVE  /\ configPending'[client'[x].device]
                 /\ queue'[client'[x].device] \in {"running", "told"}
      <4>1. x \in Busy /\ x # c /\ client[x].at = "Poll" /\ client'[x].device = client[x].device
          BY <3>1, <3>4 DEF Moved, Same
      <4>2. client[x].device # d
        <5>1. ASSUME client[x].device = d PROVE d \in crossed'
          <6>1. x \in WorksWith(d)
              BY <1>0, <4>1, <5>1 DEF WorksWith
          <6> QED  BY <3>1, <4>1, <6>1
        <5> QED  BY <3>4, <4>1, <5>1
      <4>3. /\ client[x].device \in Devices /\ client[x].device \notin crossed
            /\ pending[client[x].device] # <<>>
          BY <1>0, <3>1, <3>2, <3>4, <4>1, <4>2
      <4> QED  BY <1>0, <3>1, <3>4, <4>1, <4>3 DEF Announced, At
    <3> QED  BY <3>3, <3>4 DEF Announced, At
  <2>4. CASE Announce(c)
    <3>1. /\ UNCHANGED <<paired, pending, crossed>> /\ Moved(c, "Poll", d)
          /\ configPending' = [configPending EXCEPT ![d] = TRUE] /\ CreateQueue(d)
        BY <2>0, <2>4 DEF Announce, SetConfigPending, peers, ghosts
    <3>2. /\ configPending'[d] /\ \A e \in Devices \ {d} : configPending'[e] = configPending[e]
          /\ \A e \in Devices \ {d} : queue'[e] = queue[e]
          /\ (d \in Always => queue'[d] \in {"running", "told"})
        BY <1>0, <2>0, <3>1 DEF CreateQueue
    <3>3. ASSUME NEW e \in (Always \intersect paired') \ crossed', pending'[e] # <<>>
          PROVE  configPending'[e] \/ \E x \in Busy' : client'[x].at = "Announce" /\ client'[x].device = e
      <4>1. CASE e = d
          BY <3>2, <4>1
      <4>2. CASE e # d
        <5>1. e \in Devices /\ e \in paired /\ e \notin crossed /\ pending[e] # <<>>
            BY <3>1, <3>3 DEF LinksAssumption
        <5>2. configPending[e] \/ \E x \in Busy : client[x].at = "Announce" /\ client[x].device = e
            BY <1>0, <3>3, <5>1 DEF Announced, At
        <5> QED  BY <3>1, <3>2, <4>2, <5>1, <5>2 DEF Moved, Same
      <4> QED  BY <4>1, <4>2
    <3>4. ASSUME NEW x \in Busy', client'[x].at = "Poll", client'[x].device \in Always \ crossed',
                 pending'[client'[x].device] # <<>>
          PROVE  /\ configPending'[client'[x].device]
                 /\ queue'[client'[x].device] \in {"running", "told"}
      <4>1. CASE client'[x].device = d
          BY <3>2, <3>4, <4>1
      <4>2. CASE client'[x].device # d
        <5>1. x \in Busy /\ client[x].at = "Poll" /\ client'[x].device = client[x].device
            BY <3>1, <3>4, <4>2 DEF Moved, Same
        <5>2. configPending[client[x].device] /\ queue[client[x].device] \in {"running", "told"}
            BY <1>0, <3>1, <3>4, <5>1 DEF Announced, At
        <5> QED  BY <1>0, <3>2, <4>2, <5>1, <5>2
      <4> QED  BY <4>1, <4>2
    <3> QED  BY <3>3, <3>4 DEF Announced, At
  <2>5. CASE Clear(c)
    <3>1. /\ UNCHANGED <<paired, pending, crossed, queue>> /\ client[c].at = "Clear"
          /\ configPending' = [configPending EXCEPT ![d] = FALSE]
        BY <2>5 DEF Clear, peers, At
    <3>2. d \in Always \ crossed => pending[d] = <<>>
        BY <1>0, <2>0, <3>1 DEF NothingLeft, At
    <3>3. \A e \in Devices \ {d} : configPending'[e] = configPending[e]
        BY <1>0, <3>1
    <3>4. /\ \A x \in Busy' : client'[x].at = "Poll" =>
                      x \in Busy /\ x # c /\ client[x].at = "Poll" /\ client[x].device = client'[x].device
          /\ \A x \in Busy : client[x].at = "Announce" =>
                      x \in Busy' /\ client'[x].at = "Announce" /\ client'[x].device = client[x].device
      <4>1. (\E l, e : l # "Poll" /\ Moved(c, l, e)) \/ Ended(c)
          BY <2>0, <2>5
      <4> QED  BY <2>1, <3>1, <4>1
    <3>5. ASSUME NEW e \in (Always \intersect paired') \ crossed', pending'[e] # <<>>
          PROVE  configPending'[e] \/ \E x \in Busy' : client'[x].at = "Announce" /\ client'[x].device = e
      <4>1. e \in Devices /\ e \in paired /\ e \notin crossed /\ pending[e] # <<>> /\ e # d
          BY <3>1, <3>2, <3>5 DEF LinksAssumption
      <4>2. configPending[e] \/ \E x \in Busy : client[x].at = "Announce" /\ client[x].device = e
          BY <1>0, <3>5, <4>1 DEF Announced, At
      <4> QED  BY <3>3, <3>4, <4>1, <4>2
    <3>6. ASSUME NEW x \in Busy', client'[x].at = "Poll", client'[x].device \in Always \ crossed',
                 pending'[client'[x].device] # <<>>
          PROVE  /\ configPending'[client'[x].device]
                 /\ queue'[client'[x].device] \in {"running", "told"}
      <4>1. x \in Busy /\ client[x].at = "Poll" /\ client'[x].device = client[x].device
          BY <3>4, <3>6
      <4>2. configPending[client[x].device] /\ queue[client[x].device] \in {"running", "told"}
          BY <1>0, <3>1, <3>6, <4>1 DEF Announced, At
      <4>3. client[x].device \in Devices \ {d}
          BY <1>0, <3>1, <3>2, <3>6, <4>1
      <4> QED  BY <3>1, <3>3, <4>1, <4>2, <4>3
    <3> QED  BY <3>5, <3>6 DEF Announced, At
  <2> QED  BY <1>5, <2>2, <2>3, <2>4, <2>5 DEF Step
<1>6. ASSUME NEW d \in Devices, Visit(d)
      PROVE  Announced'
    BY <1>3, <1>6 DEF Visit, peers, ghosts, sending
<1>7. CASE WorkerClear
  <2>1. /\ UNCHANGED <<client, paired, pending, crossed, queue>> /\ worker.peer \in Devices
        /\ configPending' = [configPending EXCEPT ![worker.peer] = FALSE]
        /\ worker.peer \in crossed \/ pending[worker.peer] = <<>>
      BY <1>0, <1>7 DEF WorkerClear, peers, ghosts, NothingLeft
  <2> QED  BY <1>0, <1>3, <2>1
<1>8. ASSUME NEW d \in Devices, Enqueue(d), UNCHANGED <<client, paired, pending, crossed, configPending>>
      PROVE  Announced'
  <2>1. \A e \in Devices : queue[e] \in {"running", "told"} => queue'[e] \in {"running", "told"}
      BY <1>0, <1>8 DEF Enqueue
  <2> QED  BY <1>3, <1>8, <2>1
<1>9. CASE WorkerEnqueue
    BY <1>0, <1>8, <1>9 DEF WorkerEnqueue, peers, ghosts
<1>10. ASSUME NEW d \in Devices, Report(d)
       PROVE  Announced'
    BY <1>8, <1>10 DEF Report, peers, ghosts
<1>11. ASSUME NEW d \in Devices, Deliver(d)
       PROVE  Announced'
  <2>1. /\ UNCHANGED <<paired, client, configPending>> /\ pending' = [pending EXCEPT ![d] = Tail(@)]
        /\ pending[d] # <<>>
        /\ IF Len(pending[d]) = 1 THEN crossed' = crossed \ {d}
                                  ELSE crossed' = crossed /\ UNCHANGED queue
        /\ queue' \in {queue, [queue EXCEPT ![d] = "done"]}
      BY <1>11 DEF Deliver, Sendable, peers
  <2>2. pending[d] \in Seq(Packets) /\ (Len(pending[d]) = 1 => Tail(pending[d]) = <<>>)
      BY <1>0, <2>1, LastOne
  <2>3. Len(pending[d]) = 1 => pending'[d] = <<>>
      BY <1>0, <2>1, <2>2
  <2>4. \A e \in Devices \ {d} : pending'[e] = pending[e] /\ queue'[e] = queue[e]
      BY <1>0, <2>1
  <2> QED  BY <1>3, <2>1, <2>3, <2>4
<1>12. ASSUME NEW d \in Devices, DeliverUnacknowledged(d)
       PROVE  Announced'
    BY <1>3, <1>12 DEF DeliverUnacknowledged, peers, ghosts, sending
<1>13. ASSUME NEW d \in Devices, Expire(d) \/ GiveUp(d)
       PROVE  Announced'
  <2>1. /\ UNCHANGED <<client, paired, pending, crossed, configPending>> /\ Unregister(d)
        /\ queue[d] \in {"running", "told"} /\ pending[d] # <<>> => ~Polled(d)
      BY <1>13 DEF Expire, GiveUp, peers, ghosts
  <2>2. \A e \in Devices \ {d} : queue'[e] = queue[e]
      BY <1>0, <2>1 DEF Unregister
  <2> QED  BY <1>3, <2>1, <2>2
<1>14. ASSUME NEW d \in Devices, Delete(d)
       PROVE  Announced'
  <2>1. /\ UNCHANGED client /\ pending' = [pending EXCEPT ![d] = <<>>] /\ paired' = paired \ {d}
        /\ crossed' = crossed \ {d} /\ queue' = [queue EXCEPT ![d] = "none"]
        /\ configPending' = [configPending EXCEPT ![d] = FALSE]
      BY <1>14 DEF Delete
  <2>2. /\ pending'[d] = <<>>
        /\ \A e \in Devices \ {d} : /\ pending'[e] = pending[e] /\ queue'[e] = queue[e]
                                    /\ configPending'[e] = configPending[e]
      BY <1>0, <2>1
  <2> QED  BY <1>3, <2>1, <2>2
<1>15. ASSUME NEW d \in Devices, Pair(d)
       PROVE  Announced'
  <2>1. /\ UNCHANGED <<client, pending, crossed, configPending, queue>> /\ paired' = paired \union {d}
        /\ pending[d] = <<>>
      BY <1>0, <1>15 DEF Pair, ghosts, sending, NothingLeft
  <2> QED  BY <1>0, <1>2, <2>1 DEF Announced, At
<1>16. CASE Stop
  <2>1. Busy = {} /\ UNCHANGED <<client, paired, pending, crossed, configPending>>
      BY <1>16 DEF Stop, peers, ghosts
  <2> QED  BY <1>0, <1>2, <2>1 DEF Announced, At
<1>17. CASE Kill
  <2>1. \A d \in Devices : pending'[d] = <<>>
      BY <1>17 DEF Kill
  <2>2. Busy' = {}
    <3>1. client' = [c \in Clients |-> IF c \in Busy THEN Over ELSE client[c]]
        BY <1>17 DEF Kill
    <3>2. \A c \in Clients : c \notin Busy'
        BY <3>1 DEF Busy, At, Over
    <3> QED  BY <3>2 DEF Busy
  <2>3. \A d \in Always : pending'[d] = <<>>
      BY <2>1 DEF LinksAssumption
  <2> QED  BY <2>2, <2>3 DEF Announced
<1>18. CASE UNCHANGED vars
    BY <1>0, <1>2, <1>18 DEF vars, Announced, At
<1> QED
    BY <1>4, <1>5, <1>6, <1>7, <1>9, <1>10, <1>11, <1>12, <1>13, <1>14, <1>15, <1>16, <1>17, <1>18 DEF Next

LEMMA InitAInv == LinksAssumption /\ Init => AInv
<1> SUFFICES ASSUME LinksAssumption, Init PROVE AInv
    OBVIOUS
<1>1. Busy = {}
    BY DEF Init, Busy, At, Idle
<1>2. PendingType
  <2>1. <<>> \in Seq(Packets)
      BY SeqFacts
  <2> QED  BY <1>1, <2>1 DEF Init, PendingType, Walking
<1>3. NothingLeft /\ Announced
    BY <1>1 DEF Init, NothingLeft, Announced, Walking, LinksAssumption
<1> QED  BY <1>2, <1>3, InitIInv DEF AInv

LEMMA NextAInv == LinksAssumption /\ AInv /\ [Next]_vars => AInv'
BY NextIInv, NextPendingType, NextNothingLeft, NextAnnounced DEF AInv

\* CONFIG_PENDING stays set for a device that is sent to at once while packets
\* are pending for it, unless two calls, or a call and the worker, met: the flag
\* is cleared only when the send queue has gone and it goes only when it has
\* nothing to send or nobody asks for it.
THEOREM PendingIsAnnounced == Spec => []PendingNotForgotten
<1>1. AInv => PendingNotForgotten
  <2> SUFFICES ASSUME AInv, NEW d \in (Always \intersect paired) \ crossed,
                      pending[d] # <<>>, WorksWith(d) = {}
               PROVE  configPending[d]
      BY DEF PendingNotForgotten
  <2>1. \A c \in Busy : client[c].device # d
      BY DEF AInv, PendingType, WorksWith
  <2> QED  BY <2>1 DEF AInv, Announced
<1> QED  BY <1>1, InitAInv, NextAInv, LinksAssumption, PTL DEF Spec

-----------------------------------------------------------------------------
(* What a device will know of a partner when it has got all that is pending: *)
(* what the last packet about the partner says or, without one, what it      *)
(* knows already.  Sending a packet, once or twice, does not change it.      *)

Outcome(q, t, e) ==
    \/ \E i \in 1..Len(q) : /\ q[i].partner = e /\ q[i].op = "add"
                            /\ \A j \in 1..Len(q) : q[j].partner = e => j <= i
    \/ e \in t /\ \A i \in 1..Len(q) : q[i].partner # e
Final(d, e) == Outcome(pending[d], told[d], e)

\* A clean call has recorded and queued what it says for the devices it is done
\* with; apart from calls, a device will know what is recorded.
Queued(c, d) == \/ client[c].at \in {"Announce", "Poll", "Clear"} /\ client[c].device = d
                \/ d = client[c].sender /\ client[c].device = client[c].receiver
Tells(c, s, r) ==
    /\ client[c].at # "First" => (LinkedTo(s, r) <=> client[c].op = "add")
    /\ client[c].at \notin {"First", "Second"} => (LinkedTo(r, s) <=> client[c].op = "add")
    /\ Queued(c, s) => (Final(s, r) <=> client[c].op = "add")
    /\ Queued(c, r) => (Final(r, s) <=> client[c].op = "add")
Telling ==
    \A c \in Busy, s, r \in Devices :
        client[c].clean /\ client[c].sender = s /\ client[c].receiver = r => Tells(c, s, r)
Quiet(a, b) ==
    /\ a \in paired /\ a # b /\ {a, b} \notin torn
    /\ \A c \in Busy : PairOf(c) # {a, b}
Following == \A a, b \in Devices : Quiet(a, b) /\ ~Stale(a, b) => (Final(a, b) <=> LinkedTo(a, b))
FInv == AInv /\ Telling /\ Following

\* A packet that is queued has the last word.
LEMMA OutcomeOfAppend ==
    ASSUME NEW q \in Seq(Packets), NEW p \in Packets, NEW t, NEW e
    PROVE  Outcome(Append(q, p), t, e) <=> IF p.partner = e THEN p.op = "add" ELSE Outcome(q, t, e)
<1> DEFINE n == Len(q)
           z == Append(q, p)
<1>1. /\ n \in Nat /\ Len(z) = n + 1 /\ z[n + 1] = p
      /\ \A i \in 1..n : z[i] = q[i]
    OBVIOUS
<1>2. \A i \in 1..n + 1 : i \in 1..n \/ i = n + 1
    BY <1>1
<1>3. \A i \in 1..n : i \in 1..n + 1 /\ i <= n + 1 /\ ~(n + 1 <= i)
    BY <1>1
<1>4. n + 1 \in 1..n + 1
    BY <1>1
<1> HIDE DEF n, z
<1>5. CASE p.partner = e
  <2>1. ASSUME p.op = "add" PROVE Outcome(z, t, e)
    <3>1. \A j \in 1..n + 1 : j <= n + 1
        BY <1>1
    <3> QED  BY <1>1, <1>4, <1>5, <2>1, <3>1 DEF Outcome
  <2>2. ASSUME Outcome(z, t, e) PROVE p.op = "add"
      BY <1>1, <1>2, <1>3, <1>4, <1>5, <2>2 DEF Outcome
  <2> QED  BY <1>5, <2>1, <2>2 DEF z
<1>6. CASE p.partner # e
  <2>1. ASSUME Outcome(q, t, e) PROVE Outcome(z, t, e)
      BY <1>1, <1>2, <1>3, <1>6, <2>1 DEF Outcome, n
  <2>2. ASSUME Outcome(z, t, e) PROVE Outcome(q, t, e)
      BY <1>1, <1>2, <1>3, <1>6, <2>2 DEF Outcome, n
  <2> QED  BY <1>6, <2>1, <2>2 DEF z
<1> QED  BY <1>5, <1>6

\* The device obeys the first packet, which then goes, or is sent again.
LEMMA OutcomeOfTail ==
    ASSUME NEW q \in Seq(Packets), q # <<>>, NEW t, NEW u, NEW e,
           e \in u <=> IF Head(q).partner = e THEN Head(q).op = "add" ELSE e \in t
    PROVE  /\ Outcome(Tail(q), u, e) <=> Outcome(q, t, e)
           /\ Outcome(q, u, e) <=> Outcome(q, t, e)
<1> DEFINE n == Len(q)
           z == Tail(q)
<1>1. /\ n \in Nat \ {0} /\ Len(z) = n - 1 /\ q[1] = Head(q)
      /\ \A i \in 1..n - 1 : z[i] = q[i + 1]
    OBVIOUS
<1>2. /\ \A i \in 1..n : i = 1 \/ (i - 1 \in 1..n - 1 /\ i = (i - 1) + 1)
      /\ \A i \in 1..n - 1 : i + 1 \in 1..n
      /\ 1 \in 1..n /\ \A j \in 1..n : j <= 1 => j = 1
    BY <1>1
<1> HIDE DEF n, z
<1>3. \A i \in 1..n : i = 1 \/ (i - 1 \in 1..n - 1 /\ z[i - 1] = q[i])
    BY <1>1, <1>2
<1>4. \A i, j \in 1..n - 1 : j <= i <=> j + 1 <= i + 1
    BY <1>1
<1>5. \A j \in 1..n : \A i \in 1..n - 1 : j = 1 \/ (j <= i + 1 <=> j - 1 <= i)
    BY <1>1
<1>6. \A i \in 1..n - 1 : 1 <= i + 1
    BY <1>1
<1>7. Outcome(z, u, e) <=> Outcome(q, t, e)
  <2>1. CASE \E k \in 1..n - 1 : z[k].partner = e
    <3>1. ASSUME NEW i \in 1..n - 1, \A j \in 1..n - 1 : z[j].partner = e => j <= i
          PROVE  \A j \in 1..n : q[j].partner = e => j <= i + 1
        BY <1>3, <1>5, <1>6, <3>1
    <3>2. ASSUME NEW i \in 1..n - 1, \A j \in 1..n : q[j].partner = e => j <= i + 1
          PROVE  \A j \in 1..n - 1 : z[j].partner = e => j <= i
        BY <1>1, <1>2, <1>4, <3>2
    <3>3. ASSUME NEW i \in 1..n, \A j \in 1..n : q[j].partner = e => j <= i
          PROVE  i # 1
      <4>1. PICK k \in 1..n - 1 : z[k].partner = e
          BY <2>1
      <4>2. k + 1 \in 1..n /\ q[k + 1].partner = e /\ k + 1 # 1
          BY <1>1, <1>2, <4>1
      <4> QED  BY <1>2, <3>3, <4>2
    <3>4. ASSUME Outcome(z, u, e) PROVE Outcome(q, t, e)
      <4>1. PICK i \in 1..n - 1 : /\ z[i].partner = e /\ z[i].op = "add"
                                  /\ \A j \in 1..n - 1 : z[j].partner = e => j <= i
          BY <1>1, <2>1, <3>4 DEF Outcome
      <4>2. i + 1 \in 1..n /\ q[i + 1] = z[i] /\ \A j \in 1..n : q[j].partner = e => j <= i + 1
          BY <1>1, <1>2, <3>1, <4>1
      <4> QED  BY <4>1, <4>2 DEF Outcome, n
    <3>5. ASSUME Outcome(q, t, e) PROVE Outcome(z, u, e)
      <4>1. PICK i \in 1..n : /\ q[i].partner = e /\ q[i].op = "add"
                              /\ \A j \in 1..n : q[j].partner = e => j <= i
          BY <1>1, <1>2, <2>1, <3>5 DEF Outcome, n
      <4>2. i # 1
          BY <3>3, <4>1
      <4>3. PICK k \in 1..n - 1 : i = k + 1
          BY <1>2, <4>2
      <4>4. z[k] = q[i] /\ \A j \in 1..n - 1 : z[j].partner = e => j <= k
          BY <1>1, <3>2, <4>1, <4>3
      <4> QED  BY <1>1, <4>1, <4>4 DEF Outcome
    <3> QED  BY <3>4, <3>5
  <2>2. CASE \A k \in 1..n - 1 : z[k].partner # e
    <3>1. Outcome(z, u, e) <=> e \in u
        BY <1>1, <2>2 DEF Outcome
    <3>2. \A i \in 1..n : q[i].partner = e => i = 1
        BY <1>3, <2>2
    <3>3. Outcome(q, t, e) <=> IF q[1].partner = e THEN q[1].op = "add" ELSE e \in t
      <4>1. \A j \in 1..n : q[j].partner = e => j <= 1
          BY <1>2, <3>2
      <4> QED  BY <1>2, <3>2, <4>1 DEF Outcome, n
    <3> QED  BY <1>1, <3>1, <3>3
  <2> QED  BY <2>1, <2>2
<1>8. Outcome(q, u, e) <=> Outcome(q, t, e)
  <2>1. CASE Head(q).partner = e
      BY <1>1, <1>2, <2>1 DEF Outcome, n
  <2>2. CASE Head(q).partner # e
      BY <2>2 DEF Outcome
  <2> QED  BY <2>1, <2>2
<1> QED  BY <1>7, <1>8 DEF z

\* Another call goes on, or nothing happens to what a call has said.
LEMMA TellsSame ==
    ASSUME NEW x, NEW s, NEW r, Same(x), Tells(x, s, r),
           LinkedTo(s, r)' <=> LinkedTo(s, r), LinkedTo(r, s)' <=> LinkedTo(r, s),
           Final(s, r)' <=> Final(s, r), Final(r, s)' <=> Final(r, s)
    PROVE  Tells(x, s, r)'
BY DEF Same, Tells, Queued

\* Steps that change no record, no call and no outcome.
LEMMA FollowKeeps ==
    ASSUME Telling, Following, UNCHANGED <<paired, generation, records, client, torn>>,
           \A a, b \in Devices : Final(a, b)' <=> Final(a, b)
    PROVE  Telling' /\ Following'
<1>1. \A a, b : LinkedTo(a, b)' <=> LinkedTo(a, b)
    BY DEF LinkedTo, Record
<1>2. Busy' = Busy /\ \A x \in Busy : Same(x) /\ PairOf(x)' = PairOf(x)
    BY DEF Busy, At, Same, PairOf
<1>3. Telling'
    BY <1>1, <1>2, TellsSame DEF Telling
<1>4. \A a, b : (Stale(a, b)' <=> Stale(a, b)) /\ (Quiet(a, b)' <=> Quiet(a, b))
    BY <1>1, <1>2 DEF Stale, Listed, Quiet
<1> QED  BY <1>1, <1>3, <1>4 DEF Following

\* What the steps that send do to the outcomes: nothing.
LEMMA DeliverKeeps ==
    ASSUME PendingType, NEW d \in Devices, Deliver(d) \/ DeliverUnacknowledged(d)
    PROVE  \A a, b \in Devices : Final(a, b)' <=> Final(a, b)
<1> DEFINE q == pending[d]
           t == told[d]
           u == told'[d]
<1>1. /\ q \in Seq(Packets) /\ q # <<>> /\ told' = Obeyed(d)
      /\ pending \in [Devices -> Seq(Packets)] /\ told \in [Devices -> SUBSET Devices]
      /\ pending' \in {pending, [pending EXCEPT ![d] = Tail(@)]}
    BY DEF PendingType, Deliver, DeliverUnacknowledged, Sendable
<1>2. \A a \in Devices \ {d} : pending'[a] = pending[a] /\ told'[a] = told[a]
    BY <1>1 DEF Obeyed
<1>3. pending'[d] \in {q, Tail(q)}
    BY <1>1
<1>4. \A e : e \in u <=> IF Head(q).partner = e THEN Head(q).op = "add" ELSE e \in t
    BY <1>1 DEF Obeyed
<1> HIDE DEF q, t, u
<1>5. \A e : (Outcome(Tail(q), u, e) <=> Outcome(q, t, e)) /\ (Outcome(q, u, e) <=> Outcome(q, t, e))
    BY <1>1, <1>4, OutcomeOfTail
<1>6. \A e : Outcome(pending'[d], u, e) <=> Outcome(q, t, e)
    BY <1>3, <1>5
<1>7. \A b \in Devices : Final(d, b)' <=> Final(d, b)
    BY <1>6 DEF Final, q, t, u
<1> QED  BY <1>2, <1>7 DEF Final

\* A call records the one half of a link.
LEMMA RecordFollows ==
    ASSUME FInv, NEW c \in Busy, NEW d \in Devices, NEW e \in Devices, NEW l,
           \/ l = "Second" /\ client[c].at = "First" /\ d = client[c].sender /\ e = client[c].receiver
           \/ l = "Push" /\ client[c].at = "Second" /\ d = client[c].receiver /\ e = client[c].sender,
           records' = Recorded(c, d), Moved(c, l, client[c].device),
           UNCHANGED <<paired, generation, torn, pending, told>>
    PROVE  Telling' /\ Following'
<1> USE DEF FInv
<1>1. LinksType /\ Present /\ Once /\ Alone
    BY DEF AInv, IInv
<1>2. /\ d # e /\ PairOf(c) = {d, e} /\ d \in paired /\ e = Partner(c, d)
      /\ \A x \in Busy : PairOf(x) = {client[x].sender, client[x].receiver}
  <2>1. LinksType
      BY <1>1
  <2> QED  BY <1>1, <2>1, BusyCalls, Partners DEF Present
<1>3. /\ \A a, b \in Devices : a # d \/ b # e => (LinkedTo(a, b)' <=> LinkedTo(a, b))
      /\ LinkedTo(d, e)' <=> client[c].op = "add"
    BY <1>1, <1>2, RecordedLink
<1>4. \A a, b : Final(a, b)' <=> Final(a, b)
    BY DEF Final
<1>5. \A a, b \in Devices : a # d \/ b # e => (Listed(a, b)' <=> Listed(a, b))
  <2>1. /\ records \in [Devices -> SUBSET [address : Devices, id : Nat]] /\ Record(e).address = e
        /\ records' \in {[records EXCEPT ![d] = AddPeer(d, e)], [records EXCEPT ![d] = RemovePeer(d, e)]}
      BY <1>1, <1>2 DEF LinksType, Recorded, Record
  <2>2. \A a \in Devices \ {d} : records'[a] = records[a]
      BY <2>1
  <2>3. records'[d] \in {AddPeer(d, e), RemovePeer(d, e)}
      BY <2>1
  <2>4. \A b \in Devices \ {e} : (\E r \in records'[d] : r.address = b) <=> (\E r \in records[d] : r.address = b)
    <3>1. CASE records'[d] = AddPeer(d, e)
        BY <2>1, <3>1 DEF AddPeer
    <3>2. CASE records'[d] = RemovePeer(d, e)
        BY <2>1, <3>2 DEF RemovePeer
    <3> QED  BY <2>3, <3>1, <3>2
  <2> QED  BY <2>2, <2>4 DEF Listed
<1>6. Busy' = Busy /\ \A x \in Busy : PairOf(x)' = PairOf(x)
    BY DEF Moved, Same
<1>7. Telling'
  <2> SUFFICES ASSUME NEW x \in Busy, NEW s \in Devices, NEW r \in Devices,
                      client'[x].clean, client'[x].sender = s, client'[x].receiver = r
               PROVE  Tells(x, s, r)'
      BY <1>6 DEF Telling
  <2>1. client[x].clean /\ client[x].sender = s /\ client[x].receiver = r /\ Tells(x, s, r)
      BY DEF Moved, Same, Telling
  <2>2. CASE x = c
    <3>1. /\ client'[c].at = l /\ client'[c].device = client[c].device /\ client'[c].op = client[c].op
          /\ client'[c].sender = client[c].sender /\ client'[c].receiver = client[c].receiver
        BY DEF Moved
    <3>2. ~Queued(c, s)' \/ Queued(c, s)
        BY <3>1, <2>1, <2>2 DEF Queued
    <3>3. ~Queued(c, r)' \/ Queued(c, r)
        BY <3>1, <2>1, <2>2 DEF Queued
    <3>4. LinkedTo(s, r)' <=> client[c].op = "add"
      <4>1. CASE l = "Second"
          BY <1>3, <2>1, <2>2, <4>1
      <4>2. CASE l # "Second"
          BY <1>2, <1>3, <2>1, <2>2, <4>2 DEF Tells
      <4> QED  BY <4>1, <4>2
    <3>5. l # "Second" => (LinkedTo(r, s)' <=> client[c].op = "add")
        BY <1>3, <2>1, <2>2
    <3> QED  BY <1>4, <2>1, <2>2, <3>1, <3>2, <3>3, <3>4, <3>5 DEF Tells
  <2>3. CASE x # c
    <3>1. {s, r} # {d, e}
      <4>1. PairOf(c) # PairOf(x)
          BY <1>1, <2>1, <2>3 DEF Alone
      <4> QED  BY <1>2, <2>1, <4>1
    <3>2. Same(x)
        BY <2>3 DEF Moved
    <3> QED  BY <1>3, <1>4, <2>1, <3>1, <3>2, TellsSame
  <2> QED  BY <2>2, <2>3
<1>8. Following'
  <2> SUFFICES ASSUME NEW a \in Devices, NEW b \in Devices, Quiet(a, b)', ~Stale(a, b)'
               PROVE  Final(a, b)' <=> LinkedTo(a, b)'
      BY DEF Following
  <2>1. {a, b} # {d, e} /\ Quiet(a, b)
      BY <1>2, <1>6 DEF Quiet
  <2>2. ~Stale(a, b)
      BY <2>1, <1>3, <1>5 DEF Stale
  <2> QED  BY <1>3, <1>4, <2>1, <2>2 DEF Following
<1> QED  BY <1>7, <1>8

\* What a call queues for a device is the last word about its partner.
LEMMA PushFollows ==
    ASSUME FInv, NEW c \in Busy, Push(c), Moved(c, "Announce", client[c].device)
    PROVE  Telling' /\ Following'
<1> USE DEF FInv
<1>0. LinksType
    BY DEF AInv, IInv
<1>1. LinksType /\ Alone /\ PendingType
    BY DEF AInv, IInv
<1>2. /\ client[c] \in Calling /\ client[c].device \in {client[c].sender, client[c].receiver}
      /\ \A x \in Busy : PairOf(x) = {client[x].sender, client[x].receiver}
    BY <1>0, <1>1, BusyCalls DEF PendingType
<1>d. PICK d \in Devices, e \in Devices :
          d = client[c].device /\ e = Partner(c, d) /\ PairOf(c) = {d, e} /\ d # e
    BY <1>0, <1>2, BusyCalls, Partners
<1>3. PICK p \in Packets : p = Packet(c, d) /\ p.partner = e /\ p.op = client[c].op
  <2>1. client[c].op \in {"add", "remove"}
      BY <1>2 DEF Calling
  <2>2. Packet(c, d) = [op |-> client[c].op, partner |-> e]
      BY <1>d DEF Packet
  <2> QED  BY <2>1, <2>2 DEF Packets
<1>4. pending' = [pending EXCEPT ![d] = Append(@, p)] /\ UNCHANGED <<paired, generation, records, torn, told>>
    BY <1>3, <1>d DEF Push, Behind, peers
<1>5. pending \in [Devices -> Seq(Packets)]
    BY <1>1 DEF PendingType
<1>6. pending'[d] = Append(pending[d], p) /\ \A a \in Devices \ {d} : pending'[a] = pending[a]
    BY <1>d, <1>4, <1>5
<1>7. pending[d] \in Seq(Packets)
    BY <1>d, <1>5
<1>8. \A b : Outcome(Append(pending[d], p), told[d], b)
              <=> IF p.partner = b THEN p.op = "add" ELSE Outcome(pending[d], told[d], b)
    BY <1>3, <1>7, OutcomeOfAppend
<1>9. /\ \A a, b \in Devices : a # d \/ b # e => (Final(a, b)' <=> Final(a, b))
      /\ Final(d, e)' <=> client[c].op = "add"
    BY <1>d, <1>3, <1>4, <1>6, <1>8 DEF Final
<1>10. \A a, b : (LinkedTo(a, b)' <=> LinkedTo(a, b)) /\ (Stale(a, b)' <=> Stale(a, b))
    BY <1>4 DEF LinkedTo, Record, Stale, Listed
<1>11. Busy' = Busy /\ \A x \in Busy : PairOf(x)' = PairOf(x)
    BY DEF Moved, Same
<1>12. Telling'
  <2> SUFFICES ASSUME NEW x \in Busy, NEW s \in Devices, NEW r \in Devices,
                      client'[x].clean, client'[x].sender = s, client'[x].receiver = r
               PROVE  Tells(x, s, r)'
      BY <1>11 DEF Telling
  <2>1. client[x].clean /\ client[x].sender = s /\ client[x].receiver = r /\ Tells(x, s, r)
      BY DEF Moved, Same, Telling
  <2>2. CASE x = c
    <3>1. /\ client'[c].at = "Announce" /\ client'[c].device = d /\ client'[c].op = client[c].op
          /\ client'[c].sender = s /\ client'[c].receiver = r /\ client[c].at = "Push"
        BY <1>d, <2>1, <2>2 DEF Moved, Push, At
    <3>2. /\ LinkedTo(s, r)' <=> client[c].op = "add"
          /\ LinkedTo(r, s)' <=> client[c].op = "add"
        BY <1>10, <2>1, <2>2, <3>1 DEF Tells
    <3>3. {s, r} = {d, e} /\ s # r
        BY <1>2, <1>d, <2>1, <2>2
    <3>4. CASE d = s
      <4>1. e = r /\ ~Queued(c, r)'
          BY <3>1, <3>3, <3>4 DEF Queued
      <4> QED  BY <1>9, <2>2, <3>1, <3>2, <3>4, <4>1 DEF Tells
    <3>5. CASE d = r
      <4>1. e = s /\ Queued(c, s)
          BY <1>d, <2>1, <2>2, <3>3, <3>5 DEF Queued
      <4>2. Final(s, r)' <=> client[c].op = "add"
          BY <1>9, <2>1, <2>2, <3>3, <3>5, <4>1 DEF Tells
      <4> QED  BY <1>9, <2>2, <3>1, <3>2, <3>5, <4>1, <4>2 DEF Tells
    <3> QED  BY <3>3, <3>4, <3>5
  <2>3. CASE x # c
    <3>1. {s, r} # {d, e}
      <4>1. PairOf(c) # PairOf(x)
          BY <1>1, <2>1, <2>3 DEF Alone
      <4> QED  BY <1>2, <1>d, <2>1, <4>1
    <3>2. Same(x)
        BY <2>3 DEF Moved
    <3> QED  BY <1>9, <1>10, <2>1, <3>1, <3>2, TellsSame
  <2> QED  BY <2>2, <2>3
<1>13. Following'
  <2> SUFFICES ASSUME NEW a \in Devices, NEW b \in Devices, Quiet(a, b)', ~Stale(a, b)
               PROVE  Final(a, b)' <=> LinkedTo(a, b)
      BY <1>10 DEF Following
  <2>1. {a, b} # {d, e} /\ Quiet(a, b)
      BY <1>d, <1>4, <1>11 DEF Quiet
  <2> QED  BY <1>9, <2>1 DEF Following
<1> QED  BY <1>12, <1>13

\* A call announces, waits for the queue, or has come to the receiver.
LEMMA WaitFollows ==
    ASSUME FInv, NEW c \in Busy, NEW l \in {"Push", "Poll", "Clear"}, NEW d, Moved(c, l, d),
           \/ d = client[c].device /\ client[c].at \in {"Announce", "Poll"} /\ l # "Push"
           \/ /\ d = client[c].receiver /\ client[c].device = client[c].sender
              /\ client[c].at \in {"Poll", "Clear"} /\ l = "Push",
           UNCHANGED <<paired, generation, records, pending, told, torn>>
    PROVE  Telling' /\ Following'
<1> USE DEF FInv
<1>0. LinksType
    BY DEF AInv, IInv
<1>1. \A a, b : /\ (LinkedTo(a, b)' <=> LinkedTo(a, b)) /\ (Stale(a, b)' <=> Stale(a, b))
                /\ (Final(a, b)' <=> Final(a, b))
    BY DEF LinkedTo, Record, Stale, Listed, Final
<1>2. Busy' = Busy /\ \A x \in Busy : PairOf(x)' = PairOf(x)
    BY DEF Moved, Same
<1>3. Telling'
  <2> SUFFICES ASSUME NEW x \in Busy, NEW s \in Devices, NEW r \in Devices,
                      client'[x].clean, client'[x].sender = s, client'[x].receiver = r
               PROVE  Tells(x, s, r)'
      BY <1>2 DEF Telling
  <2>1. client[x].clean /\ client[x].sender = s /\ client[x].receiver = r /\ Tells(x, s, r)
      BY DEF Moved, Same, Telling
  <2>2. CASE x = c
    <3>1. s # r
        BY <1>0, <2>1, BusyCalls
    <3>2. /\ client'[c].at = l /\ client'[c].device = d /\ client'[c].op = client[c].op
          /\ client'[c].sender = s /\ client'[c].receiver = r
        BY <2>1, <2>2 DEF Moved
    <3>3. (Queued(c, s)' => Queued(c, s)) /\ (Queued(c, r)' => Queued(c, r))
        BY <2>1, <2>2, <3>1, <3>2 DEF Queued
    <3>4. client[c].at \notin {"First", "Second"}
        OBVIOUS
    <3> QED  BY <1>1, <2>1, <2>2, <3>2, <3>3, <3>4 DEF Tells
  <2>3. CASE x # c
    <3>1. Same(x)
        BY <2>3 DEF Moved
    <3> QED  BY <1>1, <2>1, <3>1, TellsSame
  <2> QED  BY <2>2, <2>3
<1>4. \A a, b : Quiet(a, b)' <=> Quiet(a, b)
    BY <1>2 DEF Quiet
<1> QED  BY <1>1, <1>3, <1>4 DEF Following

\* A clean call leaves both devices with what it has recorded.
LEMMA ReturnFollows ==
    ASSUME FInv, NEW c \in Busy, client[c].at \in {"Poll", "Clear"},
           client[c].device # client[c].sender, Ended(c),
           torn' = IF client[c].clean THEN torn \ {PairOf(c)} ELSE torn \union {PairOf(c)},
           UNCHANGED <<paired, generation, records, pending, told>>
    PROVE  Telling' /\ Following'
<1> USE DEF FInv
<1>0. LinksType
    BY DEF AInv, IInv
<1>1. \A a, b : /\ (LinkedTo(a, b)' <=> LinkedTo(a, b)) /\ (Stale(a, b)' <=> Stale(a, b))
                /\ (Final(a, b)' <=> Final(a, b))
    BY DEF LinkedTo, Record, Stale, Listed, Final
<1>2. PICK s \in Devices, r \in Devices :
          s = client[c].sender /\ r = client[c].receiver /\ s # r /\ PairOf(c) = {s, r}
    BY <1>0, BusyCalls
<1>3. client[c].device = r
    BY <1>2 DEF AInv, PendingType
<1>4. client[c].clean => (Final(s, r) <=> LinkedTo(s, r)) /\ (Final(r, s) <=> LinkedTo(r, s))
  <2> SUFFICES ASSUME client[c].clean
               PROVE  (Final(s, r) <=> LinkedTo(s, r)) /\ (Final(r, s) <=> LinkedTo(r, s))
      OBVIOUS
  <2>1. Tells(c, s, r)
      BY <1>2 DEF Telling
  <2>2. Queued(c, s) /\ Queued(c, r)
      BY <1>2, <1>3 DEF Queued
  <2>3. client[c].at \notin {"First", "Second"}
      OBVIOUS
  <2> QED  BY <2>1, <2>2, <2>3 DEF Tells
<1>5. Busy' = Busy \ {c} /\ \A x \in Busy' : Same(x) /\ PairOf(x)' = PairOf(x)
    BY DEF Ended, Same
<1>6. Telling'
  <2> SUFFICES ASSUME NEW x \in Busy', NEW y \in Devices, NEW z \in Devices,
                      client'[x].clean, client'[x].sender = y, client'[x].receiver = z
               PROVE  Tells(x, y, z)'
      BY DEF Telling
  <2>1. client[x].clean /\ client[x].sender = y /\ client[x].receiver = z /\ x \in Busy /\ Same(x)
      BY DEF Ended, Same
  <2>2. Tells(x, y, z)
      BY <2>1 DEF Telling
  <2> QED  BY <1>1, <2>1, <2>2, TellsSame
<1>7. Following'
  <2> SUFFICES ASSUME NEW a \in Devices, NEW b \in Devices, Quiet(a, b)', ~Stale(a, b)
               PROVE  Final(a, b) <=> LinkedTo(a, b)
      BY <1>1 DEF Following
  <2>1. CASE {a, b} = {s, r}
    <3>1. client[c].clean
        BY <1>2, <2>1 DEF Quiet
    <3>2. (a = s /\ b = r) \/ (a = r /\ b = s)
        BY <1>2, <2>1
    <3> QED  BY <1>4, <3>1, <3>2
  <2>2. CASE {a, b} # {s, r}
    <3>1. Quiet(a, b)
        BY <1>2, <1>5, <2>2 DEF Quiet
    <3> QED  BY <3>1 DEF Following
  <2> QED  BY <2>1, <2>2
<1> QED  BY <1>6, <1>7

\* A call that begins has said nothing yet.
LEMMA StartFollows ==
    ASSUME FInv, NEW c \in Clients, NEW op, NEW s \in Devices, NEW r \in Devices, s # r,
           Began(c, op, s, r), UNCHANGED <<paired, generation, records, pending, told, torn>>
    PROVE  Telling' /\ Following'
<1> USE DEF FInv
<1>1. \A a, b : /\ (LinkedTo(a, b)' <=> LinkedTo(a, b)) /\ (Stale(a, b)' <=> Stale(a, b))
                /\ (Final(a, b)' <=> Final(a, b))
    BY DEF LinkedTo, Record, Stale, Listed, Final
<1>2. Telling'
  <2> SUFFICES ASSUME NEW x \in Busy', NEW y \in Devices, NEW z \in Devices,
                      client'[x].clean, client'[x].sender = y, client'[x].receiver = z
               PROVE  Tells(x, y, z)'
      BY DEF Telling
  <2>1. CASE x = c
    <3>1. client'[c].at = "First" /\ client'[c].device = s /\ y = s /\ z = r /\ client'[c].receiver = r
        BY <2>1 DEF Began
    <3>2. ~Queued(c, y)' /\ ~Queued(c, z)'
        BY <3>1 DEF Queued
    <3> QED  BY <2>1, <3>1, <3>2 DEF Tells
  <2>2. CASE x # c
    <3>1. /\ client[x].clean /\ client[x].sender = y /\ client[x].receiver = z
          /\ x \in Busy /\ Same(x)
        BY <2>2 DEF Began, Same
    <3>2. Tells(x, y, z)
        BY <3>1 DEF Telling
    <3> QED  BY <1>1, <3>1, <3>2, TellsSame
  <2> QED  BY <2>1, <2>2
<1>3. \A a, b : Quiet(a, b)' => Quiet(a, b)
    BY DEF Quiet, Began, Same
<1> QED  BY <1>1, <1>2, <1>3 DEF Following

\* Calls that are not about a device do not notice that it goes or comes.
LEMMA OthersTell ==
    ASSUME FInv, NEW d \in Devices, UNCHANGED client, \A c \in Busy : d \notin PairOf(c),
           \A a, b \in Devices \ {d} : /\ (LinkedTo(a, b)' <=> LinkedTo(a, b))
                                      /\ (Final(a, b)' <=> Final(a, b))
    PROVE  Telling'
<1> USE DEF FInv
<1>0. LinksType
    BY DEF AInv, IInv
<1>1. Busy' = Busy
    BY DEF Busy, At
<1> SUFFICES ASSUME NEW x \in Busy, NEW s \in Devices, NEW r \in Devices,
                    client[x].clean, client[x].sender = s, client[x].receiver = r
             PROVE  Tells(x, s, r)'
    BY <1>1 DEF Telling
<1>2. Tells(x, s, r)
    BY DEF Telling
<1>3. s # d /\ r # d
    BY <1>0, BusyCalls
<1>4. Same(x)
    BY DEF Same, PairOf
<1> QED  BY <1>2, <1>3, <1>4, TellsSame

LEMMA DeleteFollows ==
    ASSUME FInv, NEW d \in Devices, Delete(d)
    PROVE  Telling' /\ Following'
<1> USE DEF FInv
<1>1. /\ paired' = paired \ {d} /\ records' = [records EXCEPT ![d] = {}]
      /\ pending' = [pending EXCEPT ![d] = <<>>]
      /\ UNCHANGED <<generation, client, torn, told>>
      /\ \A c \in Busy : d \notin PairOf(c)
    BY DEF Delete, WorksWith
<1>2. \A a \in Devices \ {d} : records'[a] = records[a] /\ pending'[a] = pending[a]
    BY <1>1 DEF AInv, IInv, LinksType, PendingType
<1>3. \A a \in Devices \ {d}, b \in Devices :
          /\ (LinkedTo(a, b)' <=> LinkedTo(a, b)) /\ (Stale(a, b)' <=> Stale(a, b))
          /\ (Final(a, b)' <=> Final(a, b))
    BY <1>1, <1>2 DEF LinkedTo, Record, Stale, Listed, Final
<1>4. Busy' = Busy /\ \A x \in Busy : PairOf(x)' = PairOf(x)
    BY <1>1 DEF Busy, At, PairOf
<1>5. Telling'
    BY <1>1, <1>3, OthersTell
<1>6. \A a, b \in Devices : Quiet(a, b)' => a # d /\ Quiet(a, b)
    BY <1>1, <1>4 DEF Quiet
<1> QED  BY <1>3, <1>5, <1>6 DEF Following

\* Who still lists a device that is paired again has a stale record; the
\* device has forgotten its partners, and its new peer has none.
LEMMA PairFollows ==
    ASSUME FInv, NEW d \in Devices, Pair(d)
    PROVE  Telling' /\ Following'
<1> USE DEF FInv
<1>1. /\ paired' = paired \union {d} /\ d \notin paired
      /\ generation' = [generation EXCEPT ![d] = @ + 1] /\ told' = [told EXCEPT ![d] = {}]
      /\ UNCHANGED <<records, pending, client, torn>>
    BY DEF Pair, ghosts
<1>2. /\ told'[d] = {} /\ \A a \in Devices \ {d} : told'[a] = told[a] /\ generation'[a] = generation[a]
    BY <1>1 DEF AInv, IInv, LinksType, PendingType
<1>3. records[d] = {} /\ pending[d] = <<>> /\ \A c \in Busy : d \notin PairOf(c)
    BY <1>1 DEF AInv, IInv, Present, NothingLeft
<1>4. \A a, b \in Devices \ {d} :
          /\ (LinkedTo(a, b)' <=> LinkedTo(a, b)) /\ (Stale(a, b)' <=> Stale(a, b))
    BY <1>1, <1>2 DEF LinkedTo, Record, Stale, Listed
<1>5. \A a \in Devices \ {d}, b \in Devices : Final(a, b)' <=> Final(a, b)
    BY <1>1, <1>2 DEF Final
<1>6. Telling'
    BY <1>1, <1>3, <1>4, <1>5, OthersTell
<1>7. Busy' = Busy /\ \A x \in Busy : PairOf(x)' = PairOf(x)
    BY <1>1 DEF Busy, At, PairOf
<1>8. \A a, b \in Devices : a # d /\ Quiet(a, b)' => Quiet(a, b)
    BY <1>1, <1>7 DEF Quiet
<1>9. ASSUME NEW b \in Devices PROVE ~Final(d, b)' /\ ~LinkedTo(d, b)'
  <2>1. ~LinkedTo(d, b)'
      BY <1>1, <1>3 DEF LinkedTo
  <2>2. ~Final(d, b)'
    <3>1. Len(<<>>) = 0
        OBVIOUS
    <3> QED  BY <1>1, <1>2, <1>3, <3>1 DEF Final, Outcome
  <2> QED  BY <2>1, <2>2
<1>10. ASSUME NEW a \in Devices \ {d}, Quiet(a, d)', ~Stale(a, d)'
       PROVE  ~Final(a, d)' /\ ~LinkedTo(a, d)'
  <2>1. ~LinkedTo(a, d)'
    <3>1. \A r \in records[a] : r.address \in Devices /\ r.id \in Nat /\ r.id <= generation[r.address]
        BY DEF AInv, IInv, LinksType, Present
    <3>2. generation[d] \in Nat /\ generation'[d] = generation[d] + 1
        BY <1>1 DEF AInv, IInv, LinksType
    <3>3. [address |-> d, id |-> generation[d] + 1] \notin records[a]
        BY <3>1, <3>2
    <3> QED  BY <1>1, <3>2, <3>3 DEF LinkedTo, Record
  <2>2. ~Listed(a, d)
      BY <1>1, <1>10, <2>1 DEF Stale, Listed
  <2>3. ~LinkedTo(a, d) /\ ~Stale(a, d)
      BY <2>2 DEF LinkedTo, Listed, Record, Stale
  <2> QED  BY <1>5, <1>8, <1>10, <2>1, <2>3 DEF Following
<1>11. Following'
  <2> SUFFICES ASSUME NEW a \in Devices, NEW b \in Devices, Quiet(a, b)', ~Stale(a, b)'
               PROVE  Final(a, b)' <=> LinkedTo(a, b)'
      BY DEF Following
  <2>1. CASE a = d
      BY <1>9, <2>1
  <2>2. CASE a # d /\ b = d
      BY <1>10, <2>2
  <2>3. CASE a # d /\ b # d
      BY <1>4, <1>5, <1>8, <2>3 DEF Following
  <2> QED  BY <2>1, <2>2, <2>3
<1> QED  BY <1>6, <1>11

\* A kill tears the pairs about which a packet is pending; the others have got
\* what they were told.
LEMMA KillFollows ==
    ASSUME FInv, Kill
    PROVE  Telling' /\ Following'
<1> USE DEF FInv
<1>1. /\ UNCHANGED <<paired, generation, records, told>> /\ pending' = [d \in Devices |-> <<>>]
      /\ client' = [c \in Clients |-> IF c \in Busy THEN Over ELSE client[c]]
      /\ \A p \in torn : p \in torn'
      /\ \A c \in Busy : PairOf(c) \in torn'
      /\ \A d \in Devices : \A i \in DOMAIN pending[d] : {d, pending[d][i].partner} \in torn'
    BY DEF Kill, peers
<1>2. Busy' = {}
  <2>1. \A c \in Clients : c \notin Busy'
      BY <1>1 DEF Busy, At, Over
  <2> QED  BY <2>1 DEF Busy
<1>3. Telling'
    BY <1>2 DEF Telling
<1>4. \A a, b : (LinkedTo(a, b)' <=> LinkedTo(a, b)) /\ (Stale(a, b)' <=> Stale(a, b))
    BY <1>1 DEF LinkedTo, Record, Stale, Listed
<1>5. Following'
  <2> SUFFICES ASSUME NEW a \in Devices, NEW b \in Devices, Quiet(a, b)', ~Stale(a, b)
               PROVE  Final(a, b)' <=> LinkedTo(a, b)
      BY <1>4 DEF Following
  <2>1. Quiet(a, b)
      BY <1>1 DEF Quiet
  <2>2. \A i \in 1..Len(pending[a]) : pending[a][i].partner # b
    <3>1. pending[a] \in Seq(Packets)
        BY DEF AInv, PendingType
    <3>2. DOMAIN pending[a] = 1..Len(pending[a])
        BY <3>1
    <3> QED  BY <1>1, <3>2 DEF Quiet
  <2>3. Final(a, b) <=> b \in told[a]
      BY <2>2 DEF Final, Outcome
  <2>4. Final(a, b)' <=> b \in told[a]
    <3>1. Len(<<>>) = 0 /\ pending'[a] = <<>>
        BY <1>1
    <3> QED  BY <1>1, <3>1 DEF Final, Outcome
  <2> QED  BY <2>1, <2>3, <2>4 DEF Following
<1> QED  BY <1>3, <1>5

LEMMA NextFollows ==
    ASSUME LinksAssumption, FInv, [Next]_vars
    PROVE  Telling' /\ Following'
<1>0. AInv /\ Telling /\ Following /\ PendingType
    BY DEF FInv, AInv
<1>l. LinksType
    BY <1>0 DEF AInv, IInv
<1>1. ASSUME NEW c \in Clients, NEW l \in Linkable, NEW op \in {"add", "remove"}, Start(c, op, l[1], l[2])
      PROVE  Telling' /\ Following'
  <2>1. Began(c, op, l[1], l[2])
      BY <1>l, <1>1, StartMoves
  <2>2. l[1] \in Devices /\ l[2] \in Devices /\ l[1] # l[2]
      BY DEF LinksAssumption
  <2>3. UNCHANGED <<paired, generation, records, pending, told, torn>>
      BY <1>1 DEF Start, peers, ghosts
  <2> QED  BY <2>1, <2>2, <2>3, StartFollows
<1>2. ASSUME NEW c \in Clients, Step(c)
      PROVE  Telling' /\ Following'
  <2>0. c \in Busy
      BY <1>0, <1>2, StepFacts
  <2>1. CASE First(c)
    <3>1. Moved(c, "Second", client[c].device) /\ client[c].sender \in Devices /\ client[c].receiver \in Devices
        BY <1>0, <1>l, <1>2, <2>0, <2>1, StepFacts, BusyCalls
    <3>2. client[c].at = "First" /\ records' = Recorded(c, client[c].sender)
          /\ UNCHANGED <<paired, generation, torn, pending, told>>
        BY <2>1 DEF First, At, ghosts
    <3> QED  BY <2>0, <3>1, <3>2, RecordFollows
  <2>2. CASE Second(c)
    <3>1. Moved(c, "Push", client[c].device) /\ client[c].sender \in Devices /\ client[c].receiver \in Devices
        BY <1>0, <1>l, <1>2, <2>0, <2>2, StepFacts, BusyCalls
    <3>2. client[c].at = "Second" /\ records' = Recorded(c, client[c].receiver)
          /\ UNCHANGED <<paired, generation, torn, pending, told>>
        BY <2>2 DEF Second, At, ghosts
    <3> QED  BY <2>0, <3>1, <3>2, RecordFollows
  <2>3. CASE Push(c)
    <3>1. Moved(c, "Announce", client[c].device)
        BY <1>0, <1>2, <2>3, StepFacts
    <3> QED  BY <2>0, <2>3, <3>1, PushFollows
  <2>4. CASE Announce(c)
    <3>1. Moved(c, "Poll", client[c].device)
        BY <1>0, <1>2, <2>4, StepFacts
    <3>2. client[c].at = "Announce" /\ UNCHANGED <<paired, generation, records, pending, told, torn>>
        BY <2>4 DEF Announce, At, peers, ghosts
    <3> QED  BY <2>0, <3>1, <3>2, WaitFollows
  <2>5. ASSUME NextDevice(c), client[c].at \in {"Poll", "Clear"},
               UNCHANGED <<paired, generation, records, pending, told>>
        PROVE  Telling' /\ Following'
    <3>1. CASE client[c].device = client[c].sender /\ Moved(c, "Push", client[c].receiver) /\ torn' = torn
        BY <2>0, <2>5, <3>1, WaitFollows
    <3>2. CASE /\ client[c].device # client[c].sender /\ Ended(c)
               /\ torn' = IF client[c].clean THEN torn \ {PairOf(c)} ELSE torn \union {PairOf(c)}
        BY <2>0, <2>5, <3>2, ReturnFollows
    <3> QED  BY <1>l, <2>0, <2>5, <3>1, <3>2, NextMoves
  <2>6. CASE Poll(c)
    <3>1. client[c].at = "Poll" /\ UNCHANGED <<paired, generation, records, pending, told>>
        BY <2>6 DEF Poll, At, peers
    <3>2. CASE Go(c, "Clear") /\ torn' = torn
      <4>1. Moved(c, "Clear", client[c].device)
          BY <1>l, <2>0, <3>2, GoMoves DEF Locations
      <4> QED  BY <2>0, <3>1, <3>2, <4>1, WaitFollows
    <3>3. CASE NextDevice(c)
        BY <2>5, <3>1, <3>3
    <3> QED  BY <2>6, <3>2, <3>3 DEF Poll
  <2>7. CASE Clear(c)
    <3>1. NextDevice(c) /\ client[c].at = "Clear" /\ UNCHANGED <<paired, generation, records, pending, told>>
        BY <2>7 DEF Clear, At, peers
    <3> QED  BY <2>5, <3>1
  <2> QED  BY <1>2, <2>1, <2>2, <2>3, <2>4, <2>6, <2>7 DEF Step
<1>3. ASSUME UNCHANGED <<paired, generation, records, client, torn, pending, told>>
      PROVE  Telling' /\ Following'
  <2>1. \A a, b \in Devices : Final(a, b)' <=> Final(a, b)
      BY <1>3 DEF Final
  <2> QED  BY <1>0, <1>3, <2>1, FollowKeeps
<1>4. CASE WorkerClear \/ WorkerEnqueue \/ Stop \/ UNCHANGED vars
    BY <1>3, <1>4 DEF WorkerClear, WorkerEnqueue, Stop, vars, peers, ghosts
<1>5. ASSUME NEW d \in Devices, Visit(d) \/ Report(d) \/ Expire(d) \/ GiveUp(d)
      PROVE  Telling' /\ Following'
    BY <1>3, <1>5 DEF Visit, Report, Expire, GiveUp, peers, ghosts
<1>6. ASSUME NEW d \in Devices, Deliver(d) \/ DeliverUnacknowledged(d)
      PROVE  Telling' /\ Following'
  <2>1. \A a, b \in Devices : Final(a, b)' <=> Final(a, b)
      BY <1>0, <1>6, DeliverKeeps
  <2>2. UNCHANGED <<paired, generation, records, client, torn>>
      BY <1>6 DEF Deliver, DeliverUnacknowledged, peers, ghosts
  <2> QED  BY <1>0, <2>1, <2>2, FollowKeeps
<1>7. ASSUME NEW d \in Devices, Delete(d) \/ Pair(d)
      PROVE  Telling' /\ Following'
    BY <1>7, DeleteFollows, PairFollows
<1> QED  BY <1>1, <1>2, <1>4, <1>5, <1>6, <1>7, KillFollows DEF Next

\* Once nothing is pending for a device it knows the partners the central has
\* recorded (MAXCentral::addLink, removeLink and the pending queues), whatever
\* was lost, sent twice, deleted, paired again or killed, unless the last call
\* for the pair was interrupted or met another one.
THEOREM DevicesAgree == Spec => []DevicesFollow
<1>1. LinksAssumption /\ Init => FInv
  <2> SUFFICES ASSUME LinksAssumption, Init PROVE FInv
      OBVIOUS
  <2>1. Busy = {}
      BY DEF Init, Busy, At, Idle
  <2>2. \A a, b \in Devices : ~Final(a, b) /\ ~LinkedTo(a, b)
    <3>1. Len(<<>>) = 0
        OBVIOUS
    <3> QED  BY <3>1 DEF Init, Final, Outcome, LinkedTo
  <2> QED  BY <2>1, <2>2, InitAInv DEF FInv, Telling, Following
<1>2. LinksAssumption /\ FInv /\ [Next]_vars => FInv'
    BY NextAInv, NextFollows DEF FInv
<1>3. FInv => DevicesFollow
  <2> SUFFICES ASSUME FInv, NEW a \in Devices, NEW b \in Devices,
                      AtRest(a, b), pending[a] = <<>>, ~Stale(a, b)
               PROVE  b \in told[a] <=> LinkedTo(a, b)
      BY DEF DevicesFollow
  <2>1. Quiet(a, b)
      BY DEF Quiet, AtRest
  <2>2. Final(a, b) <=> LinkedTo(a, b)
      BY <2>1 DEF FInv, Following
  <2>3. Len(<<>>) = 0
      OBVIOUS
  <2> QED  BY <2>2, <2>3 DEF Final, Outcome
<1> QED  BY <1>1, <1>2, <1>3, LinksAssumption, PTL DEF Spec

-----------------------------------------------------------------------------
(* Types.  A device never is its own partner, its peer is new as often as it *)
(* was paired again, and more packets than calls are never pending for it:   *)
(* a call queues one packet for each of its two devices.                     *)

PacketsFor(d) == [op : {"add", "remove"}, partner : Devices \ {d}]
Apart ==
    \A d \in Devices : /\ \A r \in records[d] : r.address # d /\ r.id \in Nat \ {0}
                       /\ pending[d] \in Seq(PacketsFor(d))
                       /\ d \notin told[d]
Paired ==
    /\ troubles \in Nat
    /\ \A d \in Devices : generation[d] \in Nat \ {0} /\ generation[d] + troubles <= Troubles + 1
Running == \A d \in Devices : queue[d] = "running" => pending[d] # <<>>
Ghosts == torn \subseteq Pairs /\ crossed \subseteq Devices
Pushed(d) == {c \in Clients : At(c, "Over") \/ (c \in Busy /\ Queued(c, d))}
Counted == \A d \in Devices : Len(pending[d]) <= Cardinality(Pushed(d))
TInv == AInv /\ Apart /\ Paired /\ Running /\ Ghosts /\ Counted

LEMMA NextRunning ==
    ASSUME PendingType, Running, [Next]_vars
    PROVE  Running'
<1>0. /\ pending \in [Devices -> Seq(Packets)]
      /\ queue \in [Devices -> {"none", "running", "done", "told"}] /\ Running
    BY DEF PendingType
<1>1. ASSUME UNCHANGED <<pending, queue>> PROVE Running'
    BY <1>0, <1>1 DEF Running
<1>2. ASSUME NEW d \in Devices, pending' = pending,
             queue'[d] = "running" => queue[d] = "running" \/ pending[d] # <<>>,
             \A e \in Devices \ {d} : queue'[e] = queue[e]
      PROVE  Running'
    BY <1>0, <1>2 DEF Running
<1>3. ASSUME NEW d \in Devices, Enqueue(d), pending' = pending
      PROVE  Running'
  <2>1. queue'[d] = "running" => queue[d] = "running" \/ pending[d] # <<>>
      BY <1>0, <1>3 DEF Enqueue
  <2>2. \A e \in Devices \ {d} : queue'[e] = queue[e]
      BY <1>0, <1>3 DEF Enqueue
  <2> QED  BY <1>2, <1>3, <2>1, <2>2
<1>4. ASSUME NEW c \in Clients, Step(c)
      PROVE  Running'
  <2>1. CASE First(c) \/ Second(c) \/ Poll(c) \/ Clear(c)
      BY <1>1, <2>1 DEF First, Second, Poll, Clear, sending
  <2>2. CASE Push(c)
    <3> DEFINE d == client[c].device
    <3>1. queue' = queue /\ pending' = [pending EXCEPT ![d] = Append(@, Packet(c, d))]
        BY <2>2 DEF Push, Behind, sending
    <3>2. \A q, p : Append(q, p) # <<>>
        OBVIOUS
    <3>3. \A e \in Devices : pending'[e] = pending[e] \/ pending'[e] # <<>>
        BY <1>0, <3>1, <3>2
    <3> QED  BY <1>0, <3>1, <3>3 DEF Running
  <2>3. CASE Announce(c)
    <3> DEFINE d == client[c].device
    <3>1. pending' = pending /\ CreateQueue(d)
        BY <2>3 DEF Announce
    <3> QED  BY <1>0, <3>1 DEF CreateQueue, Running
  <2> QED  BY <1>4, <2>1, <2>2, <2>3 DEF Step
<1>5. CASE WorkerClear \/ UNCHANGED vars \/ \E d \in Devices : Visit(d) \/ DeliverUnacknowledged(d) \/ Pair(d)
    BY <1>1, <1>5 DEF WorkerClear, vars, Visit, DeliverUnacknowledged, Pair, sending
<1>6. CASE WorkerEnqueue
  <2>1. CASE worker.peer \in Devices
      BY <1>3, <1>6, <2>1 DEF WorkerEnqueue
  <2>2. CASE worker.peer \notin Devices
      BY <1>6, <2>2 DEF WorkerEnqueue, PendingType
  <2> QED  BY <2>1, <2>2
<1>7. ASSUME NEW d \in Devices, Report(d)
      PROVE  Running'
    BY <1>3, <1>7 DEF Report
<1>8. ASSUME NEW d \in Devices, Deliver(d)
      PROVE  Running'
  <2>1. /\ pending[d] # <<>> /\ pending' = [pending EXCEPT ![d] = Tail(@)]
        /\ queue' = IF Len(pending[d]) = 1 THEN [queue EXCEPT ![d] = "done"] ELSE queue
      BY <1>8 DEF Deliver, Sendable
  <2>2. \A e \in Devices \ {d} : pending'[e] = pending[e] /\ queue'[e] = queue[e]
      BY <1>0, <2>1
  <2>3. Len(pending[d]) # 1 => pending'[d] # <<>>
      BY <1>0, <2>1, LastOne
  <2>4. Len(pending[d]) = 1 => queue'[d] = "done"
      BY <1>0, <2>1
  <2> QED  BY <1>0, <2>2, <2>3, <2>4 DEF Running
<1>9. ASSUME NEW d \in Devices, Expire(d) \/ GiveUp(d)
      PROVE  Running'
  <2>1. pending' = pending /\ Unregister(d)
      BY <1>9 DEF Expire, GiveUp
  <2>2. queue'[d] = "running" => pending[d] # <<>>
      BY <1>0, <2>1 DEF Unregister
  <2>3. \A e \in Devices \ {d} : queue'[e] = queue[e]
      BY <1>0, <2>1 DEF Unregister
  <2> QED  BY <1>2, <2>1, <2>2, <2>3
<1>10. ASSUME NEW d \in Devices, Delete(d)
       PROVE  Running'
    BY <1>0, <1>10 DEF Delete, Running
<1>11. CASE Stop \/ Kill
    BY <1>11 DEF Stop, Kill, Running
<1>12. ASSUME NEW c \in Clients, NEW l, NEW op, Start(c, op, l[1], l[2])
       PROVE  Running'
    BY <1>1, <1>12 DEF Start, sending
<1> QED
    BY <1>4, <1>5, <1>6, <1>7, <1>8, <1>9, <1>10, <1>11, <1>12 DEF Next

LEMMA ArithPaired == ASSUME NEW g \in Nat, NEW t \in Nat, t > 0, g + t <= Troubles + 1, Troubles \in Nat
                     PROVE  (g + 1) + (t - 1) <= Troubles + 1 /\ g + (t - 1) <= Troubles + 1 /\ t - 1 \in Nat
OBVIOUS

LEMMA NextPaired ==
    ASSUME LinksAssumption, LinksType, Paired, [Next]_vars
    PROVE  Paired'
<1>0. Troubles \in Nat /\ Paired /\ generation \in [Devices -> Nat]
    BY DEF LinksAssumption, LinksType
<1>1. ASSUME UNCHANGED <<generation, troubles>> PROVE Paired'
    BY <1>0, <1>1 DEF Paired
<1>2. ASSUME Trouble, NEW d \in Devices, generation' \in {generation, [generation EXCEPT ![d] = @ + 1]}
      PROVE  Paired'
  <2>1. troubles \in Nat /\ troubles > 0 /\ troubles' = troubles - 1
      BY <1>0, <1>2 DEF Trouble, Paired
  <2>2. ASSUME NEW e \in Devices
        PROVE  generation'[e] \in Nat \ {0} /\ generation'[e] + troubles' <= Troubles + 1
    <3>1. generation[e] \in Nat \ {0} /\ generation[e] + troubles <= Troubles + 1
        BY <1>0 DEF Paired
    <3>2. generation'[e] = generation[e] \/ generation'[e] = generation[e] + 1
        BY <1>0, <1>2
    <3>3. /\ (generation[e] + 1) + (troubles - 1) <= Troubles + 1
          /\ generation[e] + (troubles - 1) <= Troubles + 1
        BY <1>0, <2>1, <3>1, ArithPaired
    <3>4. generation[e] + 1 \in Nat \ {0}
        BY <3>1
    <3> QED  BY <2>1, <3>1, <3>2, <3>3, <3>4
  <2>3. troubles' \in Nat
      BY <2>1
  <2> QED  BY <2>2, <2>3 DEF Paired
<1>3. ASSUME Trouble, generation' = generation
      PROVE  Paired'
  <2>1. CASE Devices = {}
      BY <1>0, <1>3, <2>1 DEF Paired, Trouble
  <2>2. CASE Devices # {}
      BY <1>2, <1>3, <2>2
  <2> QED  BY <2>1, <2>2
<1>4. ASSUME NEW c \in Clients, Step(c)
      PROVE  Paired'
    BY <1>1, <1>4 DEF Step, First, Second, Push, Announce, Poll, Clear, peers
<1>5. ASSUME NEW c \in Clients, NEW l, NEW op, Start(c, op, l[1], l[2])
      PROVE  Paired'
    BY <1>1, <1>5 DEF Start, peers
<1>6. CASE WorkerClear \/ WorkerEnqueue \/ UNCHANGED vars
    BY <1>1, <1>6 DEF WorkerClear, WorkerEnqueue, vars, peers
<1>7. ASSUME NEW d \in Devices, Visit(d) \/ Report(d) \/ Deliver(d) \/ Expire(d) \/ Delete(d)
      PROVE  Paired'
    BY <1>1, <1>7 DEF Visit, Report, Deliver, Expire, Delete, peers
<1>8. ASSUME NEW d \in Devices, DeliverUnacknowledged(d) \/ GiveUp(d)
      PROVE  Paired'
    BY <1>3, <1>8 DEF DeliverUnacknowledged, GiveUp, peers
<1>9. ASSUME NEW d \in Devices, Pair(d)
      PROVE  Paired'
    BY <1>2, <1>9 DEF Pair
<1>10. CASE Stop \/ Kill
    BY <1>3, <1>10 DEF Stop, Kill, peers
<1> QED  BY <1>4, <1>5, <1>6, <1>7, <1>8, <1>9, <1>10 DEF Next

\* A call never finds a device to be its own partner.
LEMMA NextApart ==
    ASSUME LinksAssumption, AInv, Apart, Paired, [Next]_vars
    PROVE  Apart'
<1>l. LinksType
    BY DEF AInv, IInv
<1>0. /\ records \in [Devices -> SUBSET [address : Devices, id : Nat]] /\ PendingType /\ Apart
      /\ pending \in [Devices -> Seq(Packets)] /\ told \in [Devices -> SUBSET Devices]
    BY <1>l DEF LinksType, AInv, PendingType
<1>1. ASSUME UNCHANGED <<records, pending, told>> PROVE Apart'
    BY <1>0, <1>1 DEF Apart
<1>2. ASSUME NEW c \in Busy, NEW d \in PairOf(c)
      PROVE  d \in Devices /\ Partner(c, d) \in Devices \ {d} /\ client[c].op \in {"add", "remove"}
    BY <1>l, <1>2, BusyCalls, Partners DEF Calling
<1>3. ASSUME NEW c \in Busy, NEW d \in PairOf(c), records' = Recorded(c, d), UNCHANGED <<pending, told>>
      PROVE  Apart'
  <2>1. PICK e \in Devices \ {d} : e = Partner(c, d)
      BY <1>2
  <2>2. d \in Devices /\ records' \in {[records EXCEPT ![d] = AddPeer(d, e)], [records EXCEPT ![d] = RemovePeer(d, e)]}
      BY <1>2, <1>3, <2>1 DEF Recorded
  <2>3. Record(e).address = e /\ Record(e).id = generation[e] /\ generation[e] \in Nat \ {0}
      BY <2>1 DEF Record, Paired
  <2>4. \A x \in Devices \ {d} : records'[x] = records[x]
      BY <1>0, <2>2
  <2>5. records'[d] \in {AddPeer(d, e), RemovePeer(d, e)}
      BY <1>0, <2>2
  <2>6. \A r \in records'[d] : r \in records[d] \/ r = Record(e)
    <3>1. CASE records'[d] = AddPeer(d, e)
        BY <3>1 DEF AddPeer
    <3>2. CASE records'[d] = RemovePeer(d, e)
        BY <3>2 DEF RemovePeer
    <3> QED  BY <2>5, <3>1, <3>2
  <2>7. \A r \in records'[d] : r.address # d /\ r.id \in Nat \ {0}
      BY <1>0, <2>1, <2>2, <2>3, <2>6 DEF Apart
  <2> QED  BY <1>0, <1>3, <2>4, <2>7 DEF Apart
<1>4. ASSUME NEW c \in Clients, Step(c)
      PROVE  Apart'
  <2>1. c \in Busy /\ client[c].device \in PairOf(c)
      BY <1>4, StepFacts
  <2>2. client[c].sender \in PairOf(c) /\ client[c].receiver \in PairOf(c)
      BY DEF PairOf
  <2>3. CASE First(c)
      BY <1>3, <2>1, <2>2, <2>3 DEF First
  <2>4. CASE Second(c)
      BY <1>3, <2>1, <2>2, <2>4 DEF Second
  <2>5. CASE Push(c)
    <3>1. PICK d \in Devices : d = client[c].device
        BY <1>2, <2>1
    <3>2. Packet(c, d) \in PacketsFor(d)
        BY <1>2, <2>1, <3>1 DEF Packet, PacketsFor
    <3>3. pending' = [pending EXCEPT ![d] = Append(@, Packet(c, d))] /\ UNCHANGED <<records, told>>
        BY <2>5, <3>1 DEF Push, Behind, peers
    <3>4. pending[d] \in Seq(PacketsFor(d))
        BY <1>0, <3>1 DEF Apart
    <3>5. pending'[d] \in Seq(PacketsFor(d))
        BY <1>0, <3>2, <3>3, <3>4, SeqFacts
    <3>6. \A x \in Devices \ {d} : pending'[x] = pending[x]
        BY <1>0, <3>3
    <3> QED  BY <1>0, <3>3, <3>5, <3>6 DEF Apart
  <2>6. CASE Announce(c) \/ Poll(c) \/ Clear(c)
      BY <1>1, <2>6 DEF Announce, Poll, Clear, peers
  <2> QED  BY <1>4, <2>3, <2>4, <2>5, <2>6 DEF Step
<1>5. ASSUME NEW c \in Clients, NEW l, NEW op, Start(c, op, l[1], l[2])
      PROVE  Apart'
    BY <1>1, <1>5 DEF Start, peers
<1>6. CASE WorkerClear \/ WorkerEnqueue \/ Stop \/ UNCHANGED vars
    BY <1>1, <1>6 DEF WorkerClear, WorkerEnqueue, Stop, vars, peers
<1>7. ASSUME NEW d \in Devices, Visit(d) \/ Report(d) \/ Expire(d) \/ GiveUp(d)
      PROVE  Apart'
    BY <1>1, <1>7 DEF Visit, Report, Expire, GiveUp, peers
<1>8. ASSUME NEW d \in Devices, Deliver(d) \/ DeliverUnacknowledged(d)
      PROVE  Apart'
  <2>1. /\ pending[d] # <<>> /\ told' = Obeyed(d) /\ records' = records
        /\ pending' \in {pending, [pending EXCEPT ![d] = Tail(@)]}
      BY <1>8 DEF Deliver, DeliverUnacknowledged, Sendable, peers
  <2>2. Head(pending[d]) \in PacketsFor(d) /\ Tail(pending[d]) \in Seq(PacketsFor(d))
      BY <1>0, <2>1, SeqFacts DEF Apart
  <2>3. Head(pending[d]).partner # d
      BY <2>2 DEF PacketsFor
  <2>4. \A x \in Devices \ {d} : pending'[x] = pending[x] /\ told'[x] = told[x]
      BY <1>0, <2>1 DEF Obeyed
  <2>5. d \notin told'[d]
      BY <1>0, <2>1, <2>3 DEF Obeyed, Apart
  <2>6. pending'[d] \in {pending[d], Tail(pending[d])}
      BY <1>0, <2>1
  <2>7. pending'[d] \in Seq(PacketsFor(d))
      BY <1>0, <2>2, <2>6 DEF Apart
  <2> QED  BY <1>0, <2>1, <2>4, <2>5, <2>7 DEF Apart
<1>9. ASSUME NEW d \in Devices, Delete(d)
      PROVE  Apart'
  <2>1. /\ \A x \in Devices \ {d} : pending'[x] = pending[x] /\ records'[x] = records[x]
        /\ pending'[d] = <<>> /\ records'[d] = {} /\ told' = told
      BY <1>0, <1>9 DEF Delete
  <2>2. <<>> \in Seq(PacketsFor(d))
      BY SeqFacts
  <2> QED  BY <1>0, <2>1, <2>2 DEF Apart
<1>10. ASSUME NEW d \in Devices, Pair(d)
       PROVE  Apart'
    BY <1>0, <1>10 DEF Pair, Apart
<1>11. CASE Kill
  <2>1. /\ \A d \in Devices : pending'[d] = <<>>
        /\ records' = records /\ told' = told
      BY <1>11 DEF Kill, peers
  <2>2. \A d \in Devices : <<>> \in Seq(PacketsFor(d))
      BY SeqFacts
  <2> QED  BY <1>0, <2>1, <2>2 DEF Apart
<1> QED  BY <1>4, <1>5, <1>6, <1>7, <1>8, <1>9, <1>10, <1>11 DEF Next

LEMMA TwoDevices ==
    ASSUME NEW d \in Devices, NEW e \in Devices \ {d}
    PROVE  {d, e} \in Pairs
<1>1. IsFiniteSet({d}) /\ Cardinality({d}) = 1
    BY FS_Singleton
<1>2. Cardinality({d} \cup {e}) = 2
    BY <1>1, FS_AddElement
<1>3. {d, e} = {d} \cup {e}
    OBVIOUS
<1> QED  BY <1>2, <1>3 DEF Pairs

LEMMA NextGhosts ==
    ASSUME AInv, Apart, Ghosts, [Next]_vars
    PROVE  Ghosts'
<1>l. LinksType
    BY DEF AInv, IInv
<1>0. Ghosts /\ PendingType /\ \A c \in Busy : PairOf(c) \in Pairs
    BY <1>l, BusyCalls, TwoDevices DEF AInv
<1>1. ASSUME torn' = torn, crossed' \subseteq Devices PROVE Ghosts'
    BY <1>0, <1>1 DEF Ghosts
<1>2. ASSUME NEW c \in Clients, Step(c)
      PROVE  Ghosts'
  <2>1. c \in Busy /\ client[c].device \in Devices
      BY <1>2, StepFacts
  <2>2. crossed' \subseteq Devices
      BY <1>0, <1>2, <2>1 DEF Step, First, Second, Push, Announce, Poll, Clear, ghosts, Ghosts
  <2>3. ASSUME NextDevice(c) PROVE torn' \subseteq Pairs
      BY <1>0, <2>1, <2>3 DEF NextDevice, Ghosts
  <2>4. torn' = torn \/ NextDevice(c)
      BY <1>2 DEF Step, First, Second, Push, Announce, Poll, Clear, ghosts
  <2> QED  BY <1>1, <2>2, <2>3, <2>4 DEF Ghosts
<1>3. ASSUME NEW c \in Clients, NEW l, NEW op, Start(c, op, l[1], l[2])
      PROVE  Ghosts'
    BY <1>0, <1>3 DEF Start, ghosts, Ghosts
<1>4. CASE WorkerClear \/ WorkerEnqueue \/ Stop \/ UNCHANGED vars
    BY <1>0, <1>4 DEF WorkerClear, WorkerEnqueue, Stop, vars, ghosts, Ghosts
<1>5. ASSUME NEW d \in Devices,
             \/ Visit(d) \/ Report(d) \/ Deliver(d) \/ DeliverUnacknowledged(d)
             \/ Expire(d) \/ GiveUp(d) \/ Delete(d) \/ Pair(d)
      PROVE  Ghosts'
  <2>1. torn' = torn /\ crossed' \in {crossed, crossed \ {d}}
      BY <1>5 DEF Visit, Report, Deliver, DeliverUnacknowledged, Expire, GiveUp, Delete, Pair, ghosts
  <2> QED  BY <1>0, <2>1 DEF Ghosts
<1>6. CASE Kill
  <2>1. /\ crossed' = {}
        /\ torn' = torn \union {PairOf(c) : c \in Busy}
                        \union UNION {{{d, pending[d][i].partner} : i \in DOMAIN pending[d]}
                                      : d \in Devices}
      BY <1>6 DEF Kill
  <2>2. ASSUME NEW d \in Devices, NEW i \in DOMAIN pending[d]
        PROVE  {d, pending[d][i].partner} \in Pairs
    <3>1. pending[d] \in Seq(PacketsFor(d))
        BY DEF Apart
    <3>2. pending[d][i] \in PacketsFor(d)
        BY <3>1
    <3> QED  BY <3>2, TwoDevices DEF PacketsFor
  <2> QED  BY <1>0, <2>1, <2>2 DEF Ghosts
<1> QED  BY <1>2, <1>3, <1>4, <1>5, <1>6 DEF Next

\* Who has queued what it had for a device never has it to queue again.
LEMMA PushedGrows ==
    ASSUME LinksAssumption, AInv, [Next]_vars, NEW d \in Devices
    PROVE  Pushed(d) \subseteq Pushed(d)'
<1>l. LinksType
    BY DEF AInv, IInv
<1>0. \A x \in Busy : /\ client[x].sender # client[x].receiver
                      /\ client[x].at \in Locations /\ x \in Clients
                      /\ client[x].device \in {client[x].sender, client[x].receiver}
    BY <1>l, BusyCalls DEF AInv, PendingType, Calling
<1> SUFFICES ASSUME NEW x \in Clients, At(x, "Over") \/ (x \in Busy /\ Queued(x, d))
             PROVE  At(x, "Over")' \/ (x \in Busy' /\ Queued(x, d)')
    BY DEF Pushed
<1>1. ASSUME UNCHANGED client PROVE At(x, "Over")' \/ (x \in Busy' /\ Queued(x, d)')
    BY <1>1 DEF Busy, At, Queued
<1>2. ASSUME x \in Busy, x \in Busy', Same(x) PROVE Queued(x, d)'
    BY <1>2 DEF Same, Queued, Busy
<1>3. ASSUME NEW c \in Clients, NEW l \in Linkable, NEW op \in {"add", "remove"}, Start(c, op, l[1], l[2])
      PROVE  At(x, "Over")' \/ (x \in Busy' /\ Queued(x, d)')
  <2>1. Began(c, op, l[1], l[2])
      BY <1>l, <1>3, StartMoves
  <2>2. CASE x \in Busy
      BY <1>2, <2>1, <2>2 DEF Began
  <2>3. CASE At(x, "Over")
    <3>1. x \notin Busy /\ x # c
        BY <1>3, <2>3 DEF Busy, At, Start
    <3>2. client'[x] = client[x]
        BY <1>3, <3>1 DEF Start
    <3> QED  BY <2>3, <3>2 DEF At
  <2> QED  BY <2>2, <2>3
<1>4. ASSUME NEW c \in Clients, Step(c)
      PROVE  At(x, "Over")' \/ (x \in Busy' /\ Queued(x, d)')
  <2>0. /\ c \in Busy
        /\ First(c) => Moved(c, "Second", client[c].device)
        /\ Second(c) => Moved(c, "Push", client[c].device)
        /\ Push(c) => Moved(c, "Announce", client[c].device)
        /\ Announce(c) => Moved(c, "Poll", client[c].device)
        /\ Poll(c) => Moved(c, "Clear", client[c].device) \/ NextDevice(c)
        /\ Clear(c) => NextDevice(c)
      BY <1>4, StepFacts
  <2>1. x # c => client'[x] = client[x]
    <3>1. (\E l : Go(c, l)) \/ NextDevice(c)
        BY <1>4 DEF Step, First, Second, Push, Announce, Poll, Clear
    <3>2. client \in [Clients -> Calling \union {Idle, Over}]
        BY <1>l DEF LinksType
    <3> QED  BY <3>1, <3>2 DEF Go, NextDevice
  <2>2. CASE x # c
      BY <2>1, <2>2 DEF Busy, At, Queued
  <2>3. CASE x = c
    <3>1. Queued(c, d) /\ c \in Busy
        BY <2>0, <2>3 DEF Busy
    <3>2. ASSUME NEW l, Moved(c, l, client[c].device),
                 client[c].at \in {"Announce", "Poll", "Clear"} => l \in {"Announce", "Poll", "Clear"}
          PROVE  c \in Busy' /\ Queued(c, d)'
        BY <3>1, <3>2 DEF Moved, Queued
    <3>3. ASSUME NextDevice(c), client[c].at \in {"Poll", "Clear"}
          PROVE  At(c, "Over")' \/ (c \in Busy' /\ Queued(c, d)')
      <4>1. CASE client[c].device = client[c].sender
        <5>1. Moved(c, "Push", client[c].receiver)
            BY <1>l, <2>0, <3>3, <4>1, NextMoves
        <5>2. d = client[c].sender
            BY <1>0, <2>0, <3>1, <4>1 DEF Queued
        <5> QED  BY <2>0, <5>1, <5>2 DEF Moved, Queued
      <4>2. CASE client[c].device # client[c].sender
        <5>1. client' = [client EXCEPT ![c] = Over] /\ client \in [Clients -> Calling \union {Idle, Over}]
            BY <1>l, <3>3, <4>2 DEF NextDevice, LinksType
        <5>2. client'[c] = Over
            BY <5>1
        <5> QED  BY <5>2 DEF At, Over
      <4> QED  BY <4>1, <4>2
    <3>4. /\ First(c) => client[c].at = "First"
          /\ Second(c) => client[c].at = "Second"
          /\ Push(c) => client[c].at = "Push"
          /\ Poll(c) => client[c].at = "Poll"
          /\ Clear(c) => client[c].at = "Clear"
        BY DEF First, Second, Push, Poll, Clear, At
    <3>5. CASE First(c)
        BY <2>0, <2>3, <3>2, <3>4, <3>5
    <3>6. CASE Second(c)
        BY <2>0, <2>3, <3>2, <3>4, <3>6
    <3>7. CASE Push(c)
        BY <2>0, <2>3, <3>2, <3>4, <3>7
    <3>8. CASE Announce(c)
        BY <2>0, <2>3, <3>2, <3>8
    <3>9. CASE Poll(c)
        BY <2>0, <2>3, <3>2, <3>3, <3>4, <3>9
    <3>10. CASE Clear(c)
        BY <2>0, <2>3, <3>3, <3>4, <3>10
    <3> QED  BY <1>4, <3>5, <3>6, <3>7, <3>8, <3>9, <3>10 DEF Step
  <2> QED  BY <2>2, <2>3
<1>5. CASE WorkerClear \/ WorkerEnqueue \/ Stop \/ UNCHANGED vars
    BY <1>1, <1>5 DEF WorkerClear, WorkerEnqueue, Stop, vars
<1>6. ASSUME NEW e \in Devices,
             \/ Visit(e) \/ Report(e) \/ Deliver(e) \/ DeliverUnacknowledged(e)
             \/ Expire(e) \/ GiveUp(e) \/ Delete(e) \/ Pair(e)
      PROVE  At(x, "Over")' \/ (x \in Busy' /\ Queued(x, d)')
    BY <1>1, <1>6 DEF Visit, Report, Deliver, DeliverUnacknowledged, Expire, GiveUp, Delete, Pair
<1>7. CASE Kill
  <2>1. client' = [c \in Clients |-> IF c \in Busy THEN Over ELSE client[c]]
      BY <1>7 DEF Kill
  <2>2. client'[x].at = "Over"
      BY <2>1 DEF At, Over
  <2> QED  BY <2>2 DEF At
<1> QED  BY <1>3, <1>4, <1>5, <1>6, <1>7 DEF Next

\* A call that queues a packet for a device has not done so before.
LEMMA NextCounted ==
    ASSUME LinksAssumption, AInv, Counted, [Next]_vars
    PROVE  Counted'
<1>l. LinksType
    BY DEF AInv, IInv
<1>0. /\ pending \in [Devices -> Seq(Packets)] /\ Counted
      /\ \A d \in Devices : pending[d] \in Seq(Packets) /\ Len(pending[d]) \in Nat
    BY DEF AInv, PendingType
<1>1. IsFiniteSet(Clients)
    BY FS_Interval DEF Clients, LinksAssumption
<1>2. ASSUME NEW d \in Devices
      PROVE  /\ IsFiniteSet(Pushed(d)) /\ IsFiniteSet(Pushed(d)')
             /\ Cardinality(Pushed(d)) <= Cardinality(Pushed(d)')
             /\ Cardinality(Pushed(d)) \in Nat /\ Cardinality(Pushed(d)') \in Nat
  <2>1. Pushed(d) \in SUBSET Clients /\ Pushed(d)' \in SUBSET Clients
      BY DEF Pushed
  <2>2. IsFiniteSet(Pushed(d)) /\ IsFiniteSet(Pushed(d)')
      BY <1>1, <2>1, FS_Subset
  <2>3. Pushed(d) \in SUBSET (Pushed(d)')
      BY PushedGrows
  <2> QED  BY <2>2, <2>3, FS_Subset, FS_CardinalityType
<1>3. ASSUME NEW d \in Devices, NEW q, q = pending'[d], Len(q) \in Nat, Len(q) <= Len(pending[d])
      PROVE  Len(pending'[d]) <= Cardinality(Pushed(d)')
    BY <1>0, <1>2, <1>3 DEF Counted
<1>4. ASSUME \A d \in Devices : pending'[d] = pending[d] \/ pending'[d] = <<>>
                              \/ (pending[d] # <<>> /\ pending'[d] = Tail(pending[d]))
      PROVE  Counted'
  <2> SUFFICES ASSUME NEW d \in Devices PROVE Len(pending'[d]) <= Cardinality(Pushed(d)')
      BY DEF Counted
  <2>1. \A q \in Seq(Packets) : q # <<>> => Len(Tail(q)) = Len(q) - 1 /\ Len(q) \in Nat \ {0}
      OBVIOUS
  <2>2. Len(<<>>) = 0
      OBVIOUS
  <2>3. Len(pending'[d]) \in Nat /\ Len(pending'[d]) <= Len(pending[d])
      BY <1>0, <1>4, <2>1, <2>2
  <2> QED  BY <1>3, <2>3
<1>5. ASSUME NEW c \in Clients, Push(c)
      PROVE  Counted'
  <2>1. /\ c \in Busy /\ client[c].device \in Devices /\ client[c].at = "Push" /\ c \in Clients
        /\ Moved(c, "Announce", client[c].device)
      BY <1>5, StepFacts DEF Step, Push, At
  <2>2. PICK d \in Devices : d = client[c].device
      BY <2>1
  <2>3. pending' = [pending EXCEPT ![d] = Append(@, Packet(c, d))]
      BY <1>5, <2>2 DEF Push, Behind
  <2>4. \A e \in Devices \ {d} : pending'[e] = pending[e]
      BY <1>0, <2>3
  <2>5. Len(pending'[d]) = Len(pending[d]) + 1
    <3>1. \A q \in Seq(Packets) : \A p : Len(Append(q, p)) = Len(q) + 1
        OBVIOUS
    <3> QED  BY <1>0, <2>3, <3>1
  <2>6. c \notin Pushed(d) /\ c \in Pushed(d)'
    <3>1. client[c].sender # client[c].receiver
        BY <1>l, <2>1, BusyCalls
    <3>2. ~At(c, "Over") /\ ~Queued(c, d)
        BY <2>1, <2>2, <3>1 DEF At, Queued
    <3>3. c \in Busy' /\ Queued(c, d)'
        BY <2>1, <2>2 DEF Moved, Queued
    <3> QED  BY <2>1, <3>2, <3>3 DEF Pushed
  <2>7. Cardinality(Pushed(d)) + 1 <= Cardinality(Pushed(d)')
    <3>1. IsFiniteSet(Pushed(d)) /\ IsFiniteSet(Pushed(d)')
        BY <1>2
    <3>2. Cardinality(Pushed(d) \cup {c}) = Cardinality(Pushed(d)) + 1
        BY <2>6, <3>1, FS_AddElement
    <3>3. Pushed(d) \cup {c} \in SUBSET (Pushed(d)')
        BY <2>6, PushedGrows
    <3>4. Cardinality(Pushed(d) \cup {c}) <= Cardinality(Pushed(d)')
        BY <3>1, <3>3, FS_Subset
    <3> QED  BY <3>2, <3>4
  <2>8. Len(pending'[d]) <= Cardinality(Pushed(d)')
    <3>1. Len(pending[d]) <= Cardinality(Pushed(d)) /\ Len(pending[d]) \in Nat /\ Cardinality(Pushed(d)) \in Nat
        BY <1>0, <1>2 DEF Counted
    <3>2. Cardinality(Pushed(d)') \in Nat
        BY <1>2
    <3>3. \A m, n, k \in Nat : m <= n /\ n + 1 <= k => m + 1 <= k
        OBVIOUS
    <3> QED  BY <2>5, <2>7, <3>1, <3>2, <3>3
  <2>9. \A e \in Devices \ {d} : Len(pending'[e]) <= Cardinality(Pushed(e)')
      BY <1>0, <1>3, <2>4
  <2> QED  BY <2>8, <2>9 DEF Counted
<1>6. ASSUME NEW c \in Clients, Step(c), ~Push(c)
      PROVE  Counted'
    BY <1>4, <1>6 DEF Step, First, Second, Announce, Poll, Clear
<1>7. ASSUME NEW c \in Clients, NEW l, NEW op, Start(c, op, l[1], l[2])
      PROVE  Counted'
    BY <1>4, <1>7 DEF Start
<1>8. CASE WorkerClear \/ WorkerEnqueue \/ Stop \/ UNCHANGED vars
    BY <1>4, <1>8 DEF WorkerClear, WorkerEnqueue, Stop, vars
<1>9. ASSUME NEW d \in Devices,
             \/ Visit(d) \/ Report(d) \/ DeliverUnacknowledged(d) \/ Expire(d) \/ GiveUp(d) \/ Pair(d)
      PROVE  Counted'
    BY <1>4, <1>9 DEF Visit, Report, DeliverUnacknowledged, Expire, GiveUp, Pair, sending
<1>10. ASSUME NEW d \in Devices, Deliver(d) \/ Delete(d)
       PROVE  Counted'
  <2>1. \/ pending' = [pending EXCEPT ![d] = <<>>]
        \/ pending[d] # <<>> /\ pending' = [pending EXCEPT ![d] = Tail(@)]
      BY <1>10 DEF Deliver, Delete, Sendable
  <2> QED  BY <1>0, <1>4, <2>1
<1>11. CASE Kill
    BY <1>4, <1>11 DEF Kill
<1> QED  BY <1>5, <1>6, <1>7, <1>8, <1>9, <1>10, <1>11 DEF Next

\* Every variable keeps its type, for any number of devices, calls and troubles:
\* a peer never has a record of itself, a send queue that runs has something to
\* send, and no more packets are pending for a device than there were calls.
THEOREM LinksTypes == Spec => []TypeOK
<1>1. LinksAssumption /\ Init => TInv
  <2> SUFFICES ASSUME LinksAssumption, Init PROVE TInv
      OBVIOUS
  <2>1. Apart /\ Running /\ Ghosts
    <3>1. \A d \in Devices : <<>> \in Seq(PacketsFor(d))
        BY SeqFacts
    <3> QED  BY <3>1 DEF Init, Apart, Running, Ghosts
  <2>2. Paired
      BY DEF Init, Paired, LinksAssumption
  <2>3. Counted
    <3>1. IsFiniteSet(Clients)
        BY FS_Interval DEF Clients, LinksAssumption
    <3>2. \A d \in Devices : Pushed(d) \in SUBSET Clients
        BY DEF Pushed
    <3>3. \A d \in Devices : Cardinality(Pushed(d)) \in Nat
        BY <3>1, <3>2, FS_Subset, FS_CardinalityType
    <3>4. Len(<<>>) = 0
        OBVIOUS
    <3>5. \A d \in Devices : pending[d] = <<>>
        BY DEF Init
    <3> QED  BY <3>3, <3>4, <3>5 DEF Counted
  <2> QED  BY <2>1, <2>2, <2>3, InitAInv DEF TInv
<1>2. LinksAssumption /\ TInv /\ [Next]_vars => TInv'
  <2> SUFFICES ASSUME LinksAssumption, TInv, [Next]_vars PROVE TInv'
      OBVIOUS
  <2>1. AInv /\ Apart /\ Paired /\ Running /\ Ghosts /\ Counted /\ LinksType /\ PendingType
      BY DEF TInv, AInv, IInv
  <2> QED  BY <2>1, NextAInv, NextApart, NextPaired, NextRunning, NextGhosts, NextCounted DEF TInv
<1>3. LinksAssumption /\ TInv => TypeOK
  <2> SUFFICES ASSUME LinksAssumption, TInv PROVE TypeOK
      OBVIOUS
  <2>0. Troubles \in Nat /\ Calls \in Nat /\ troubles \in Nat
      BY DEF TInv, Paired, LinksAssumption
  <2>1. \A d \in Devices : generation[d] \in 1..Troubles + 1
      BY <2>0 DEF TInv, Paired
  <2>2. ASSUME NEW d \in Devices
        PROVE  /\ records[d] \subseteq [address : Devices \ {d}, id : 1..Troubles + 1]
               /\ \A i \in DOMAIN pending[d] : pending[d][i] \in PacketsFor(d)
               /\ Len(pending[d]) <= Calls
               /\ queue[d] \in {"none", "running", "done", "told"}
               /\ queue[d] = "running" => pending[d] # <<>>
               /\ told[d] \subseteq Devices \ {d}
    <3>1. ASSUME NEW r \in records[d]
          PROVE  r \in [address : Devices \ {d}, id : 1..Troubles + 1]
      <4>1. r \in [address : Devices, id : Nat] /\ r.id <= generation[r.address]
          BY DEF TInv, AInv, IInv, LinksType, Present
      <4>2. r.address # d /\ r.id \in Nat \ {0}
          BY DEF TInv, Apart
      <4>3. r.id \in 1..Troubles + 1
          BY <2>0, <2>1, <4>1, <4>2
      <4>4. r = [address |-> r.address, id |-> r.id]
          BY <4>1
      <4>5. r.address \in Devices \ {d}
          BY <4>1, <4>2
      <4> QED  BY <4>3, <4>4, <4>5
    <3>2. \A i \in DOMAIN pending[d] : pending[d][i] \in PacketsFor(d)
      <4>1. pending[d] \in Seq(PacketsFor(d))
          BY DEF TInv, Apart
      <4> QED  BY <4>1
    <3>3. Len(pending[d]) <= Calls
      <4>1. IsFiniteSet(Clients) /\ Cardinality(Clients) = Calls
          BY <2>0, FS_Interval DEF Clients
      <4>2. Pushed(d) \in SUBSET Clients
          BY DEF Pushed
      <4>3. Cardinality(Pushed(d)) <= Calls /\ Cardinality(Pushed(d)) \in Nat
          BY <4>1, <4>2, FS_Subset, FS_CardinalityType
      <4>4. Len(pending[d]) \in Nat /\ Len(pending[d]) <= Cardinality(Pushed(d))
          BY DEF TInv, Counted, AInv, PendingType
      <4> QED  BY <2>0, <4>3, <4>4
    <3>4. queue[d] \in {"none", "running", "done", "told"} /\ (queue[d] = "running" => pending[d] # <<>>)
        BY DEF TInv, AInv, PendingType, Running
    <3>5. told[d] \subseteq Devices \ {d}
        BY DEF TInv, AInv, PendingType, Apart
    <3> QED  BY <3>1, <3>2, <3>3, <3>4, <3>5
  <2>3. /\ paired \subseteq Devices /\ generation \in [Devices -> Nat]
        /\ configPending \in [Devices -> BOOLEAN] /\ torn \subseteq Pairs /\ crossed \subseteq Devices
      BY DEF TInv, AInv, IInv, LinksType, PendingType, Ghosts
  <2>4. generation \in [Devices -> 1..Troubles + 1]
      BY <2>1, <2>3
  <2> QED  BY <2>2, <2>3, <2>4 DEF TypeOK, PacketsFor
<1> QED  BY <1>1, <1>2, <1>3, LinksAssumption, PTL DEF Spec

=============================================================================
