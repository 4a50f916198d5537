---------------------------- MODULE Configuration ----------------------------
(***************************************************************************)
(* The packets MAXPeer builds from its cached parameters: putParamset      *)
(* writes one packet per list of configuration parameters, setValue one    *)
(* for the frame of a value.  Each packet carries every parameter of its   *)
(* list or frame, the ones the caller gave and the others as the cache has *)
(* them, several of them in one byte.  RPC threads run side by side; they  *)
(* share the cache and the pending queues and no lock.                     *)
(*                                                                         *)
(* The send queue is what Delivery promises, so it gives the device the    *)
(* pending packets in their order; a copy that is on the air when its      *)
(* queue is withdrawn comes before the next one, too.                      *)
(*                                                                         *)
(* PacketProofs extends this module and Transmission, so the two have no   *)
(* names in common.                                                        *)
(***************************************************************************)
EXTENDS Codec, FiniteSets

CONSTANTS
    Number,     \* list of configuration parameters -> its number, as a byte
    Frames,     \* frames that set values
    Layout,     \* parameter -> [group, index, size] for a configuration parameter;
                \* parameter -> [group, report] for a value, report being the element
                \* of the device's report
    Elements,   \* frame -> its elements [param, index, size] or with an offset, too
    Values,     \* parameter -> the values it may have
    Clients,    \* RPC threads
    Calls       \* bound on the calls

Params == DOMAIN Layout
Lists == DOMAIN Number
Groups == Lists \union Frames
Of(g) == {f \in Params : Layout[f].group = g}
ConfigParams == UNION {Of(l) : l \in Lists}
NoParam == "none"
NoGroup == "none"

\* Positions in a list: that of a parameter is the one of its last byte.
FirstByte(f) == Layout[f].index - (Bytes(Layout[f].size) - 1) * 10
IntIndex(f) == ByteOf(Layout[f].index)

-----------------------------------------------------------------------------
(* What a device description has to satisfy; the shipped ones do.           *)

\* Two parameters of a list do not begin in the same byte: putParamset would
\* leave out the one that is not given.
DistinctBytes ==
    \A f, g \in ConfigParams :
        f # g /\ Layout[f].group = Layout[g].group => IntIndex(f) # IntIndex(g)

\* The bits of a field, which is not in the header of the payload; one of less
\* than a byte is in one byte.
FirstBits(index, size) ==
    IF Partial(index, size) THEN {i \in Bits : BitOf(index) <= i /\ i < BitOf(index) + size}
    ELSE BitMask(BitOf(size))
Cells(index, size) ==
    ({ByteOf(index)} \X FirstBits(index, size))
      \union (((ByteOf(index) + 1)..(ByteOf(index) + Bytes(size) - 1)) \X Bits)
Field(index, size) ==
    /\ index \in Nat /\ index >= 100 /\ size \in Nat \ {0}
    /\ Partial(index, size) => size < 8 /\ BitOf(index) + size <= 8
\* A value as long as the field, its first byte within the field's bits.
Fits(v, index, size) ==
    /\ v \in Seq(Byte) /\ Len(v) = Bytes(size)
    /\ v[1] \subseteq BitMask(IF Partial(index, size) THEN size ELSE BitOf(size))

\* The fields of a list or a frame.
Parts(g) ==
    IF g \in Lists
      THEN {[param |-> f, index |-> FirstByte(f), size |-> Layout[f].size] : f \in Of(g)}
      ELSE {Elements[g][k] : k \in DOMAIN Elements[g]}
Disjoint(g) ==
    /\ \A d, e \in Parts(g) : d # e => Cells(d.index, d.size) \intersect Cells(e.index, e.size) = {}
    /\ g \in Frames => \A j, k \in DOMAIN Elements[g] : Elements[g][j] = Elements[g][k] => j = k

HasOffset(e) == "offset" \in DOMAIN e
\* The report has a value where its element is, three bytes further on ...
Whole(f) ==
    \E e \in Parts(Layout[f].group) :
        /\ \A d \in Parts(Layout[f].group) : d.param = f <=> d = e
        /\ ~HasOffset(e)
        /\ Layout[f].report = [index |-> e.index + 30, size |-> e.size]
        /\ \A v \in Values[f] : Fits(v, e.index, e.size)
\* ... or it is in two parts, the low bits at the end of their byte, so that
\* the others are shifted out of it.
Split(f) ==
    \E low, high \in Parts(Layout[f].group) :
        /\ \A d \in Parts(Layout[f].group) : d.param = f <=> d \in {low, high}
        /\ ~HasOffset(low) /\ low.size < 8 /\ BitOf(low.index) + low.size = 8
        /\ HasOffset(high) /\ high.offset = low.size
        /\ Layout[f].report = [index |-> low.index + 30, size |-> low.size,
                               index2 |-> high.index + 30, size2 |-> high.size, offset |-> high.offset]
        /\ \A v \in Values[f] : v \in Seq(Byte) /\ Len(v) = 1 /\ v[1] \subseteq BitMask(high.offset + high.size)
        /\ high.size < 8 /\ high.offset + high.size <= 8

ASSUME ConfigurationAssumption ==
    /\ Calls \in Nat
    /\ Lists \intersect Frames = {} /\ NoGroup \notin Groups /\ NoParam \notin Params
    /\ \A l \in Lists : Number[l] \in Byte
    /\ DistinctBytes
    /\ \A f \in Params : Values[f] # {} /\ Layout[f].group \in Groups
    /\ \A g \in Groups :
          /\ Disjoint(g)
          /\ \A e \in Parts(g) : Field(e.index, e.size) /\ e.param \in Of(g)
          /\ g \in Lists => \A e \in Parts(g) : e.index >= 110
    /\ \A f \in ConfigParams : /\ Layout[f].index \in Nat
                               /\ \A v \in Values[f] : Fits(v, FirstByte(f), Layout[f].size)
    /\ \A f \in Params \ ConfigParams : Whole(f) \/ Split(f)
    /\ \A g \in Frames : Elements[g] \in Seq(Parts(g)) /\ Elements[g] # <<>>

VARIABLES
    cache,      \* configCentral and valuesCentral
    pending,    \* pendingQueues
    client,     \* where each RPC thread is and what it works on
    device,     \* parameter -> the value the device has
    mixed,      \* groups whose last packet at the device is of a call that overlapped
    calls,
    had,        \* the values a parameter has had
    stale       \* groups whose last packet may not show the cache

configurationVars == <<cache, pending, client, device, mixed, calls, had, stale>>

NoCall == [at |-> "Idle", given |-> <<>>, todo |-> {}, lists |-> {}, list |-> NoGroup,
           payload |-> <<>>, next |-> 1, overlapped |-> FALSE]
Doing(c, l) == client[c].at = l
Callers == {c \in Clients : ~Doing(c, "Idle")}

ConfigurationInit ==
    /\ cache = [f \in Params |-> CHOOSE v \in Values[f] : TRUE]
    /\ pending = <<>>
    /\ client = [c \in Clients |-> NoCall]
    /\ device = cache /\ mixed = {}
    /\ calls = 0
    /\ had = [f \in Params |-> {cache[f]}]
    /\ stale = {}

-----------------------------------------------------------------------------
(* putParamset and setValue                                                 *)

\* A call begins; it overlaps with those that run already.
Begin(c, given) ==
    /\ Doing(c, "Idle") /\ calls < Calls
    /\ calls' = calls + 1
    /\ client' = [d \in Clients |->
                    IF d = c THEN [NoCall EXCEPT !.at = "Set", !.given = given, !.todo = DOMAIN given,
                                                 !.lists = {Layout[f].group : f \in DOMAIN given},
                                                 !.overlapped = (Callers # {})]
                    ELSE IF d \in Callers THEN [client[d] EXCEPT !.overlapped = TRUE]
                    ELSE client[d]]
    /\ UNCHANGED <<cache, pending, device, mixed, had, stale>>

PutParamset(c, fs) ==
    \E given \in [fs -> UNION {Values[f] : f \in fs}] :
        (\A f \in fs : given[f] \in Values[f]) /\ Begin(c, given)
SetValue(c, f, v) == Begin(c, [g \in {f} |-> v])

\* convertToPacket, setBinaryData and saveParameter, one parameter at a time, in
\* any order (in the code by their names).
SetParameter(c, f) ==
    /\ Doing(c, "Set") /\ f \in client[c].todo
    /\ cache' = [cache EXCEPT ![f] = client[c].given[f]]
    /\ had' = [had EXCEPT ![f] = @ \union {client[c].given[f]}]
    /\ client' = [client EXCEPT ![c].todo = @ \ {f},
                                ![c].at = IF client[c].todo = {f} THEN "Start" ELSE "Set"]
    /\ UNCHANGED <<pending, device, mixed, calls, stale>>

\* A packet is started: for a list with zero and its number, the lists in any
\* order (in the code by their numbers).
ListHeader(l) == <<{}, Number[l]>>
GivenIn(given, l) == {f \in DOMAIN given : Layout[f].group = l}
StartList(c, l) ==
    /\ Doing(c, "Start") /\ l \in client[c].lists \intersect Lists
    /\ client' = [client EXCEPT ![c].at = "Given", ![c].list = l, ![c].lists = @ \ {l},
                                ![c].payload = ListHeader(l), ![c].todo = GivenIn(client[c].given, l)]
    /\ UNCHANGED <<cache, pending, device, mixed, calls, had, stale>>
\* A frame begins with a constant; constants have bits no parameter has.
FrameHeader == <<{}>>
StartFrame(c, g) ==
    /\ Doing(c, "Start") /\ g \in client[c].lists \intersect Frames
    /\ client' = [client EXCEPT ![c].at = "Element", ![c].list = g, ![c].lists = @ \ {g},
                                ![c].payload = FrameHeader, ![c].next = 1]
    /\ UNCHANGED <<cache, pending, device, mixed, calls, had, stale>>

AdjustedNot(f, v) == v
\* adjustBitPosition: a value of less than a byte goes to its bit.
Adjusted(f, v) ==
    IF Layout[f].size < 10 THEN <<Shl(v[Len(v)], BitOf(Layout[f].index))>> ELSE v
PutGiven(p, f, v) ==
    LET data == Adjusted(f, v)
    IN  SetPosition(p, Layout[f].index - BitOf(Layout[f].index) - (Len(data) - 1) * 10,
                    Len(data) * 10, data)

MissingNone(given, l) == {}
\* "Fill in all missing parameters": those with no given one in their byte.
Missing(given, l) ==
    {f \in Of(l) : \A g \in GivenIn(given, l) : IntIndex(g) # IntIndex(f)}

\* The parameters that were given are put first.
Put(c, f) ==
    /\ Doing(c, "Given") /\ f \in client[c].todo
    /\ LET last == client[c].todo = {f}
       IN  client' = [client EXCEPT
              ![c].payload = PutGiven(@, f, client[c].given[f]),
              ![c].todo = IF last THEN Missing(client[c].given, client[c].list) ELSE @ \ {f},
              ![c].at = IF last THEN "Fill" ELSE "Given"]
    /\ UNCHANGED <<cache, pending, device, mixed, calls, had, stale>>

\* A missing parameter is read from the cache.
Fill(c, f) ==
    /\ Doing(c, "Fill") /\ f \in client[c].todo
    /\ client' = [client EXCEPT
          ![c].payload = SetPosition(@, FirstByte(f), Layout[f].size, cache[f]),
          ![c].todo = @ \ {f}]
    /\ UNCHANGED <<cache, pending, device, mixed, calls, had, stale>>

\* ... and so is each element of a frame, the caller's own value included.
Element(c) ==
    LET k == client[c].next
        e == Elements[client[c].list][k]
    IN  /\ Doing(c, "Element")
        /\ client' = [client EXCEPT
              ![c].payload = WriteElement(@, e, cache[e.param]),
              ![c].next = k + 1,
              ![c].at = IF k = Len(Elements[client[c].list]) THEN "Remove" ELSE "Element"]
        /\ UNCHANGED <<cache, pending, device, mixed, calls, had, stale>>

\* setValue withdraws the queues of its parameter; the others keep their order.
\* The set has this one list as its element.
Others(c) == {i \in DOMAIN pending : pending[i].param \notin DOMAIN client[c].given}
InOrder(S) ==
    {at \in [1..Cardinality(S) -> S] : /\ \A i \in S : \E k \in DOMAIN at : at[k] = i
                                      /\ \A j, k \in DOMAIN at : j < k => at[j] < at[k]}
Remove(c) ==
    /\ Doing(c, "Remove")
    /\ \E at \in InOrder(Others(c)) : pending' = [k \in DOMAIN at |-> pending[at[k]]]
    /\ client' = [client EXCEPT ![c].at = "Push"]
    /\ UNCHANGED <<cache, device, mixed, calls, had, stale>>

\* The packet is queued, of a list when nothing is missing any more.
Push(c) ==
    LET g == client[c].list
    IN  /\ Doing(c, "Push") \/ (Doing(c, "Fill") /\ client[c].todo = {})
        /\ pending' = Append(pending,
               [group |-> g, payload |-> client[c].payload, overlapped |-> client[c].overlapped,
                param |-> IF g \in Lists THEN NoParam ELSE CHOOSE f \in DOMAIN client[c].given : TRUE])
        /\ stale' = IF client[c].overlapped THEN stale \union {g} ELSE stale \ {g}
        /\ client' = [client EXCEPT ![c] =
                         IF @.lists = {} THEN NoCall
                         ELSE [@ EXCEPT !.at = "Start", !.list = NoGroup, !.payload = <<>>]]
        /\ UNCHANGED <<cache, device, mixed, calls, had>>

-----------------------------------------------------------------------------
(* The device.  It reads a parameter where the description has it; its      *)
(* report repeats the bytes of the frame from position 10 on at 13.  The    *)
(* packet in front leaves the list when it is acknowledged.                 *)

Report(p) == [k \in 1..(Len(p) + 3) |-> IF k < 5 THEN {} ELSE p[k - 3]]
DeviceReads(p, f) ==
    IF f \in ConfigParams THEN GetPosition(p, FirstByte(f), Layout[f].size)
    ELSE ReadElement(Report(p), Layout[f].report)
Deliver ==
    /\ pending # <<>>
    /\ LET q == Head(pending)
       IN  /\ device' = [f \in Params |-> IF f \in Of(q.group) THEN DeviceReads(q.payload, f) ELSE device[f]]
           /\ mixed' = IF q.overlapped THEN mixed \union {q.group} ELSE mixed \ {q.group}
    /\ pending' \in {pending, Tail(pending)}
    /\ UNCHANGED <<cache, client, calls, had, stale>>

\* The process is killed: the parameters are in the database, the queues are
\* written on a shutdown only.
Kill ==
    /\ calls < Calls
    /\ stale' = stale \union {pending[i].group : i \in DOMAIN pending}
                      \union {Layout[f].group : f \in UNION {DOMAIN client[c].given : c \in Callers}}
    /\ pending' = <<>>
    /\ client' = [c \in Clients |-> NoCall]
    /\ UNCHANGED <<cache, device, mixed, calls, had>>

-----------------------------------------------------------------------------
Request(c) ==
    \/ \E fs \in (SUBSET ConfigParams) \ {{}} : PutParamset(c, fs)
    \/ \E f \in Params \ ConfigParams : \E v \in Values[f] : SetValue(c, f, v)
Build(c) ==
    \/ \E f \in Params : SetParameter(c, f) \/ Put(c, f) \/ Fill(c, f)
    \/ \E g \in Groups : StartList(c, g) \/ StartFrame(c, g)
    \/ Element(c) \/ Remove(c) \/ Push(c)

ConfigurationNext == (\E c \in Clients : Request(c) \/ Build(c)) \/ Deliver \/ Kill

ConfigurationSpec == ConfigurationInit /\ [][ConfigurationNext]_configurationVars

-----------------------------------------------------------------------------
\* Types; the cache shows a value that was set.
ConfigurationTypeOK ==
    /\ \A f \in Params : cache[f] \in had[f] /\ had[f] \subseteq Values[f]
    /\ pending \in Seq([group : Groups, payload : Seq(Byte), overlapped : BOOLEAN,
                        param : Params \union {NoParam}])
    /\ \A c \in Callers : /\ \A f \in DOMAIN client[c].given : client[c].given[f] \in Values[f]
                          /\ client[c].lists \subseteq Groups /\ client[c].overlapped \in BOOLEAN
    /\ mixed \subseteq Groups /\ calls \in 0..Calls /\ stale \subseteq Groups

\* Whatever calls run side by side and wherever the process is killed, every
\* parameter the device has is a value that parameter has had: no packet mixes
\* the bits of two parameters or leaves one out.  Only a value whose bits are
\* in two elements of a frame is read twice: the device gets a half of each of
\* two values when another call sets it in between.
ReadTwice(f) ==
    f \notin ConfigParams /\ \E d, e \in Parts(Layout[f].group) : d # e /\ d.param = f /\ e.param = f
NothingInvented ==
    \A f \in Params : \/ device[f] \in had[f]
                      \/ ReadTwice(f) /\ Layout[f].group \in mixed

\* At rest the device has what the cache shows, bit by bit, unless the last
\* call for that list overlapped with another one or was killed on its way; the
\* next call that does not overlap makes up for that.
InSync ==
    Callers = {} /\ pending = <<>> =>
        \A f \in Params : Layout[f].group \in stale \/ device[f] = cache[f]
=============================================================================
