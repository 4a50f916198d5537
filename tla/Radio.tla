--------------------------------- MODULE Radio ---------------------------------
(***************************************************************************)
(* The radio interface TICC1100.  sendPacket, called by any thread, takes  *)
(* _txMutex and starts a transmission; mainThread, which waits for changes *)
(* of the interrupt pin, releases the mutex when the transmission is over  *)
(* and holds it while a packet comes in.  startListening and stopListening *)
(* start and end that thread.  The chip and its pin are external: the pin  *)
(* is low from a packet's first bits to its end, in both directions.       *)
(***************************************************************************)
EXTENDS Naturals, FiniteSets

CONSTANTS
    Senders,   \* threads that call sendPacket
    Calls,     \* bound on their calls
    Events,    \* bound on the packets that come in and the errors of device and pin
    Stops      \* bound on the calls of stopListening and startListening

ASSUME RadioAssumption ==
    /\ Senders # {}
    /\ Calls \in Nat /\ Events \in Nat /\ Stops \in Nat

SenderLabels == {"Idle", "Pending", "Lock", "Check", "Commit", "Strobe", "Start", "Fill"}
MainLabels == {"None", "Loop", "Reopen", "Wait", "Open", "EnableRX", "OpenPin", "Low", "TryLock", "High",
               "EndSending", "Packet", "SRX", "Unlock", "OpenGPIO", "Exit"}
ControlLabels == {"Idle", "Join", "Close", "ClosePin", "Stopped", "Open", "EnableRX", "Run", "Launch"}
Chip == {"Idle", "RX", "Receiving", "Carrier", "TX", "Sending"}

VARIABLES
    txMutex,          \* _txMutex is locked, by whichever thread
    sending,          \* _sending
    sendingPending,   \* _sendingPending
    stopped,          \* _stopped
    stopCallback,     \* _stopCallbackThread
    device, gpio,     \* the two descriptors are open
    firstPacket,      \* _firstPacket
    send,             \* label of each sender
    main,             \* label of mainThread
    control,          \* label of the thread in startListening or stopListening
    starting,         \* which of the two
    chip,             \* its state
    edge,             \* the pin has changed since mainThread read it
    calls, events, stops,
    raced,            \* a sender took the mutex while a packet was coming in
    unheard,          \* a packet too short for MAX! has come in
    late              \* a sender passed its checks after mainThread had ended, before the next one's turn

flags == <<sending, sendingPending, stopped, stopCallback>>
descriptors == <<device, gpio, firstPacket>>
radio == <<chip, edge>>
bounds == <<calls, events, stops>>
history == <<raced, unheard, late>>
vars == <<txMutex, flags, descriptors, send, main, control, starting, radio, bounds, history>>

\* After the constructor.
Init ==
    /\ txMutex = FALSE /\ sending = FALSE /\ sendingPending = FALSE
    /\ stopped = TRUE /\ stopCallback = FALSE
    /\ device = FALSE /\ gpio = FALSE /\ firstPacket = TRUE
    /\ send = [s \in Senders |-> "Idle"]
    /\ main = "None" /\ control = "Idle" /\ starting = FALSE
    /\ chip = "Idle" /\ edge = FALSE
    /\ calls = 0 /\ events = 0 /\ stops = 0
    /\ raced = FALSE /\ unheard = FALSE /\ late = FALSE

Ready == device /\ gpio

-----------------------------------------------------------------------------
(* The chip and the interrupt pin                                           *)

Low == chip \in {"Receiving", "Sending"}

\* A command: it breaks off what the chip is doing, which raises the pin.
Strobe(state) ==
    IF device THEN chip' = state /\ edge' = (edge \/ (Low /\ gpio)) ELSE UNCHANGED radio

Change(state) ==
    /\ chip' = state /\ edge' = gpio
    /\ UNCHANGED <<txMutex, flags, descriptors, send, main, control, starting, calls, stops, history>>

\* A packet of some device begins; the chip idles when it is over (setConfig).
Begin == chip = "RX" /\ events < Events /\ events' = events + 1 /\ Change("Receiving")
BeginSending == chip = "TX" /\ Change("Sending") /\ UNCHANGED events
\* Packets last longer than a sender takes from the mutex to its first command.
End ==
    /\ Low /\ Change("Idle") /\ UNCHANGED events
    /\ \A s \in Senders : send[s] \notin {"Check", "Commit", "Strobe"}

-----------------------------------------------------------------------------
(* sendPacket                                                               *)

Goto(s, l) == send' = [send EXCEPT ![s] = l]

\* Without a device that listens the call returns at once.
Call(s) ==
    /\ send[s] = "Idle" /\ calls < Calls /\ Ready /\ ~stopped
    /\ calls' = calls + 1 /\ Goto(s, "Pending")
    /\ UNCHANGED <<txMutex, flags, descriptors, main, control, starting, radio, events, stops, history>>

Pending(s) ==
    /\ send[s] = "Pending" /\ Goto(s, "Lock") /\ sendingPending' = TRUE
    /\ UNCHANGED <<txMutex, sending, stopped, stopCallback, descriptors, main, control, starting, radio,
                   bounds, history>>

\* mainThread is not waiting for the pin, or the pin has something to tell: it
\* may take the end of something else for the end of this transmission.
Coming == main # "Loop" \/ ~Ready \/ edge \/ Low
Lock(s) ==
    /\ send[s] = "Lock" /\ ~txMutex
    /\ txMutex' = TRUE /\ Goto(s, "Check")
    /\ raced' = (raced \/ Coming)
    /\ UNCHANGED <<flags, descriptors, main, control, starting, radio, bounds, unheard, late>>

Refused == stopCallback \/ ~Ready \/ stopped
Check(s) ==
    /\ send[s] = "Check"
    /\ sendingPending' = FALSE
    /\ \/ Refused /\ txMutex' = FALSE /\ Goto(s, "Idle") /\ UNCHANGED <<sending, late>>
       \/ /\ ~Refused /\ Goto(s, "Commit") /\ UNCHANGED <<txMutex, sending>>
          /\ late' = (late \/ (main = "None" /\ control # "Launch"))
    /\ UNCHANGED <<stopped, stopCallback, descriptors, main, control, starting, radio, bounds, raced, unheard>>
Commit(s) ==
    /\ send[s] = "Commit" /\ Goto(s, "Strobe") /\ sending' = TRUE
    /\ UNCHANGED <<txMutex, sendingPending, stopped, stopCallback, descriptors, main, control, starting, radio,
                   bounds, history>>

SenderStepTo(s, from, to, locked) ==
    /\ send[s] = from /\ Goto(s, to) /\ txMutex' = locked
    /\ UNCHANGED <<flags, descriptors, main, control, starting, bounds, unheard, late>>

SenderStep(s, from, to) == SenderStepTo(s, from, to, txMutex)

\* SIDLE and SFTX.
StrobeIdle(s) == SenderStep(s, "Strobe", "Start") /\ Strobe("Idle") /\ raced' = (raced \/ Coming)

\* The packet decides: a burst is a second of carrier before the packet.  The mutex stays locked.
StartBurst(s) == SenderStep(s, "Start", "Fill") /\ UNCHANGED raced /\ Strobe("Carrier")
StartPlainUnlocked(s) ==
    SenderStepTo(s, "Start", "Idle", FALSE) /\ UNCHANGED raced /\ Strobe("TX")
StartPlain(s) == SenderStep(s, "Start", "Idle") /\ UNCHANGED raced /\ Strobe("TX")
Fill(s) ==
    /\ SenderStep(s, "Fill", "Idle") /\ UNCHANGED raced
    /\ chip' = IF device /\ chip = "Carrier" THEN "TX" ELSE chip
    /\ UNCHANGED edge

Send(s) == Pending(s) \/ Lock(s) \/ Check(s) \/ Commit(s) \/ StrobeIdle(s) \/ StartBurst(s) \/ StartPlain(s) \/ Fill(s)

-----------------------------------------------------------------------------
(* mainThread                                                               *)

Inside == {s \in Senders : send[s] \in {"Commit", "Strobe", "Start", "Fill"}}

MainGoto(from, to) ==
    /\ main = from /\ main' = to
    /\ UNCHANGED <<send, control, starting, bounds>>

LoopEnds == MainGoto("Loop", "Exit") /\ stopCallback /\ UNCHANGED <<txMutex, flags, descriptors, radio, history>>

\* "Trying to reconnect": nobody may send, a transmission under way has two
\* seconds, which is longer than sendPacket takes.
Reconnect ==
    /\ MainGoto("Loop", IF sending THEN "Wait" ELSE "Reopen")
    /\ ~stopCallback /\ ~stopped /\ ~Ready /\ stopped' = TRUE
    /\ UNCHANGED <<txMutex, sending, sendingPending, stopCallback, descriptors, radio, history>>
Wait ==
    /\ MainGoto("Wait", "Reopen") /\ Inside = {} /\ sending' = FALSE
    /\ UNCHANGED <<txMutex, sendingPending, stopped, stopCallback, descriptors, radio, history>>
Reopen ==
    /\ MainGoto("Reopen", "Open") /\ txMutex' = FALSE /\ gpio' = FALSE
    /\ UNCHANGED <<flags, device, firstPacket, radio, history>>
\* poll returns with a change of the pin, and its value is read.  (When read gives
\* nothing, the loop goes round and the change is still to be read.)
Poll ==
    /\ MainGoto("Loop", IF Low THEN "Low" ELSE "High")
    /\ ~stopCallback /\ ~stopped /\ Ready /\ edge /\ edge' = FALSE
    /\ UNCHANGED <<txMutex, flags, descriptors, chip, history>>

\* "We are receiving, don't send now."
LowPin ==
    /\ MainGoto("Low", IF sending THEN "Loop" ELSE "TryLock")
    /\ UNCHANGED <<txMutex, flags, descriptors, radio, history>>
TryLock ==
    /\ MainGoto("TryLock", "Loop") /\ txMutex' = TRUE
    /\ UNCHANGED <<flags, descriptors, radio, history>>

HighPin ==
    /\ MainGoto("High", IF sending THEN "EndSending" ELSE "Packet")
    /\ UNCHANGED <<txMutex, flags, descriptors, radio, history>>

EndSendingIn(state) ==
    /\ MainGoto("EndSending", "Unlock") /\ Strobe(state) /\ sending' = FALSE /\ unheard' = FALSE
    /\ UNCHANGED <<txMutex, sendingPending, stopped, stopCallback, descriptors, raced, late>>
EndSendingIdle == EndSendingIn("Idle")
EndSending == EndSendingIn("RX")

\* A packet that is too large closes the device; after one that is too small the
\* chip is left alone; after any other it listens again unless a sender waits.
TooLarge ==
    /\ MainGoto("Packet", "Loop") /\ ~firstPacket /\ device' = FALSE /\ txMutex' = FALSE
    /\ UNCHANGED <<flags, gpio, firstPacket, radio, history>>
TooSmall ==
    /\ MainGoto("Packet", "Loop") /\ ~firstPacket /\ txMutex' = FALSE /\ unheard' = TRUE
    /\ UNCHANGED <<flags, descriptors, radio, raced, late>>
ReceivedIf(listen, good) ==
    /\ MainGoto("Packet", "Unlock")
    /\ firstPacket' = (firstPacket /\ ~good)
    /\ IF listen THEN Strobe("RX") /\ unheard' = FALSE ELSE UNCHANGED <<radio, unheard>>
    /\ UNCHANGED <<txMutex, flags, device, gpio, raced, late>>
ReceivedIfGood(good) == ReceivedIf(~sendingPending /\ good, good)
Received(good) == ReceivedIf(~sendingPending, good)

\* "Packet sent or received, now we can send again."
UnlockTo(locked) ==
    /\ MainGoto("Unlock", "Loop") /\ txMutex' = locked
    /\ UNCHANGED <<flags, descriptors, radio, history>>
UnlockNever == UnlockTo(txMutex)
Unlock == UnlockTo(FALSE)

\* poll fails: the pin is opened again after a second.  Or there is a change, but
\* lseek fails: the exception unlocks the mutex and the pin stays open.
PollError ==
    /\ main = "Loop" /\ ~stopCallback /\ ~stopped /\ Ready
    /\ events < Events /\ events' = events + 1
    /\ txMutex' = FALSE /\ raced' = (raced \/ txMutex)
    /\ \/ main' = "OpenGPIO" /\ gpio' = FALSE /\ edge' = FALSE
       \/ edge /\ UNCHANGED <<main, gpio, edge>>
    /\ UNCHANGED <<flags, device, firstPacket, send, control, starting, chip, calls, stops, unheard, late>>
OpenGPIO ==
    /\ MainGoto("OpenGPIO", "Loop") /\ gpio' \in BOOLEAN /\ edge' = gpio'
    /\ UNCHANGED <<txMutex, flags, device, firstPacket, chip, history>>

ExitTo(locked) ==
    /\ MainGoto("Exit", "None") /\ txMutex' = locked
    /\ raced' = (raced \/ Inside # {})
    /\ UNCHANGED <<flags, descriptors, radio, unheard, late>>
ExitLocked == ExitTo(txMutex)
Exit == ExitTo(FALSE)

-----------------------------------------------------------------------------
(* initDevice, by mainThread or by startListening: the device is opened and  *)
(* reset or that fails, enableRX takes the mutex, the pin is opened.  If it  *)
(* is the reset that fails, the pin is opened all the same.  The first poll  *)
(* of an open pin returns at once.                                           *)

\* Resetting the chip takes longer than a sender from the mutex to its checks.
OpenDevice ==
    /\ \A s \in Senders : send[s] # "Check"
    /\ \/ device' = TRUE /\ chip' = "Idle" /\ UNCHANGED events
       \/ device' = FALSE /\ UNCHANGED chip /\ events < Events /\ events' = events + 1
    /\ UNCHANGED <<txMutex, flags, gpio, firstPacket, send, starting, edge, calls, stops, history>>
EnableRX ==
    /\ ~txMutex /\ chip' = "RX" /\ unheard' = FALSE
    /\ UNCHANGED <<txMutex, flags, descriptors, send, starting, edge, bounds, raced, late>>
OpenPin ==
    /\ gpio' \in BOOLEAN /\ edge' = gpio' /\ stopped' = FALSE
    /\ IF device /\ ~gpio' THEN events < Events /\ events' = events + 1 ELSE UNCHANGED events
    /\ UNCHANGED <<txMutex, sending, sendingPending, device, send, chip, calls, stops, history>>

MainInit ==
    /\ UNCHANGED control
    /\ \/ main = "Open" /\ OpenDevice /\ main' = IF device' THEN "EnableRX" ELSE "OpenPin"
       \/ main = "EnableRX" /\ EnableRX /\ main' = "OpenPin"
       \/ main = "OpenPin" /\ OpenPin /\ main' = "Loop" /\ UNCHANGED <<stopCallback, starting, firstPacket>>

\* From here on sendPacket works, and then mainThread starts.
Launch ==
    /\ control = "Launch" /\ control' = "Idle"
    /\ main' = "Loop" /\ stopCallback' = FALSE /\ starting' = FALSE /\ firstPacket' = TRUE
    /\ UNCHANGED <<txMutex, sending, sendingPending, stopped, device, gpio, send, radio, bounds, history>>
ControlInit ==
    /\ \/ control = "Open" /\ OpenDevice /\ control' = (IF device' THEN "EnableRX" ELSE "Run") /\ UNCHANGED main
       \/ control = "EnableRX" /\ EnableRX /\ control' = "Run" /\ UNCHANGED main
       \/ control = "Run" /\ OpenPin /\ control' = "Launch" /\ UNCHANGED <<main, stopCallback, starting, firstPacket>>
       \/ Launch

-----------------------------------------------------------------------------
(* startListening and stopListening                                         *)

ControlGoto(from, to) ==
    /\ control = from /\ control' = to
    /\ UNCHANGED <<txMutex, sending, sendingPending, send, main, calls, events, history>>

CallControl(start) ==
    /\ ControlGoto("Idle", "Join") /\ stops < Stops /\ stops' = stops + 1
    /\ start # (main # "None") \* the callers alternate
    /\ starting' = start /\ stopCallback' = TRUE
    /\ UNCHANGED <<stopped, descriptors, radio>>
Join ==
    /\ ControlGoto("Join", "Close") /\ main = "None" /\ stopCallback' = FALSE
    /\ UNCHANGED <<stopped, descriptors, radio, starting, stops>>
Close ==
    /\ ControlGoto("Close", "ClosePin") /\ device' = FALSE
    /\ UNCHANGED <<stopped, stopCallback, gpio, firstPacket, radio, starting, stops>>
ClosePin ==
    /\ ControlGoto("ClosePin", "Stopped") /\ gpio' = FALSE /\ edge' = FALSE
    /\ UNCHANGED <<stopped, stopCallback, device, firstPacket, chip, starting, stops>>
Stopped ==
    /\ ControlGoto("Stopped", IF starting THEN "Open" ELSE "Idle") /\ stopped' = TRUE
    /\ UNCHANGED <<stopCallback, descriptors, radio, starting, stops>>

-----------------------------------------------------------------------------
Main == \/ LoopEnds \/ Reconnect \/ Wait \/ Reopen \/ Poll \/ LowPin \/ TryLock \/ HighPin \/ EndSending
        \/ TooLarge \/ TooSmall \/ (\E good \in BOOLEAN : Received(good)) \/ Unlock \/ OpenGPIO \/ Exit \/ MainInit
Control == Join \/ Close \/ ClosePin \/ Stopped \/ ControlInit

Next ==
    \/ \E s \in Senders : Send(s) \/ Call(s)
    \/ Main \/ PollError
    \/ Control \/ \E start \in BOOLEAN : CallControl(start)
    \/ Begin \/ BeginSending \/ End

Spec == Init /\ [][Next]_vars

\* Every thread in a call runs on, and what the chip has begun it ends.
FairSpec ==
    /\ Spec
    /\ \A s \in Senders : WF_vars(Send(s))
    /\ WF_vars(Main) /\ WF_vars(Control)
    /\ WF_vars(BeginSending) /\ WF_vars(End)

-----------------------------------------------------------------------------
(* Properties                                                               *)

\* Types; a sender that announced itself has not passed its checks.
TypeOK ==
    /\ \A v \in {txMutex, sending, sendingPending, stopped, stopCallback, device, gpio, firstPacket, starting, edge} : v \in BOOLEAN
    /\ send \in [Senders -> SenderLabels]
    /\ main \in MainLabels /\ control \in ControlLabels
    /\ chip \in Chip
    /\ sendingPending => \E s \in Senders : send[s] \in {"Lock", "Check"}
    /\ calls \in 0..Calls /\ events \in 0..Events /\ stops \in 0..Stops

\* One transmission at a time, from its first command to the end of its packet,
\* unless the mutex was released for something else in between.
OneTransmission ==
    ~raced /\ ~late =>
        /\ Cardinality(Inside) <= 1
        /\ chip \in {"TX", "Sending"} => Inside = {} /\ main # "EndSending"

\* While the mutex is locked mainThread exists, or is just going to, as it is the
\* one to unlock it ("Unlocking of _txMutex takes place in mainThread"), or a sender
\* is still to find that it must unlock it itself.
MainUnlocks ==
    txMutex /\ ~late => main # "None" \/ control = "Launch" \/ \E s \in Senders : send[s] = "Check"

\* When nothing is under way the radio listens, unless the last packet was too short.
Listens ==
    /\ Ready /\ main = "Loop" /\ ~stopCallback /\ ~edge /\ ~unheard
    /\ \A s \in Senders : send[s] = "Idle"
    => chip # "Idle"

\* sendPacket returns, although the mutex is released by another thread, and so
\* do startListening and stopListening.
CallsReturn ==
    /\ \A s \in Senders : send[s] # "Idle" ~> send[s] = "Idle" \/ late
    /\ control # "Idle" ~> control = "Idle" \/ late
=============================================================================
