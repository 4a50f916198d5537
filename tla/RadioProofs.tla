------------------------------ MODULE RadioProofs ------------------------------
(* Proofs about Radio for any number of senders, calls, packets, errors and    *)
(* restarts.                                                                   *)
EXTENDS Radio, FiniteSetTheorems, TLAPS

Types ==
    /\ send \in [Senders -> SenderLabels]
    /\ txMutex \in BOOLEAN /\ edge \in BOOLEAN /\ device \in BOOLEAN /\ gpio \in BOOLEAN
    /\ sending \in BOOLEAN /\ raced \in BOOLEAN /\ late \in BOOLEAN

-----------------------------------------------------------------------------
(* Who is where                                                              *)

\* startListening and stopListening go on when mainThread has ended.
Joined == control \notin {"Idle", "Join"} => main = "None"

\* The thread that startListening is about to start finds the interface open and
\* the pin's first value to be read.
Prepared == control = "Launch" => ~stopped /\ (gpio => edge)

\* _stopped is for a thread that has ended or opens the device again.
StoppedOutside ==
    stopped => main \in {"None", "Wait", "Reopen", "Open", "EnableRX", "OpenPin"}

\* _sendingPending is set for somebody.
Announced == sendingPending => \E s \in Senders : send[s] \in {"Lock", "Check"}

\* A chip that idles has something to tell, or somebody will give it a command.
Watching == main \in {"Loop", "Low", "TryLock", "Unlock"} /\ ~stopCallback
Woken ==
    Watching /\ Ready /\ chip = "Idle" =>
        edge \/ unheard \/ \E s \in Senders : send[s] \in {"Lock", "Check", "Commit", "Strobe", "Start"}

Places == Joined /\ Prepared /\ StoppedOutside /\ Announced /\ Woken

-----------------------------------------------------------------------------
(* Who transmits                                                             *)

Busy == {s \in Senders : send[s] \in {"Check", "Commit", "Strobe", "Start", "Fill"}}
OnAir == chip \in {"TX", "Sending"}
Orderly == ~raced /\ ~late

\* mainThread is waiting for the pin and has nothing to unlock.
Undisturbed == main = "Loop" /\ Ready /\ txMutex
OneBusy == \A s, t \in Busy : s = t

\* Before its first command a sender may find that a packet comes in ...
Before ==
    \A s \in Senders : send[s] \in {"Check", "Commit", "Strobe"} =>
        /\ ~OnAir
        /\ \/ Undisturbed /\ (edge => Low)
           \/ main \in {"Low", "TryLock"} /\ Ready /\ txMutex /\ Low /\ ~edge
           \/ main = "Exit"
           \/ main = "None" /\ send[s] = "Check"
\* ... after it nothing comes in.
After ==
    \A s \in Senders : send[s] \in {"Start", "Fill"} =>
        /\ chip = IF send[s] = "Start" THEN "Idle" ELSE "Carrier"
        /\ ~edge
        /\ Ready /\ (Undisturbed \/ main = "Exit")
Flagged == \A s \in Senders : send[s] \in {"Strobe", "Start", "Fill"} => sending

\* While it is on the air mainThread leaves the transmission alone, or the
\* interface is closed.
Transmission ==
    OnAir =>
        /\ Busy = {}
        /\ \/ Undisturbed /\ sending /\ (edge => Low)
           \/ main = "Low" /\ Ready /\ txMutex /\ sending /\ Low /\ ~edge
           \/ main \in {"Exit", "None"}
           \/ main \in {"Loop", "Wait", "Reopen", "Open", "OpenPin"} /\ ~device

\* A new thread finds neither a sender nor a transmission of the old one.
Restart ==
    /\ control \in {"EnableRX", "Run", "Launch"} => Busy = {}
    /\ control = "EnableRX" => ~OnAir
    /\ control \in {"Run", "Launch"} /\ OnAir => ~device

Claims == OneBusy /\ Before /\ After /\ Flagged /\ Transmission /\ Restart
Air == Orderly => Claims

-----------------------------------------------------------------------------
LEMMA NextTypes ==
  ASSUME Types, [Next]_vars
  PROVE  Types'
<1> USE DEF Types, SenderLabels, flags, descriptors, radio, history
<1>1. ASSUME NEW s \in Senders, Send(s) \/ Call(s) PROVE Types'
  BY <1>1 DEF Send, Call, Pending, Lock, Check, Commit, StrobeIdle, StartBurst, StartPlain, Fill, Goto,
              SenderStep, SenderStepTo, Strobe
<1>2. CASE Main \/ PollError
  BY <1>2 DEF Main, PollError, MainGoto, LoopEnds, Reconnect, Wait, Reopen, Poll, LowPin, TryLock,
              HighPin, EndSending, EndSendingIn, TooLarge, TooSmall, Received, ReceivedIf, Unlock, UnlockTo,
              OpenGPIO, Exit, ExitTo, MainInit, OpenDevice, EnableRX, OpenPin, Strobe
<1>3. CASE Control \/ \E start \in BOOLEAN : CallControl(start)
  BY <1>3 DEF Control, CallControl, ControlGoto, Join, Close, ClosePin, Stopped, ControlInit, Launch, OpenDevice,
              EnableRX, OpenPin
<1>4. CASE Begin \/ BeginSending \/ End \/ UNCHANGED vars
  BY <1>4 DEF Begin, BeginSending, End, Change, vars
<1> QED  BY <1>1, <1>2, <1>3, <1>4 DEF Next

-----------------------------------------------------------------------------
(* MainUnlocks                                                               *)

LEMMA NextMainUnlocks ==
  ASSUME Types, MainUnlocks, [Next]_vars
  PROVE  MainUnlocks'
<1> USE DEF MainUnlocks, Types, SenderLabels, flags, descriptors, radio, history
<1>1. ASSUME NEW s \in Senders, Check(s) PROVE MainUnlocks'
  BY <1>1 DEF Check, Goto
<1>2. ASSUME NEW s \in Senders, Lock(s) PROVE MainUnlocks'
  BY <1>2 DEF Lock, Goto
<1>3. ASSUME NEW s \in Senders,
             Call(s) \/ Pending(s) \/ Commit(s) \/ StrobeIdle(s) \/ StartBurst(s) \/ StartPlain(s) \/ Fill(s)
      PROVE  MainUnlocks'
  <2>1. /\ UNCHANGED <<txMutex, late, main, control>> /\ send[s] # "Check"
        /\ \E l \in SenderLabels : Goto(s, l)
    BY <1>3 DEF Call, Pending, Commit, StrobeIdle, StartBurst, StartPlain, Fill, SenderStep, SenderStepTo
  <2> QED  BY <2>1 DEF Goto
<1>4. CASE Main \/ PollError
  <2>1. UNCHANGED <<send, late, control>> /\ (main' = "None" => ~txMutex')
    BY <1>4 DEF Main, PollError, MainGoto, LoopEnds, Reconnect, Wait, Reopen, Poll, LowPin, TryLock,
              HighPin, EndSending, EndSendingIn, TooLarge, TooSmall, Received, ReceivedIf, Unlock, UnlockTo,
              OpenGPIO, Exit, ExitTo, MainInit, OpenDevice, EnableRX, OpenPin
  <2> QED  BY <2>1
<1>5. CASE Control \/ \E start \in BOOLEAN : CallControl(start)
  <2>1. /\ UNCHANGED <<send, late, txMutex>> /\ main' \in {main, "Loop"}
        /\ control = "Launch" => main' = "Loop"
    BY <1>5 DEF Control, CallControl, ControlGoto, Join, Close, ClosePin, Stopped, ControlInit, Launch, OpenDevice,
              EnableRX, OpenPin
  <2> QED  BY <2>1
<1>6. CASE Begin \/ BeginSending \/ End \/ UNCHANGED vars
  BY <1>6 DEF Begin, BeginSending, End, Change, vars
<1> QED  BY <1>1, <1>2, <1>3, <1>4, <1>5, <1>6 DEF Next, Send

\* No thread that ends leaves _txMutex locked behind: while it is locked mainThread,
\* which is to unlock it, exists or is just being started, or a sender is still at
\* the checks after which it unlocks it itself; until a sender passes its checks
\* when mainThread has ended (late).  For any number of senders, restarts and errors.
THEOREM MutexIsReleased == Spec => []MainUnlocks
<1>1. Init => Types /\ MainUnlocks
  BY DEF Init, Types, SenderLabels, MainUnlocks
<1>2. Types /\ MainUnlocks /\ [Next]_vars => Types' /\ MainUnlocks'
  BY NextTypes, NextMainUnlocks
<1> QED  BY <1>1, <1>2, PTL DEF Spec

-----------------------------------------------------------------------------
(* Listens                                                                   *)

LEMMA NextJoined ==
  ASSUME Joined, [Next]_vars
  PROVE  Joined'
<1>1. ASSUME NEW s \in Senders, Send(s) \/ Call(s) PROVE UNCHANGED <<control, main>>
  BY <1>1 DEF Send, Call, Pending, Lock, Check, Commit, StrobeIdle, StartBurst, StartPlain, Fill,
              SenderStep, SenderStepTo
<1>2. CASE Main \/ PollError
  <2>1. UNCHANGED control /\ main # "None"
    BY <1>2 DEF Main, PollError, MainGoto, LoopEnds, Reconnect, Wait, Reopen, Poll, LowPin, TryLock,
              HighPin, EndSending, EndSendingIn, TooLarge, TooSmall, Received, ReceivedIf, Unlock, UnlockTo,
              OpenGPIO, Exit, ExitTo, MainInit
  <2> QED  BY <2>1 DEF Joined
<1>3. CASE Control \/ \E start \in BOOLEAN : CallControl(start)
  BY <1>3 DEF Control, CallControl, ControlGoto, Join, Close, ClosePin, Stopped, ControlInit, Launch, Joined
<1>4. CASE Begin \/ BeginSending \/ End \/ UNCHANGED vars
  BY <1>4 DEF Begin, BeginSending, End, Change, vars, Joined
<1> QED  BY <1>1, <1>2, <1>3, <1>4 DEF Next, Joined

LEMMA NextPrepared ==
  ASSUME Types, Joined, Prepared, [Next]_vars
  PROVE  Prepared'
<1> USE DEF Prepared, Types, flags, descriptors, radio
<1>1. ASSUME NEW s \in Senders, Send(s) \/ Call(s) PROVE Prepared'
  <2>1. UNCHANGED <<control, stopped, gpio>> /\ (edge => edge')
    BY <1>1 DEF Send, Call, Pending, Lock, Check, Commit, StrobeIdle, StartBurst, StartPlain, Fill,
                SenderStep, SenderStepTo, Strobe
  <2> QED  BY <2>1
<1>2. CASE Main \/ PollError
  <2>1. UNCHANGED control /\ main # "None"
    BY <1>2 DEF Main, PollError, MainGoto, LoopEnds, Reconnect, Wait, Reopen, Poll, LowPin, TryLock,
              HighPin, EndSending, EndSendingIn, TooLarge, TooSmall, Received, ReceivedIf, Unlock, UnlockTo,
              OpenGPIO, Exit, ExitTo, MainInit
  <2> QED  BY <2>1 DEF Joined
<1>3. CASE Control \/ \E start \in BOOLEAN : CallControl(start)
  BY <1>3 DEF Control, CallControl, ControlGoto, Join, Close, ClosePin, Stopped, ControlInit, Launch, OpenDevice,
              EnableRX, OpenPin
<1>4. CASE Begin \/ BeginSending \/ End \/ UNCHANGED vars
  BY <1>4 DEF Begin, BeginSending, End, Change, vars
<1> QED  BY <1>1, <1>2, <1>3, <1>4 DEF Next

LEMMA NextStoppedOutside ==
  ASSUME Joined, Prepared, StoppedOutside, [Next]_vars
  PROVE  StoppedOutside'
<1> USE DEF StoppedOutside, flags
<1>1. ASSUME NEW s \in Senders, Send(s) \/ Call(s) PROVE UNCHANGED <<stopped, main>>
  BY <1>1 DEF Send, Call, Pending, Lock, Check, Commit, StrobeIdle, StartBurst, StartPlain, Fill,
              SenderStep, SenderStepTo
<1>2. CASE Main \/ PollError
  BY <1>2 DEF Main, PollError, MainGoto, LoopEnds, Reconnect, Wait, Reopen, Poll, LowPin, TryLock,
              HighPin, EndSending, EndSendingIn, TooLarge, TooSmall, Received, ReceivedIf, Unlock, UnlockTo,
              OpenGPIO, Exit, ExitTo, MainInit, OpenDevice, EnableRX, OpenPin
<1>3. CASE Control \/ \E start \in BOOLEAN : CallControl(start)
  BY <1>3 DEF Control, CallControl, ControlGoto, Join, Close, ClosePin, Stopped, ControlInit, Launch, OpenDevice,
              EnableRX, OpenPin, Joined, Prepared
<1>4. CASE Begin \/ BeginSending \/ End \/ UNCHANGED vars
  BY <1>4 DEF Begin, BeginSending, End, Change, vars
<1> QED  BY <1>1, <1>2, <1>3, <1>4 DEF Next

LEMMA NextAnnounced ==
  ASSUME Types, Announced, [Next]_vars
  PROVE  Announced'
<1> USE DEF Announced, Types, SenderLabels, flags
<1>1. ASSUME NEW s \in Senders, Pending(s) \/ Lock(s) \/ Check(s) PROVE Announced'
  BY <1>1 DEF Pending, Lock, Check, Goto
<1>2. ASSUME NEW s \in Senders, Call(s) \/ Commit(s) \/ StrobeIdle(s) \/ StartBurst(s) \/ StartPlain(s) \/ Fill(s)
      PROVE  Announced'
  <2>1. /\ UNCHANGED sendingPending /\ send[s] \notin {"Lock", "Check"}
        /\ \E l \in SenderLabels : Goto(s, l)
    BY <1>2 DEF Call, Commit, StrobeIdle, StartBurst, StartPlain, Fill, SenderStep, SenderStepTo
  <2> QED  BY <2>1 DEF Goto
<1>3. CASE Main \/ PollError
  BY <1>3 DEF Main, PollError, MainGoto, LoopEnds, Reconnect, Wait, Reopen, Poll, LowPin, TryLock,
              HighPin, EndSending, EndSendingIn, TooLarge, TooSmall, Received, ReceivedIf, Unlock, UnlockTo,
              OpenGPIO, Exit, ExitTo, MainInit, OpenDevice, EnableRX, OpenPin
<1>4. CASE Control \/ \E start \in BOOLEAN : CallControl(start)
  BY <1>4 DEF Control, CallControl, ControlGoto, Join, Close, ClosePin, Stopped, ControlInit, Launch, OpenDevice,
              EnableRX, OpenPin
<1>5. CASE Begin \/ BeginSending \/ End \/ UNCHANGED vars
  BY <1>5 DEF Begin, BeginSending, End, Change, vars
<1> QED  BY <1>1, <1>2, <1>3, <1>4, <1>5 DEF Next, Send

LEMMA NextWoken ==
  ASSUME Types, Places, [Next]_vars
  PROVE  Woken'
<1> USE DEF Places, Woken, Watching, Ready, Types, SenderLabels, flags, descriptors, radio, history
<1>1. ASSUME NEW s \in Senders, Send(s) \/ Call(s) PROVE Woken'
  <2>1. /\ UNCHANGED <<main, stopCallback, device, gpio, unheard>>
        /\ \A t \in Senders : t # s => send'[t] = send[t]
    BY <1>1 DEF Send, Call, Pending, Lock, Check, Commit, StrobeIdle, StartBurst, StartPlain, Fill, SenderStep,
                SenderStepTo, Goto
  <2>2. CASE Call(s) \/ Pending(s) \/ Lock(s)
    BY <2>1, <2>2 DEF Call, Pending, Lock, Goto
  <2>3. CASE Check(s)
    BY <2>1, <2>3 DEF Check, Goto, Refused, StoppedOutside
  <2>4. CASE StrobeIdle(s) \/ Commit(s)
    BY <2>1, <2>4 DEF StrobeIdle, Commit, SenderStep, SenderStepTo, Goto
  <2>5. CASE StartBurst(s) \/ StartPlain(s)
    BY <2>1, <2>5 DEF StartBurst, StartPlain, SenderStep, SenderStepTo, Goto, Strobe
  <2>6. CASE Fill(s)
    BY <2>1, <2>6 DEF Fill, SenderStep, SenderStepTo, Goto
  <2> QED  BY <1>1, <2>2, <2>3, <2>4, <2>5, <2>6 DEF Send
<1>2. CASE LoopEnds \/ Reconnect \/ Wait \/ Reopen \/ Poll \/ LowPin \/ TryLock \/ HighPin \/ Unlock \/ Exit
  BY <1>2 DEF MainGoto, LoopEnds, Reconnect, Wait, Reopen, Poll, LowPin, TryLock, HighPin, Unlock, UnlockTo,
              Exit, ExitTo, Low
<1>3. CASE EndSending \/ TooLarge \/ TooSmall
  BY <1>3 DEF MainGoto, EndSending, EndSendingIn, TooLarge, TooSmall, Strobe
<1>4. ASSUME NEW good \in BOOLEAN, Received(good) PROVE Woken'
  BY <1>4 DEF MainGoto, Received, ReceivedIf, Strobe, Announced
<1>5. CASE MainInit \/ OpenGPIO \/ PollError
  BY <1>5 DEF MainGoto, MainInit, OpenDevice, EnableRX, OpenPin, OpenGPIO, PollError
<1>6. CASE Join \/ Close \/ ClosePin \/ Stopped \/ \E start \in BOOLEAN : CallControl(start)
  BY <1>6 DEF CallControl, ControlGoto, Join, Close, ClosePin, Stopped, Joined
<1>7. CASE ControlInit
  BY <1>7 DEF ControlInit, Launch, OpenDevice, EnableRX, OpenPin, Joined, Prepared
<1>8. CASE Begin \/ BeginSending \/ End
  BY <1>8 DEF Begin, BeginSending, End, Change
<1>9. CASE UNCHANGED vars
  BY <1>9 DEF vars
<1> QED  BY <1>1, <1>2, <1>3, <1>4, <1>5, <1>6, <1>7, <1>8, <1>9 DEF Next, Main, Control

\* The radio listens whenever mainThread waits for the pin and nobody sends:
\* every way to an idling chip leaves an edge to be read, a sender that goes on
\* or a packet that was too short.
THEOREM RadioListens == Spec => []Listens
<1>1. Init => Types /\ Places
  BY DEF Init, Types, SenderLabels, Places, Joined, Prepared, StoppedOutside, Announced, Woken, Watching
<1>2. Types /\ Places /\ [Next]_vars => Types' /\ Places'
  BY NextTypes, NextJoined, NextPrepared, NextStoppedOutside, NextAnnounced, NextWoken DEF Places
<1>3. Places => Listens
  BY DEF Places, Woken, Watching, Listens
<1> QED  BY <1>1, <1>2, <1>3, PTL DEF Spec

-----------------------------------------------------------------------------
(* OneTransmission                                                           *)

\* A thread's disorder is never forgotten.
LEMMA OrderlyBefore ==
  ASSUME Types, [Next]_vars, Orderly'
  PROVE  Orderly
<1> USE DEF Types, Orderly, history
<1>1. ASSUME NEW s \in Senders, Send(s) \/ Call(s) PROVE Orderly
  BY <1>1 DEF Send, Call, Pending, Lock, Check, Commit, StrobeIdle, StartBurst, StartPlain, Fill, SenderStep, SenderStepTo
<1>2. CASE Main \/ PollError
  BY <1>2 DEF Main, PollError, LoopEnds, Reconnect, Wait, Reopen, Poll, LowPin, TryLock,
              HighPin, EndSending, EndSendingIn, TooLarge, TooSmall, Received, ReceivedIf, Unlock, UnlockTo,
              OpenGPIO, Exit, ExitTo, MainInit, OpenDevice, EnableRX, OpenPin
<1>3. CASE Control \/ \E start \in BOOLEAN : CallControl(start)
  BY <1>3 DEF Control, CallControl, ControlGoto, Join, Close, ClosePin, Stopped, ControlInit, Launch, OpenDevice,
              EnableRX, OpenPin
<1>4. CASE Begin \/ BeginSending \/ End \/ UNCHANGED vars
  BY <1>4 DEF Begin, BeginSending, End, Change, vars
<1> QED  BY <1>1, <1>2, <1>3, <1>4 DEF Next

\* A sender that stays out of the section the mutex guards.
LEMMA OutsideKeeps ==
  ASSUME Types, Claims, NEW s \in Senders, Call(s) \/ Pending(s)
  PROVE  Claims'
<1>1. /\ UNCHANGED <<main, control, txMutex, sending, device, gpio, chip, edge>>
      /\ \A t \in Senders : send'[t] \in {"Check", "Commit", "Strobe", "Start", "Fill"} <=> t \in Busy
      /\ \A t \in Busy : send'[t] = send[t]
  BY DEF Types, Call, Pending, Goto, Busy, flags, descriptors, radio
<1>2. Busy' = Busy /\ Inside' = Inside
  BY <1>1 DEF Busy, Inside
<1> QED
  BY <1>1, <1>2 DEF Claims, OneBusy, Before, After, Flagged, Transmission, Restart, Undisturbed, Ready,
                    Low, OnAir, Busy

LEMMA LockKeeps ==
  ASSUME Types, Joined, Claims, NEW s \in Senders, Lock(s), Orderly'
  PROVE  Claims'
<1>1. /\ UNCHANGED <<main, control, sending, device, gpio, chip, edge>>
      /\ send' = [send EXCEPT ![s] = "Check"] /\ ~txMutex /\ txMutex'
      /\ main = "Loop" /\ Ready /\ ~edge /\ ~Low
  BY DEF Types, Lock, Goto, Coming, Orderly, flags, descriptors, radio
<1>2. ~OnAir
  BY <1>1 DEF Claims, Transmission, Undisturbed, OnAir, Ready
<1>3. Busy = {} /\ Inside = {}
  BY <1>1 DEF Claims, Before, After, Undisturbed, Busy, Inside
<1>4. Busy' = {s} /\ Inside' = {}
  BY <1>1, <1>3 DEF Busy, Inside, Types
<1> QED
  BY <1>1, <1>2, <1>3, <1>4 DEF Types, Joined, Claims, OneBusy, Before, After, Flagged, Transmission,
                    Restart, Undisturbed, Ready, Low, OnAir, Busy

LEMMA CheckKeeps ==
  ASSUME Types, Joined, Claims, NEW s \in Senders, Check(s), Orderly'
  PROVE  Claims'
<1>1. /\ UNCHANGED <<main, control, device, gpio, chip, edge>>
      /\ send[s] = "Check"
      /\ \/ send' = [send EXCEPT ![s] = "Idle"] /\ UNCHANGED sending
         \/ /\ send' = [send EXCEPT ![s] = "Commit"] /\ UNCHANGED <<txMutex, sending>>
            /\ main # "None" \/ control = "Launch"
  BY DEF Types, Check, Goto, Orderly, descriptors, radio
<1>2. Busy = {s} /\ Inside = {}
  BY <1>1 DEF Claims, OneBusy, Busy, Inside
<1>3. ~OnAir
  BY <1>1 DEF Claims, Before
<1>4. Busy' \subseteq {s} /\ Inside' \subseteq {s}
  BY <1>1, <1>2 DEF Busy, Inside, Types
<1> QED
  BY <1>1, <1>2, <1>3, <1>4 DEF Types, Claims, OneBusy, Before, After, Flagged, Transmission,
                    Restart, Undisturbed, Ready, Low, OnAir, Busy, Inside

LEMMA CommitKeeps ==
  ASSUME Types, Claims, NEW s \in Senders, Commit(s)
  PROVE  Claims'
<1>1. /\ UNCHANGED <<main, control, txMutex, device, gpio, chip, edge>>
      /\ send[s] = "Commit" /\ send' = [send EXCEPT ![s] = "Strobe"] /\ sending'
  BY DEF Types, Commit, Goto, descriptors, radio
<1>2. Busy' = Busy /\ Busy = {s} /\ ~OnAir
  BY <1>1 DEF Claims, OneBusy, Before, Busy, Types
<1> QED
  BY <1>1, <1>2 DEF Types, Claims, OneBusy, Before, After, Flagged, Transmission,
                    Restart, Undisturbed, Ready, Low, OnAir, Busy

LEMMA StrobeKeeps ==
  ASSUME Types, Joined, Claims, NEW s \in Senders, StrobeIdle(s), Orderly'
  PROVE  Claims'
<1>1. /\ UNCHANGED <<main, control, device, gpio, txMutex, sending>>
      /\ send[s] = "Strobe" /\ send' = [send EXCEPT ![s] = "Start"]
      /\ main = "Loop" /\ Ready /\ ~edge /\ ~Low
      /\ chip' = "Idle" /\ ~edge'
  BY DEF Types, StrobeIdle, SenderStep, SenderStepTo, Goto, Coming, Strobe, Orderly, flags, descriptors, Ready
<1>2. Busy = {s} /\ Inside = {s} /\ Undisturbed
  BY <1>1 DEF Claims, OneBusy, Before, Busy, Inside
<1>3. Busy' = {s} /\ Inside' = {s}
  BY <1>1, <1>2 DEF Busy, Inside, Types
<1> QED
  BY <1>1, <1>2, <1>3 DEF Types, Claims, OneBusy, Before, After, Flagged, Transmission,
                    Restart, Undisturbed, Ready, Low, OnAir, Busy

LEMMA StartKeeps ==
  ASSUME Types, Joined, Claims, NEW s \in Senders, StartBurst(s) \/ StartPlain(s) \/ Fill(s)
  PROVE  Claims'
<1>1. /\ UNCHANGED <<main, control, device, gpio, txMutex, sending>>
      /\ send[s] \in {"Start", "Fill"}
      /\ send' = [send EXCEPT ![s] = "Fill"] \/ send' = [send EXCEPT ![s] = "Idle"]
  BY DEF Types, StartBurst, StartPlain, Fill, SenderStep, SenderStepTo, Goto, flags, descriptors
<1>2. Busy = {s} /\ Inside = {s} /\ ~edge /\ sending /\ Ready /\ (Undisturbed \/ main = "Exit")
      /\ chip = IF send[s] = "Start" THEN "Idle" ELSE "Carrier"
  BY <1>1 DEF Claims, OneBusy, After, Flagged, Busy, Inside
<1>3. Busy' \subseteq {s} /\ Inside' \subseteq {s} /\ (send'[s] = "Idle" => Busy' = {})
  BY <1>1, <1>2 DEF Busy, Inside, Types
<1>4. control \in {"Idle", "Join"}
  BY <1>2 DEF Joined, Undisturbed
<1>5. ~edge' /\ chip' = IF send'[s] = "Fill" THEN "Carrier" ELSE "TX"
  BY <1>1, <1>2
     DEF StartBurst, StartPlain, Fill, SenderStep, SenderStepTo, Strobe, Low, Undisturbed, Ready, radio, Goto, Types
<1> QED
  BY <1>1, <1>2, <1>3, <1>4, <1>5 DEF Types, Claims, OneBusy, Before, After, Flagged, Transmission,
                    Restart, Undisturbed, Ready, Low, OnAir, Busy

\* Where mainThread is while there is a sender or a transmission.
LEMMA Quiet ==
  ASSUME Claims
  PROVE  /\ main \notin {"Loop", "Low", "TryLock", "Exit", "None"} => Busy = {}
         /\ main = "Loop" /\ ~Ready => Busy = {}
         /\ main = "Loop" /\ Busy # {} => txMutex
         /\ main = "None" => Inside = {}
         /\ main \in {"TryLock", "High", "EndSending", "Packet", "Unlock", "OpenGPIO", "EnableRX"} => ~OnAir
         /\ Inside \subseteq Busy
  BY DEF Claims, Before, After, Transmission, Undisturbed, Busy, Inside

\* Steps of mainThread at the pin, and of those that leave the senders alone.
LEMMA PinKeeps ==
  ASSUME Types, Claims, LoopEnds \/ Reconnect \/ Wait \/ Reopen \/ Poll \/ LowPin \/ TryLock \/ HighPin
  PROVE  Claims'
<1>1. UNCHANGED <<send, control, device, chip>>
  BY DEF MainGoto, LoopEnds, Reconnect, Wait, Reopen, Poll, LowPin, TryLock, HighPin, descriptors, radio
<1>2. Busy' = Busy /\ Inside' = Inside
  BY <1>1 DEF Busy, Inside
<1>3. OneBusy' /\ Restart'
  BY <1>1, <1>2 DEF Claims, OneBusy, Restart, OnAir
<1>4. Flagged'
  BY <1>1, <1>2 DEF Claims, Flagged, Inside, MainGoto, LoopEnds, Reconnect, Wait, Reopen, Poll, LowPin, TryLock, HighPin, flags
<1>5. ASSUME Reconnect \/ Wait \/ Reopen PROVE Before' /\ After' /\ Transmission'
  <2>1. Busy = {}
    BY <1>5, Quiet DEF Reconnect, Wait, Reopen, MainGoto
  <2>2. Before' /\ After'
    BY <1>2, <2>1 DEF Before, After, Busy
  <2>3. main' \in {"Wait", "Reopen", "Open"} /\ (main = "Loop" => ~Ready)
    BY <1>5 DEF Reconnect, Wait, Reopen, MainGoto
  <2>4. OnAir => ~device
    BY <1>5, <2>3 DEF Claims, Transmission, Reconnect, Wait, Reopen, MainGoto, Undisturbed
  <2> QED  BY <1>1, <1>2, <2>1, <2>2, <2>3, <2>4 DEF Transmission, OnAir
<1>6. ASSUME Poll \/ LoopEnds PROVE Before' /\ After' /\ Transmission'
  BY <1>1, <1>2, <1>6 DEF Claims, Before, After, Transmission, Poll, LoopEnds, MainGoto, Undisturbed, Ready,
                   Low, OnAir, flags, descriptors, radio
<1>7. ASSUME LowPin PROVE Before' /\ After' /\ Transmission'
  BY <1>1, <1>2, <1>7 DEF Claims, Before, After, Transmission, LowPin, MainGoto, Undisturbed, Ready,
                   Low, OnAir, flags, descriptors, radio
<1>8. ASSUME TryLock \/ HighPin PROVE Before' /\ After' /\ Transmission'
  BY <1>1, <1>2, <1>8 DEF Claims, Before, After, Transmission, TryLock, HighPin, MainGoto, Undisturbed, Ready,
                   Low, OnAir, flags, descriptors, radio, Types
<1> QED  BY <1>3, <1>4, <1>5, <1>6, <1>7, <1>8 DEF Claims

\* Whatever is done when nobody sends and nothing is on the air.
LEMMA IdleKeeps ==
  ASSUME Busy = {}, UNCHANGED send, ~OnAir'
  PROVE  Claims'
<1>1. Busy' = {} /\ Inside' = {}
  BY DEF Busy, Inside
<1> QED
  BY <1>1 DEF Claims, OneBusy, Before, After, Flagged, Transmission, Restart, OnAir, Busy

LEMMA PacketKeeps ==
  ASSUME Types, Joined, Claims,
         EndSending \/ TooLarge \/ TooSmall \/ (\E good \in BOOLEAN : Received(good)) \/ Unlock \/ OpenGPIO
  PROVE  Claims'
<1>1. /\ UNCHANGED <<send, control>> /\ main \in {"EndSending", "Packet", "Unlock", "OpenGPIO"}
      /\ chip' \in {chip, "RX"}
  BY DEF EndSending, EndSendingIn, TooLarge, TooSmall, Received, ReceivedIf, Unlock, UnlockTo, OpenGPIO,
         MainGoto, Strobe, radio
<1>2. Busy = {} /\ ~OnAir
  BY <1>1, Quiet
<1> QED  BY <1>1, <1>2, IdleKeeps DEF OnAir

\* The thread ends, or opens the pin again after an error.
LEMMA LeaveKeeps ==
  ASSUME Types, Joined, Claims, Exit \/ PollError, Orderly'
  PROVE  Claims'
<1>1. UNCHANGED <<send, control, chip>>
  BY DEF Exit, ExitTo, PollError, MainGoto, radio
<1>2. Busy' = Busy /\ Inside' = Inside
  BY <1>1 DEF Busy, Inside
<1>3. CASE Exit
  <2>1. Inside = {} /\ main' = "None" /\ main = "Exit"
    BY <1>3 DEF Exit, ExitTo, Orderly, MainGoto, Types
  <2>2. UNCHANGED <<sending, device, gpio, edge>>
    BY <1>3 DEF Exit, ExitTo, flags, descriptors, radio
  <2> QED
    BY <1>1, <1>2, <2>1, <2>2 DEF Claims, OneBusy, Before, After, Flagged, Transmission, Restart, OnAir, Inside
<1>4. CASE PollError
  <2>1. main = "Loop" /\ Ready /\ ~txMutex /\ chip' = chip
    BY <1>4 DEF PollError, Orderly, Types
  <2>2. Busy = {} /\ ~OnAir
    BY <2>1, Quiet DEF Claims, Transmission, Undisturbed, Ready
  <2> QED  BY <1>1, <2>1, <2>2, IdleKeeps DEF OnAir
<1> QED  BY <1>3, <1>4

LEMMA InitDeviceKeeps ==
  ASSUME Types, Joined, Claims, MainInit \/ ControlInit
  PROVE  Claims'
<1>1. UNCHANGED send
  BY DEF MainInit, ControlInit, Launch, OpenDevice, EnableRX, OpenPin
<1>2. Busy = {}
  <2>1. CASE MainInit
    BY <2>1, Quiet DEF MainInit
  <2>2. CASE ControlInit /\ control = "Open"
    <3>1. Inside = {} /\ \A s \in Senders : send[s] # "Check"
      BY <2>2, Quiet DEF ControlInit, Launch, OpenDevice, Joined
    <3> QED  BY <3>1 DEF Busy, Inside
  <2>3. CASE ControlInit /\ control # "Open"
    BY <2>3 DEF ControlInit, Launch, Claims, Restart
  <2> QED  BY <2>1, <2>2, <2>3
<1>3. CASE OnAir'
  <2>1. Busy' = {} /\ Inside' = {}
    BY <1>1, <1>2 DEF Busy, Inside
  <2>2. ~device'
    <3>1. CASE MainInit
      BY <1>3, <3>1 DEF MainInit, OpenDevice, EnableRX, OpenPin, Claims, Transmission, Undisturbed, OnAir
    <3>2. CASE ControlInit
      BY <1>3, <3>2 DEF ControlInit, Launch, OpenDevice, EnableRX, OpenPin, Claims, Restart, OnAir, descriptors, radio
    <3> QED  BY <3>1, <3>2
  <2>3. /\ main' \in {"None", "Loop", "OpenPin"} /\ control' # "EnableRX"
    BY <1>3, <2>2 DEF MainInit, ControlInit, Launch, OpenDevice, EnableRX, OpenPin, Joined, OnAir
  <2> QED
    BY <2>1, <2>2, <2>3 DEF Claims, OneBusy, Before, After, Flagged, Transmission, Restart, Busy
<1> QED  BY <1>1, <1>2, <1>3, IdleKeeps

LEMMA ControlKeeps ==
  ASSUME Types, Joined, Claims,
         Join \/ Close \/ ClosePin \/ Stopped \/ \E start \in BOOLEAN : CallControl(start)
  PROVE  Claims'
<1>1. /\ UNCHANGED <<send, main, chip, txMutex, sending>> /\ control' \notin {"EnableRX", "Run", "Launch"}
      /\ main = "None" \/ UNCHANGED <<device, gpio, edge>>
  BY DEF Join, Close, ClosePin, Stopped, CallControl, ControlGoto, Joined, descriptors, radio
<1>2. Busy' = Busy /\ Inside' = Inside
  BY <1>1 DEF Busy, Inside
<1> QED
  BY <1>1, <1>2 DEF Claims, OneBusy, Before, After, Flagged, Transmission, Restart, Undisturbed, Ready,
                    Low, OnAir

LEMMA ChipKeeps ==
  ASSUME Types, Claims, Begin \/ BeginSending \/ End \/ UNCHANGED vars
  PROVE  Claims'
<1>1. UNCHANGED <<send, main, control, txMutex, sending, device, gpio>>
  BY DEF Begin, BeginSending, End, Change, flags, descriptors, vars
<1>2. Busy' = Busy /\ Inside' = Inside
  BY <1>1 DEF Busy, Inside
<1>3. OneBusy' /\ Flagged'
  BY <1>1, <1>2 DEF Claims, OneBusy, Flagged
<1>4. CASE Begin \/ BeginSending
  <2>1. (chip = "RX" /\ chip' = "Receiving") \/ (chip = "TX" /\ chip' = "Sending")
    BY <1>4 DEF Begin, BeginSending, Change
  <2>2. After'
    BY <1>1, <2>1 DEF Claims, After
  <2>3. Before'
    <3>1. CASE \A s \in Senders : send[s] \notin {"Check", "Commit", "Strobe"}
      BY <1>1, <3>1 DEF Before
    <3>2. CASE chip = "RX" /\ chip' = "Receiving"
      BY <1>1, <3>2 DEF Claims, Before, Undisturbed, Ready, Low, OnAir
    <3> QED  BY <2>1, <3>1, <3>2 DEF Claims, Before, OnAir
  <2>4. Transmission' /\ Restart'
    BY <1>1, <1>2, <2>1 DEF Claims, Transmission, Restart, Undisturbed, Ready, Low, OnAir
  <2> QED  BY <1>3, <2>2, <2>3, <2>4 DEF Claims
<1>5. CASE End
  <2>1. chip' = "Idle" /\ Low /\ \A s \in Senders : send[s] \notin {"Check", "Commit", "Strobe"}
    BY <1>5 DEF End, Change
  <2>2. Busy = {}
    BY <2>1 DEF Claims, After, Busy, Low
  <2> QED  BY <1>1, <2>1, <2>2, IdleKeeps DEF OnAir
<1>6. CASE UNCHANGED vars
  BY <1>2, <1>6 DEF Claims, OneBusy, Before, After, Flagged, Transmission, Restart, Undisturbed, Ready,
                    Low, OnAir, vars, flags, descriptors, radio
<1> QED  BY <1>4, <1>5, <1>6

LEMMA NextAir ==
  ASSUME Types, Joined, Air, [Next]_vars
  PROVE  Air'
<1> SUFFICES ASSUME Orderly' PROVE Claims'
  BY DEF Air
<1>1. Claims
  BY OrderlyBefore DEF Air
<1>2. ASSUME NEW s \in Senders, Send(s) \/ Call(s) PROVE Claims'
  BY <1>1, <1>2, OutsideKeeps, LockKeeps, CheckKeeps, CommitKeeps, StrobeKeeps, StartKeeps DEF Send
<1>3. ASSUME Main \/ PollError PROVE Claims'
  BY <1>1, <1>3, PinKeeps, PacketKeeps, LeaveKeeps, InitDeviceKeeps DEF Main
<1>4. ASSUME Control \/ \E start \in BOOLEAN : CallControl(start) PROVE Claims'
  BY <1>1, <1>4, ControlKeeps, InitDeviceKeeps DEF Control
<1>5. ASSUME Begin \/ BeginSending \/ End \/ UNCHANGED vars PROVE Claims'
  BY <1>1, <1>5, ChipKeeps
<1> QED  BY <1>2, <1>3, <1>4, <1>5 DEF Next

\* As long as no sender got the mutex, or kept it, while mainThread had something
\* else to unlock it for (raced) and none passed its checks after mainThread ended
\* (late), there is one transmission at a time, from the first command sendPacket
\* gives the chip to the end of the packet.
THEOREM TransmissionsAlone == Spec => []OneTransmission
<1>1. Init => Types /\ Joined /\ Air
  BY DEF Init, Types, SenderLabels, Joined, Air, Claims, OneBusy, Before, After, Flagged, Transmission,
         Restart, Busy, Inside, OnAir
<1>2. Types /\ Joined /\ Air /\ [Next]_vars => Types' /\ Joined' /\ Air'
  BY NextTypes, NextJoined, NextAir
<1>3. Types /\ Air => OneTransmission
  <2> SUFFICES ASSUME Types, Claims PROVE Cardinality(Inside) <= 1 /\ (OnAir => Inside = {} /\ main # "EndSending")
    BY DEF Air, Orderly, OneTransmission, OnAir
  <2>1. Cardinality(Inside) <= 1
    <3>1. \A s, t \in Inside : s = t
      BY DEF Claims, OneBusy, Inside, Busy
    <3>2. CASE Inside = {}
      BY <3>2, FS_EmptySet
    <3>3. CASE \E s : Inside = {s}
      BY <3>3, FS_Singleton
    <3> QED  BY <3>1, <3>2, <3>3
  <2>2. OnAir => Inside = {} /\ main # "EndSending"
    BY Quiet DEF Claims, Transmission
  <2> QED  BY <2>1, <2>2
<1> QED  BY <1>1, <1>2, <1>3, PTL DEF Spec
=============================================================================
