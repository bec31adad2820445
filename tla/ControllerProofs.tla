-------------------------- MODULE ControllerProofs --------------------------
(***************************************************************************)
(* Proofs about Controller for any number of notification threads: types;  *)
(* that the server never stays up where the button or the network thread   *)
(* would not stop it, however the threads cross; and, while nothing has    *)
(* crossed and no stopUsb has failed, that the storage is shared only as   *)
(* long as somebody would end it, and never together with the FTP server.  *)
(***************************************************************************)
EXTENDS Controller, SequenceTheorems, TLAPS

LEMMA LabelsAreLabels ==
    ASSUME NEW t \in Threads
    PROVE  /\ Labels(t) \subseteq UiLabels \cup NetLabels
           /\ Returns(t) \subseteq Labels(t)
           /\ Returns(t) \subseteq UiReturns \cup NetReturns
           /\ "idle" \in Labels(t)
  BY DEF Labels, Returns, UiLabels, NetLabels, RefreshLabels, UiReturns, NetReturns,
         StopSteps, StartSteps, UsbSteps

-----------------------------------------------------------------------------
\* The three ways a thread moves keep the threads' state in its type.
LEMMA GotoType ==
    ASSUME ThreadsOK, NEW t \in Threads, NEW l \in Labels(t), Goto(t, l)
    PROVE  ThreadsOK'
  BY LabelsAreLabels DEF ThreadsOK, Goto

LEMMA CallType ==
    ASSUME ThreadsOK, NEW t \in Threads, NEW l \in Labels(t), NEW s \in Seq(Returns(t)),
           Call(t, l, s)
    PROVE  ThreadsOK'
  <1>1. s \o rest[t] \in Seq(Returns(t))
    BY DEF ThreadsOK
  <1>2. Seq(Returns(t)) \subseteq Seq(UiReturns \cup NetReturns)
    BY LabelsAreLabels
  <1>3. QED
    BY <1>1, <1>2, LabelsAreLabels DEF ThreadsOK, Call

\* A thread returns to a label it was told to, or is idle.
LEMMA ReturnLabel ==
    ASSUME ThreadsOK, NEW t \in Threads, Return(t)
    PROVE  pc'[t] \in Returns(t) \cup {"idle"}
  <1>1. rest[t] # <<>> => Head(rest[t]) \in Returns(t)
    BY DEF ThreadsOK
  <1>2. QED
    BY <1>1 DEF Return, Goto, ThreadsOK

LEMMA ReturnType ==
    ASSUME ThreadsOK, NEW t \in Threads, Return(t)
    PROVE  ThreadsOK'
  <1>1. CASE rest[t] = <<>>
    BY <1>1, LabelsAreLabels, GotoType DEF Return
  <1>2. CASE rest[t] # <<>>
    <2>1. Head(rest[t]) \in Returns(t) /\ Tail(rest[t]) \in Seq(Returns(t))
      BY <1>2 DEF ThreadsOK
    <2>2. Seq(Returns(t)) \subseteq Seq(UiReturns \cup NetReturns)
      BY LabelsAreLabels
    <2>3. QED
      BY <1>2, <2>1, <2>2, LabelsAreLabels DEF ThreadsOK, Return
  <1>3. QED
    BY <1>1, <1>2

\* And they move nobody else.
LEMMA OthersStay ==
    ASSUME ThreadsOK, NEW t \in Threads, NEW l, NEW s,
           Goto(t, l) \/ Call(t, l, s) \/ Return(t)
    PROVE  \A u \in Threads \ {t} : pc'[u] = pc[u]
  BY DEF ThreadsOK, Goto, Call, Return

-----------------------------------------------------------------------------
\* What a thread does in the middle of something keeps every type.
LEMMA ContinueType ==
    ASSUME TypeOK, NEW t \in Threads, Continue(t)
    PROVE  ThreadsOK' /\ (crossed' \in BOOLEAN => TypeOK')
  <1>0. ThreadsOK /\ pc[t] \in Labels(t)
    BY DEF TypeOK, ThreadsOK
  <1> USE DEF TypeOK, msgVars, ftpVars, usbVars, uiVars, worldVars, threadVars
  <1>1. CASE CheckWifi(t)
    <2>1. "clear_run" \in Labels(t)
      BY <1>0, <1>1 DEF CheckWifi, At, Labels, UiLabels, NetLabels, RefreshLabels, StopSteps
    <2> "message" \in Returns(t)
      BY <1>0, <1>1, ThreadsDiffer
      DEF CheckWifi, At, Labels, RefreshLabels, Returns, UiReturns, NetReturns
    <2> <<"message">> \in Seq(Returns(t))
      OBVIOUS
    <2>2. ThreadsOK'
      BY <1>0, <1>1, <2>1, CallType, ReturnType DEF CheckWifi
    <2>3. sMesg' \in BOOLEAN
      BY <1>1 DEF CheckWifi
    <2>4. QED
      BY <1>1, <2>2, <2>3 DEF CheckWifi
  <1>2. CASE ClearRun(t)
    <2>1. "fini" \in Labels(t)
      BY <1>0, <1>2 DEF ClearRun, At, Labels, UiLabels, NetLabels, RefreshLabels, StopSteps
    <2>2. QED
      BY <1>0, <1>2, <2>1, GotoType DEF ClearRun
  <1>3. CASE Fini(t)
    <2>1. "in_fini" \in Labels(t)
      BY <1>0, <1>3 DEF Fini, At, Labels, UiLabels, NetLabels, RefreshLabels, StopSteps
    <2>2. ThreadsOK'
      BY <1>0, <1>3, <2>1, GotoType, ReturnType DEF Fini
    <2>3. QED
      BY <1>3, <2>2 DEF Fini
  <1>4. CASE FiniReturns(t)
    BY <1>0, <1>4, ReturnType DEF FiniReturns
  <1>5. CASE StartThread(t)
    <2>1. ThreadsOK'
      BY <1>0, <1>5, ReturnType DEF StartThread
    <2>2. unstarted' \in BOOLEAN /\ msgPc' \in [Messages -> {"gone", "read", "usb_off", "delay"}]
      BY <1>5 DEF StartThread
    <2>3. QED
      BY <1>5, <2>1, <2>2 DEF StartThread
  <1>6. CASE Notice(t)
    <2>1. "message" \in Labels(t)
      BY DEF Labels, UiLabels, NetLabels, RefreshLabels
    <2>2. QED
      BY <1>0, <1>6, <2>1, GotoType DEF Notice
  <1>7. CASE StopUsb(t)
    <2>1. ThreadsOK'
      BY <1>0, <1>7, ReturnType DEF StopUsb
    <2>2. storage' \in BOOLEAN /\ unstopped' \in BOOLEAN
      BY <1>7 DEF StopUsb
    <2>3. QED
      BY <1>7, <2>1, <2>2 DEF StopUsb
  <1>8. CASE UsbOff(t)
    BY <1>0, <1>8, ReturnType DEF UsbOff
  <1>9. QED
    BY <1>1, <1>2, <1>3, <1>4, <1>5, <1>6, <1>7, <1>8 DEF Continue

\* So does what only the UI thread does.
LEMMA UiType ==
    ASSUME TypeOK,
           \/ Handler \/ Connect \/ InitReturns \/ SetRun \/ Watch \/ LookAtCable
           \/ InitUsb \/ StartUsb \/ SetToggle("toggle_off", FALSE) \/ SetToggle("toggle_on", TRUE)
    PROVE  ThreadsOK' /\ (crossed' \in BOOLEAN => TypeOK')
  <1>0. /\ ThreadsOK
        /\ UI \in Threads
        /\ {"clear_run", "check_wifi", "in_init", "set_run", "watch", "message", "stop_usb", "cable",
            "init_usb", "start_usb", "stopping"} \subseteq Labels(UI)
        /\ {<<>>, <<"message">>, <<"connect">>, <<"usb_off", "cable">>,
            <<"toggle_off", "message">>, <<"toggle_on", "message">>} \subseteq Seq(Returns(UI))
    BY DEF TypeOK, Threads, Labels, Returns, UiLabels, UiReturns, StopSteps, StartSteps, UsbSteps
  <1> USE DEF TypeOK, msgVars, ftpVars, usbVars, uiVars, worldVars, threadVars
  <1>1. CASE PressFtp
    <2>1. ThreadsOK'
      BY <1>0, <1>1, CallType DEF PressFtp
    <2>2. QED
      BY <1>1, <2>1 DEF PressFtp
  <1>2. CASE PressUsb
    <2>1. ThreadsOK'
      BY <1>0, <1>2, CallType DEF PressUsb
    <2>2. QED
      BY <1>2, <2>1 DEF PressUsb
  <1>3. CASE Load
    <2>1. ThreadsOK'
      BY <1>0, <1>3, CallType DEF Load
    <2>2. QED
      BY <1>3, <2>1 DEF Load
  <1>4. CASE ToggleSelect
    <2>1. CASE UNCHANGED threadVars
      BY <1>4, <2>1 DEF ToggleSelect, ThreadsOK
    <2>2. CASE \/ Call(UI, "stop_usb", <<"toggle_on", "message">>)
               \/ Call(UI, "clear_run", <<"toggle_on", "message">>)
      <3>1. ThreadsOK'
        BY <1>0, <2>2, CallType
      <3>2. QED
        BY <1>4, <3>1 DEF ToggleSelect
    <2>3. QED
      BY <1>4, <2>1, <2>2 DEF ToggleSelect
  <1>5. CASE ModuleStop
    BY <1>0, <1>5, GotoType DEF ModuleStop
  <1>6. CASE Connect
    BY <1>0, <1>6, GotoType, ReturnType DEF Connect
  <1>7. CASE InitReturns
    <2>1. ThreadsOK'
      BY <1>0, <1>7, GotoType, ReturnType DEF InitReturns
    <2>2. ftpInitialized' \in BOOLEAN
      BY <1>7 DEF InitReturns
    <2>3. QED
      BY <1>7, <2>1, <2>2 DEF InitReturns
  <1>8. CASE SetRun
    BY <1>0, <1>8, GotoType DEF SetRun
  <1>9. CASE Watch
    <2>1. ThreadsOK'
      BY <1>0, <1>9, GotoType DEF Watch
    <2>2. QED
      BY <1>9, <2>1 DEF Watch
  <1>10. CASE LookAtCable
    BY <1>0, <1>10, GotoType DEF LookAtCable
  <1>11. CASE InitUsb
    <2>1. ThreadsOK'
      BY <1>0, <1>11, GotoType DEF InitUsb
    <2>2. QED
      BY <1>11, <2>1 DEF InitUsb
  <1>12. CASE StartUsb
    <2>1. ThreadsOK'
      BY <1>0, <1>12, GotoType DEF StartUsb
    <2>2. usbdeviceOff' \in BOOLEAN /\ usbdeviceModid' \in BOOLEAN /\ storage' \in BOOLEAN
      BY <1>12 DEF StartUsb
    <2>3. QED
      BY <1>12, <2>1, <2>2 DEF StartUsb
  <1>13. CASE SetToggle("toggle_off", FALSE) \/ SetToggle("toggle_on", TRUE)
    <2>1. ThreadsOK'
      BY <1>0, <1>13, ReturnType DEF SetToggle
    <2>2. toggle' \in BOOLEAN
      BY <1>13 DEF SetToggle
    <2>3. QED
      BY <1>13, <2>1, <2>2 DEF SetToggle
  <1>14. QED
    BY <1>1, <1>2, <1>3, <1>4, <1>5, <1>6, <1>7, <1>8, <1>9, <1>10, <1>11, <1>12, <1>13
    DEF Handler

\* And what only the network thread does.
LEMMA NetType ==
    ASSUME TypeOK, NetctlCb \/ Check \/ Unplug
    PROVE  ThreadsOK' /\ (crossed' \in BOOLEAN => TypeOK')
  <1>0. /\ ThreadsOK
        /\ NET \in Threads
        /\ {"check", "clear_run", "stop_usb", "unplug", "check_wifi"} \subseteq Labels(NET)
        /\ {"check", "unplug", "usb_off", "message"} \subseteq Returns(NET)
    BY ThreadsDiffer DEF TypeOK, Threads, Labels, Returns, NetLabels, NetReturns, StopSteps
  <1>1. /\ <<"message", "check">> \in Seq(Returns(NET))
        /\ <<"usb_off", "message", "check">> \in Seq(Returns(NET))
        /\ <<"unplug">> \in Seq(Returns(NET))
        /\ <<"usb_off", "message">> \in Seq(Returns(NET))
    BY <1>0
  <1>2. ThreadsOK'
    BY <1>0, <1>1, GotoType, CallType, ReturnType DEF NetctlCb, Check, Unplug
  <1>3. QED
    BY <1>2 DEF NetctlCb, Check, Unplug, TypeOK, msgVars, ftpVars, usbVars, uiVars, worldVars

\* Every step keeps every type.
LEMMA StepType == TypeOK /\ [Next]_vars => TypeOK'
  <1> SUFFICES ASSUME TypeOK, [Next]_vars PROVE TypeOK'
    OBVIOUS
  <1>1. CASE UNCHANGED vars
    BY <1>1 DEF vars, threadVars, msgVars, ftpVars, usbVars, uiVars, worldVars, TypeOK, ThreadsOK
  <1>2. CASE Next
    <2>1. crossed' \in BOOLEAN
      BY <1>2 DEF Next
    <2>2. CASE Handler \/ UiContinue
      BY <2>1, <2>2, UiType, ContinueType DEF UiContinue, Threads
    <2>3. CASE NetContinue
      BY <2>1, <2>3, NetType, ContinueType DEF NetContinue, Threads
    <2>4. CASE Continue(REFRESH)
      BY <2>1, <2>4, ContinueType DEF Threads
    <2>5. ASSUME NEW t \in Notifiers, Notify(t) PROVE TypeOK'
      <3>1. t \in Threads /\ "notice" \in Labels(t)
        BY NotifiersAreThreads, ThreadsDiffer DEF Threads, Labels, UiLabels, RefreshLabels
      <3>2. ThreadsOK'
        BY <2>5, <3>1, GotoType DEF Notify, TypeOK
      <3>3. QED
        BY <2>1, <2>5, <3>2 DEF Notify, TypeOK, msgVars, ftpVars, usbVars, uiVars, worldVars
    <2>6. ASSUME NEW m \in Messages, MessageContinue(m) PROVE TypeOK'
      <3>1. ThreadsOK'
        BY <2>6 DEF MessageContinue, MessageReads, MessageUsbOff, MessageEnds, TypeOK, ThreadsOK,
                    threadVars
      <3>2. msgPc' \in [Messages -> {"gone", "read", "usb_off", "delay"}]
        BY <2>6 DEF MessageContinue, MessageReads, MessageUsbOff, MessageEnds, MessageStep, TypeOK
      <3>3. CASE MessageReads(m)
        BY <2>1, <3>1, <3>2, <3>3 DEF MessageReads, MessageStep, TypeOK, msgVars, ftpVars, usbVars, uiVars, worldVars
      <3>4. CASE MessageUsbOff(m)
        BY <2>1, <3>1, <3>2, <3>4 DEF MessageUsbOff, MessageStep, TypeOK, msgVars, ftpVars, usbVars, uiVars, worldVars
      <3>5. CASE MessageEnds(m)
        BY <2>1, <3>1, <3>2, <3>5 DEF MessageEnds, MessageStep, TypeOK, msgVars, ftpVars, usbVars, uiVars, worldVars
      <3>6. QED
        BY <2>6, <3>3, <3>4, <3>5 DEF MessageContinue
    <2>7. CASE World
      <3>1. ThreadsOK'
        BY <2>7 DEF World, TypeOK, ThreadsOK, threadVars
      <3>2. wifiOff' \in BOOLEAN
        BY <2>7 DEF World, TypeOK
      <3>3. QED
        BY <2>1, <2>7, <3>1, <3>2 DEF World, TypeOK, msgVars, ftpVars, usbVars, uiVars, threadVars
    <2>8. QED
      BY <1>2, <2>2, <2>3, <2>4, <2>5, <2>6, <2>7 DEF Next, Step
  <1>3. QED
    BY <1>1, <1>2

\* Every variable keeps its type, and every thread stays where its code can be.
THEOREM TypeCorrect == Spec => []TypeOK
  <1>1. Init => TypeOK
    <2> SUFFICES ASSUME Init PROVE TypeOK
      OBVIOUS
    <2>1. ThreadsOK
      BY DEF Init, ThreadsOK, Labels, UiLabels, NetLabels, RefreshLabels
    <2>2. selectWifiUsb \in BOOLEAN
      BY DEF Init
    <2>3. QED
      BY <2>1, <2>2 DEF Init, TypeOK
  <1>2. QED
    BY <1>1, StepType, PTL DEF Spec

-----------------------------------------------------------------------------
Reachable == ServerIsStoppable /\ ServerIsWatched

\* The labels that either property names as an excuse.
Excuses == StopSteps \cup {"set_run", "watch", "stopping"}

\* A step of a thread that is at none of them and leaves the server's variables
\* alone cannot spoil the properties.
LEMMA Bystander ==
    ASSUME Reachable, ThreadsOK, NEW t \in Threads, pc[t] \notin Excuses,
           \A u \in Threads \ {t} : pc'[u] = pc[u],
           UNCHANGED ftpVars
    PROVE  Reachable'
  <1>1. UI \in Threads
    BY DEF Threads
  <1>2. QED
    BY <1>1 DEF Reachable, ServerIsStoppable, ServerIsWatched, Excuses, StopSteps, ftpVars

\* Nor can a step that moves no thread.
LEMMA NobodyMoves == ASSUME Reachable, UNCHANGED <<pc, ftpVars>> PROVE Reachable'
  BY DEF Reachable, ServerIsStoppable, ServerIsWatched, ftpVars

\* The calls of fini and what precedes them keep both properties.
LEMMA ContinueKeeps ==
    ASSUME TypeOK, Reachable, NEW t \in Threads, Continue(t)
    PROVE  Reachable'
  <1>0. ThreadsOK /\ UI \in Threads
    BY DEF TypeOK, Threads
  <1>1. CASE CheckWifi(t)
    <2>1. \A u \in Threads \ {t} : pc'[u] = pc[u]
      BY <1>0, <1>1, OthersStay DEF CheckWifi
    <2>2. CASE wifiOff
      <3>1. pc'[t] = "clear_run"
        BY <1>0, <1>1, <2>2 DEF CheckWifi, Call, ThreadsOK
      <3>2. QED
        BY <1>0, <1>1, <2>1, <3>1
        DEF CheckWifi, At, Reachable, ServerIsStoppable, ServerIsWatched, StopSteps
    <2>3. CASE ~wifiOff
      <3>1. pc[t] \notin Excuses /\ UNCHANGED ftpVars
        BY <1>1, <2>3 DEF CheckWifi, At, Excuses, StopSteps, ftpVars
      <3>2. QED
        BY <1>0, <2>1, <3>1, Bystander
    <2>4. QED
      BY <2>2, <2>3
  <1>2. CASE ClearRun(t)
    <2>1. pc'[t] = "fini" /\ \A u \in Threads \ {t} : pc'[u] = pc[u]
      BY <1>0, <1>2 DEF ClearRun, Goto, ThreadsOK
    <2>2. QED
      BY <1>0, <1>2, <2>1
      DEF ClearRun, At, Reachable, ServerIsStoppable, ServerIsWatched, StopSteps
  <1>3. CASE Fini(t)
    <2>1. CASE ftpInitialized
      <3>1. pc'[t] = "in_fini" /\ \A u \in Threads \ {t} : pc'[u] = pc[u]
        BY <1>0, <1>3, <2>1 DEF Fini, Goto, ThreadsOK
      <3>2. QED
        BY <1>0, <1>3, <3>1
        DEF Fini, At, Reachable, ServerIsStoppable, ServerIsWatched, StopSteps, ftpVars
    <2>2. CASE ~ftpInitialized
      BY <1>3, <2>2 DEF Fini, Reachable, ServerIsStoppable, ServerIsWatched, ftpVars
    <2>3. QED
      BY <2>1, <2>2
  <1>4. CASE FiniReturns(t)
    BY <1>4 DEF FiniReturns, Reachable, ServerIsStoppable, ServerIsWatched
  <1>5. CASE StartThread(t) \/ Notice(t) \/ StopUsb(t) \/ UsbOff(t)
    <2>1. \A u \in Threads \ {t} : pc'[u] = pc[u]
      BY <1>0, <1>5, OthersStay DEF StartThread, Notice, StopUsb, UsbOff
    <2>2. pc[t] \notin Excuses /\ UNCHANGED ftpVars
      BY <1>5 DEF StartThread, Notice, StopUsb, UsbOff, At, Excuses, StopSteps
    <2>3. QED
      BY <1>0, <2>1, <2>2, Bystander
  <1>6. QED
    BY <1>1, <1>2, <1>3, <1>4, <1>5 DEF Continue

\* So do the handlers and the start of the server.
LEMMA UiKeeps ==
    ASSUME TypeOK, Reachable,
           \/ Handler \/ Connect \/ InitReturns \/ SetRun \/ Watch \/ LookAtCable
           \/ InitUsb \/ StartUsb \/ SetToggle("toggle_off", FALSE) \/ SetToggle("toggle_on", TRUE)
    PROVE  Reachable'
  <1>0. ThreadsOK /\ UI \in Threads
    BY DEF TypeOK, Threads
  <1>1. CASE ModuleStop
    <2>1. pc'[UI] = "stopping" /\ \A u \in Threads \ {UI} : pc'[u] = pc[u]
      BY <1>0, <1>1 DEF ModuleStop, Goto, ThreadsOK
    <2>2. QED
      BY <1>0, <1>1, <2>1
      DEF ModuleStop, At, Reachable, ServerIsStoppable, ServerIsWatched, StopSteps
  <1>2. CASE InitReturns
    <2>1. CASE Goto(UI, "set_run")
      <3>1. pc'[UI] = "set_run"
        BY <1>0, <2>1 DEF Goto, ThreadsOK
      <3>2. QED
        BY <3>1 DEF Reachable, ServerIsStoppable, ServerIsWatched
    <2>2. CASE Return(UI) /\ UNCHANGED ftpInitialized
      <3>1. pc[UI] \notin Excuses /\ UNCHANGED ftpVars
        BY <1>2, <2>2 DEF InitReturns, At, Excuses, StopSteps, ftpVars
      <3>2. QED
        BY <1>0, <2>2, <3>1, Bystander, OthersStay
    <2>3. QED
      BY <1>2, <2>1, <2>2 DEF InitReturns
  <1>3. CASE SetRun
    <2>1. pc'[UI] = "watch" /\ \A u \in Threads \ {UI} : pc'[u] = pc[u]
      BY <1>0, <1>3 DEF SetRun, Goto, ThreadsOK
    <2>2. QED
      BY <1>3, <2>1 DEF SetRun, Reachable, ServerIsStoppable, ServerIsWatched
  <1>4. CASE Watch
    <2>1. \A u \in Threads \ {UI} : pc'[u] = pc[u]
      BY <1>0, <1>4, OthersStay DEF Watch
    <2>2. QED
      BY <1>0, <1>4, <2>1
      DEF Watch, At, Reachable, ServerIsStoppable, ServerIsWatched, StopSteps
  <1>5. CASE ToggleSelect
    <2>1. pc[UI] \notin Excuses /\ UNCHANGED ftpVars
      BY <1>5 DEF ToggleSelect, At, Excuses, StopSteps
    <2>2. CASE UNCHANGED threadVars
      BY <2>1, <2>2, NobodyMoves DEF threadVars
    <2>3. CASE \/ Call(UI, "stop_usb", <<"toggle_on", "message">>)
               \/ Call(UI, "clear_run", <<"toggle_on", "message">>)
      BY <1>0, <2>1, <2>3, Bystander, OthersStay
    <2>4. QED
      BY <1>5, <2>2, <2>3 DEF ToggleSelect
  <1>6. CASE \/ PressFtp \/ PressUsb \/ Load \/ Connect \/ LookAtCable \/ InitUsb \/ StartUsb
             \/ SetToggle("toggle_off", FALSE) \/ SetToggle("toggle_on", TRUE)
    <2>1. \A u \in Threads \ {UI} : pc'[u] = pc[u]
      BY <1>0, <1>6, OthersStay
      DEF PressFtp, PressUsb, Load, Connect, LookAtCable, InitUsb, StartUsb, SetToggle
    <2>2. pc[UI] \notin Excuses /\ UNCHANGED ftpVars
      BY <1>6
      DEF PressFtp, PressUsb, Load, Connect, LookAtCable, InitUsb, StartUsb, SetToggle,
          At, Excuses, StopSteps
    <2>3. QED
      BY <1>0, <2>1, <2>2, Bystander
  <1>7. QED
    BY <1>1, <1>2, <1>3, <1>4, <1>5, <1>6 DEF Handler

\* Neither can any other step spoil them.
LEMMA StepKeeps == TypeOK /\ Reachable /\ [Next]_vars => Reachable'
  <1> SUFFICES ASSUME TypeOK, Reachable, [Next]_vars PROVE Reachable'
    OBVIOUS
  <1>1. CASE UNCHANGED vars
    BY <1>1, NobodyMoves DEF vars, threadVars, ftpVars
  <1>2. CASE Handler \/ UiContinue
    BY <1>2, UiKeeps, ContinueKeeps DEF UiContinue, Threads
  <1>3. CASE Continue(NET) \/ Continue(REFRESH)
    BY <1>3, ContinueKeeps DEF Threads
  <1>4. CASE NetctlCb \/ Check \/ Unplug
    <2>1. ThreadsOK /\ NET \in Threads
      BY DEF TypeOK, Threads
    <2>2. \A u \in Threads \ {NET} : pc'[u] = pc[u]
      BY <1>4, <2>1, OthersStay DEF NetctlCb, Check, Unplug
    <2>3. pc[NET] \notin Excuses /\ UNCHANGED ftpVars
      BY <1>4 DEF NetctlCb, Check, Unplug, At, Excuses, StopSteps
    <2>4. QED
      BY <2>1, <2>2, <2>3, Bystander
  <1>5. ASSUME NEW t \in Notifiers, Notify(t) PROVE Reachable'
    <2>1. ThreadsOK /\ t \in Threads
      BY NotifiersAreThreads DEF TypeOK, Threads
    <2>2. \A u \in Threads \ {t} : pc'[u] = pc[u]
      BY <1>5, <2>1, OthersStay DEF Notify
    <2>3. pc[t] \notin Excuses /\ UNCHANGED ftpVars
      BY <1>5 DEF Notify, At, Excuses, StopSteps
    <2>4. QED
      BY <2>1, <2>2, <2>3, Bystander
  <1>6. ASSUME NEW m \in Messages, MessageContinue(m) PROVE Reachable'
    <2>1. UNCHANGED <<pc, ftpVars>>
      BY <1>6
      DEF MessageContinue, MessageReads, MessageUsbOff, MessageEnds, threadVars, ftpVars
    <2>2. QED
      BY <2>1, NobodyMoves
  <1>7. CASE World
    BY <1>7, NobodyMoves DEF World, threadVars
  <1>8. QED
    BY <1>1, <1>2, <1>3, <1>4, <1>5, <1>6, <1>7 DEF Next, Step, NetContinue

LEMMA Invariance == Spec => [](TypeOK /\ Reachable)
  <1>1. Init => Reachable
    BY DEF Init, Reachable, ServerIsStoppable, ServerIsWatched
  <1>2. TypeOK /\ Reachable /\ [Next]_vars => (TypeOK /\ Reachable)'
    BY StepType, StepKeeps
  <1>3. Spec => []TypeOK
    BY TypeCorrect
  <1>4. QED
    BY <1>1, <1>2, <1>3, PTL DEF Spec

\* The server never stays up with run cleared, when the button would start it
\* and not stop it: whatever the threads do at the same time.
THEOREM ServerStaysStoppable == Spec => []ServerIsStoppable
  BY Invariance, PTL DEF Reachable

\* The server never stays up with s_mesg set, when nobody would look at the
\* Wi-Fi any more: whatever the threads do at the same time.
THEOREM ServerStaysWatched == Spec => []ServerIsWatched
  BY Invariance, PTL DEF Reachable

-----------------------------------------------------------------------------
(***************************************************************************)
(* RunIsTrue.  While nothing has crossed, only one thread is between run   *)
(* and the server at a time, and how far it has got says what run and the  *)
(* server are meanwhile.                                                   *)
(***************************************************************************)
FtpInv ==
    ~crossed =>
        /\ ~Crossing
        /\ pc[UI] # "stopping" =>
             /\ pc[UI] \notin FtpSteps /\ pc[NET] \notin FtpSteps => run = ftpInitialized
             /\ \A t \in {UI, NET} : pc[t] \in {"fini", "in_fini"} => ~run
             /\ pc[UI] = "connect" => run = ftpInitialized
             /\ pc[UI] = "in_init" => ~run /\ ~ftpInitialized
             /\ pc[UI] = "set_run" => ~run /\ ftpInitialized
             /\ pc[UI] = "watch"   => run /\ ftpInitialized

Records == crossed' = (crossed \/ Crossing')

\* A thread that leaves run and the server alone may only begin with them.
LEMMA BystanderInv ==
    ASSUME ThreadsOK, FtpInv, Records, NEW t \in Threads,
           pc[t] \notin FtpSteps \cup {"stopping"},
           pc'[t] \notin FtpSteps \ {"connect", "clear_run"},
           \A u \in Threads \ {t} : pc'[u] = pc[u],
           run' = run, ftpInitialized' = ftpInitialized
    PROVE  FtpInv'
  <1>0. UI \in Threads /\ NET \in Threads
    BY DEF Threads
  <1> SUFFICES ASSUME ~crossed', pc'[UI] # "stopping" PROVE FtpInv'
    <2>1. ~crossed' => ~Crossing'
      BY DEF Records
    <2>2. QED
      BY <2>1 DEF FtpInv
  <1>1. ~crossed /\ ~Crossing'
    BY DEF Records
  <1>2. pc[UI] # "stopping"
    BY <1>0
  <1>3. ~(pc'[UI] \in FtpSteps /\ pc'[NET] \in FtpSteps)
    BY <1>1 DEF Crossing
  <1>4. CASE t = UI
    BY <1>0, <1>1, <1>2, <1>3, <1>4, ThreadsDiffer DEF FtpInv, FtpSteps, StopSteps, StartSteps
  <1>5. CASE t = NET
    BY <1>0, <1>1, <1>2, <1>3, <1>5, ThreadsDiffer DEF FtpInv, FtpSteps, StopSteps, StartSteps
  <1>6. CASE t = REFRESH
    BY <1>0, <1>1, <1>2, <1>6, ThreadsDiffer DEF FtpInv
  <1>7. QED
    BY <1>4, <1>5, <1>6 DEF Threads

\* A step that moves no thread changes nothing here.
LEMMA NobodyMovesInv ==
    ASSUME FtpInv, Records, UNCHANGED <<pc, run, ftpInitialized>>
    PROVE  FtpInv'
  <1>1. ~crossed' => ~crossed /\ ~Crossing'
    BY DEF Records
  <1>2. QED
    BY <1>1 DEF FtpInv

\* What returning does to a thread, as far as FtpInv tells.
LEMMA ReturnStep ==
    ASSUME ThreadsOK, NEW t \in Threads, Return(t)
    PROVE  /\ pc'[t] \notin FtpSteps \ {"connect", "clear_run"}
           /\ pc'[t] # "stopping"
           /\ pc'[t] \in FtpSteps => t = UI
  BY ReturnLabel
  DEF Returns, UiReturns, NetReturns, FtpSteps, StopSteps, StartSteps

\* The steps from run = 0 to the return of fini.
LEMMA StopInv ==
    ASSUME TypeOK, TypeOK', FtpInv, Records, NEW t \in Threads,
           ClearRun(t) \/ Fini(t) \/ FiniReturns(t)
    PROVE  FtpInv'
  <1> /\ ThreadsOK
      /\ {run, ftpInitialized, run', ftpInitialized'} \subseteq BOOLEAN
    BY DEF TypeOK
  <1>0. /\ UI \in Threads /\ NET \in Threads
        /\ pc[t] \in StopSteps
        /\ t = UI \/ t = NET
    BY DEF ThreadsOK, Threads, Labels, RefreshLabels, StopSteps, ClearRun, Fini, FiniReturns, At
  <1>1. \A u \in Threads \ {t} : pc'[u] = pc[u]
    BY OthersStay DEF ClearRun, Fini, FiniReturns
  <1>2. \/ ClearRun(t) /\ pc'[t] = "fini" /\ ~run'
        \/ Fini(t) /\ ftpInitialized /\ pc'[t] = "in_fini" /\ run' = run
        \/ /\ Fini(t) \/ FiniReturns(t)
           /\ Return(t) /\ ~ftpInitialized' /\ run' = run
    BY DEF ClearRun, Fini, FiniReturns, Goto, ThreadsOK, ftpVars
  <1> SUFFICES ASSUME ~crossed', pc'[UI] # "stopping" PROVE FtpInv'
    <2>1. ~crossed' => ~Crossing'
      BY DEF Records
    <2>2. QED
      BY <2>1 DEF FtpInv
  <1>3. ~crossed /\ ~Crossing /\ ~Crossing'
    BY DEF Records, FtpInv
  <1>4. \A u \in {UI, NET} \ {t} : pc[u] \notin FtpSteps
    BY <1>0, <1>3 DEF Crossing, FtpSteps
  <1>5. pc[UI] # "stopping"
    BY <1>0, <1>1, <1>4 DEF StopSteps
  <1>6. CASE pc'[t] \in {"fini", "in_fini"} /\ ~run'
    BY <1>0, <1>1, <1>3, <1>4, <1>6 DEF FtpInv, FtpSteps, StopSteps, StartSteps
  <1>7. CASE Return(t) /\ ~ftpInitialized' /\ ~run'
    BY <1>0, <1>1, <1>3, <1>4, <1>7, ReturnStep DEF FtpInv, FtpSteps, StopSteps, StartSteps
  <1>8. pc[t] \in {"fini", "in_fini"} => ~run
    BY <1>0, <1>3, <1>5 DEF FtpInv
  <1>9. QED
    BY <1>2, <1>6, <1>7, <1>8 DEF Fini, FiniReturns, At

\* The steps from ftpvita_init to s_mesg = 0.
LEMMA StartInv ==
    ASSUME TypeOK, TypeOK', FtpInv, Records, Connect \/ InitReturns \/ SetRun \/ Watch
    PROVE  FtpInv'
  <1> /\ ThreadsOK
      /\ {run, ftpInitialized, run', ftpInitialized'} \subseteq BOOLEAN
    BY DEF TypeOK
  <1>0. /\ UI \in Threads /\ NET \in Threads /\ UI # NET
        /\ pc[UI] \in StartSteps
    BY ThreadsDiffer DEF Threads, StartSteps, Connect, InitReturns, SetRun, Watch, At
  <1>1. pc'[NET] = pc[NET]
    BY <1>0, OthersStay DEF Connect, InitReturns, SetRun, Watch
  <1> SUFFICES ASSUME ~crossed' PROVE FtpInv'
    BY DEF FtpInv
  <1>2. ~crossed /\ ~Crossing /\ ~Crossing'
    BY DEF Records, FtpInv
  <1>3. pc[NET] \notin FtpSteps
    BY <1>0, <1>2 DEF Crossing, FtpSteps
  <1>4. pc[UI] # "stopping"
    BY <1>0 DEF StartSteps
  <1>5. CASE Return(UI) /\ UNCHANGED <<run, ftpInitialized>> /\ pc[UI] \in {"connect", "in_init"}
    BY <1>0, <1>1, <1>2, <1>3, <1>4, <1>5, ReturnStep
    DEF FtpInv, FtpSteps, StopSteps, StartSteps
  <1>6. CASE Connect /\ ~ftpInitialized
    <2>1. pc'[UI] = "in_init" /\ run' = run /\ ftpInitialized' = ftpInitialized /\ pc[UI] = "connect"
      BY <1>0, <1>6 DEF Connect, Goto, ThreadsOK, At, ftpVars
    <2>2. QED
      BY <1>0, <1>1, <1>2, <1>3, <1>4, <1>6, <2>1 DEF FtpInv, FtpSteps, StopSteps, StartSteps
  <1>7. CASE InitReturns /\ Goto(UI, "set_run") /\ ftpInitialized'
    <2>1. pc'[UI] = "set_run" /\ run' = run /\ pc[UI] = "in_init"
      BY <1>0, <1>7 DEF InitReturns, Goto, ThreadsOK, At
    <2>2. QED
      BY <1>0, <1>1, <1>2, <1>3, <1>4, <1>7, <2>1 DEF FtpInv, FtpSteps, StopSteps, StartSteps
  <1>8. CASE SetRun
    <2>1. pc'[UI] = "watch" /\ run' /\ ftpInitialized' = ftpInitialized /\ pc[UI] = "set_run"
      BY <1>0, <1>8 DEF SetRun, Goto, ThreadsOK, At
    <2>2. QED
      BY <1>0, <1>1, <1>2, <1>3, <1>4, <2>1 DEF FtpInv, FtpSteps, StopSteps, StartSteps
  <1>9. CASE Watch
    <2>1. /\ pc'[UI] = "message" /\ run' = run /\ ftpInitialized' = ftpInitialized
          /\ pc[UI] = "watch"
      BY <1>0, <1>9 DEF Watch, Goto, ThreadsOK, At
    <2>2. QED
      BY <1>0, <1>1, <1>2, <1>3, <1>4, <2>1 DEF FtpInv, FtpSteps, StopSteps, StartSteps
  <1>10. QED
    BY <1>5, <1>6, <1>7, <1>8, <1>9 DEF Connect, InitReturns, At, ftpVars

\* Every other step begins with the server, if at all.
LEMMA StepInv == TypeOK /\ TypeOK' /\ FtpInv /\ [Next]_vars => FtpInv'
  <1> SUFFICES ASSUME TypeOK, TypeOK', FtpInv, [Next]_vars PROVE FtpInv'
    OBVIOUS
  <1> ThreadsOK /\ UI \in Threads /\ NET \in Threads /\ REFRESH \in Threads
    BY DEF TypeOK, Threads
  <1>1. CASE UNCHANGED vars
    BY <1>1 DEF vars, threadVars, msgVars, ftpVars, FtpInv, Crossing
  <1> SUFFICES ASSUME Step, Records PROVE FtpInv'
    BY <1>1 DEF Next, Records
  <1>2. ASSUME NEW t \in Threads, Continue(t) PROVE FtpInv'
    <2>1. CASE ClearRun(t) \/ Fini(t) \/ FiniReturns(t)
      BY <2>1, StopInv
    <2>2. CASE CheckWifi(t) \/ StartThread(t) \/ Notice(t) \/ StopUsb(t) \/ UsbOff(t)
      <3>1. \A u \in Threads \ {t} : pc'[u] = pc[u]
        BY <2>2, OthersStay DEF CheckWifi, StartThread, Notice, StopUsb, UsbOff
      <3>2. pc[t] \notin FtpSteps \cup {"stopping"}
        BY <2>2 DEF CheckWifi, StartThread, Notice, StopUsb, UsbOff, At, FtpSteps, StopSteps, StartSteps
      <3>3. run' = run /\ ftpInitialized' = ftpInitialized
        BY <2>2 DEF CheckWifi, StartThread, Notice, StopUsb, UsbOff, ftpVars
      <3>4. \/ Return(t)
            \/ Call(t, "clear_run", <<"message">>)
            \/ Goto(t, "message")
        BY <2>2 DEF CheckWifi, StartThread, Notice, StopUsb, UsbOff
      <3>5. pc'[t] \notin FtpSteps \ {"connect", "clear_run"}
        BY <3>4, ReturnStep DEF Call, Goto, ThreadsOK, FtpSteps, StopSteps, StartSteps
      <3>6. QED
        BY <3>1, <3>2, <3>3, <3>5, BystanderInv
    <2>3. QED
      BY <1>2, <2>1, <2>2 DEF Continue
  <1>3. CASE Handler
    <2>1. CASE ToggleSelect /\ pc' = pc
      BY <2>1, NobodyMovesInv DEF ToggleSelect, ftpVars
    <2>2. CASE \E l \in {"clear_run", "check_wifi", "stop_usb", "cable", "stopping"} : \E s :
                   Goto(UI, l) \/ Call(UI, l, s)
      <3>1. \A u \in Threads \ {UI} : pc'[u] = pc[u]
        BY <2>2, OthersStay
      <3>2. pc'[UI] \in {"clear_run", "check_wifi", "stop_usb", "cable", "stopping"}
        BY <2>2 DEF Goto, Call, ThreadsOK
      <3>3. pc[UI] = "idle" /\ ftpInitialized' = ftpInitialized
        BY <1>3 DEF Handler, PressFtp, PressUsb, Load, ToggleSelect, ModuleStop, At, ftpVars
      <3>4. CASE ModuleStop
        <4>1. pc'[UI] = "stopping"
          BY <3>4 DEF ModuleStop, Goto, ThreadsOK
        <4>2. QED
          BY <4>1 DEF FtpInv, Records
      <3>5. CASE run' = run
        BY <3>1, <3>2, <3>3, <3>5, BystanderInv DEF FtpSteps, StopSteps, StartSteps
      <3>6. QED
        BY <1>3, <3>4, <3>5 DEF Handler, PressFtp, PressUsb, Load, ToggleSelect, ftpVars
    <2>3. QED
      BY <1>3, <2>1, <2>2
      DEF Handler, PressFtp, PressUsb, Load, ToggleSelect, ModuleStop, threadVars
  <1>4. CASE Connect \/ InitReturns \/ SetRun \/ Watch
    BY <1>4, StartInv
  <1>5. CASE \/ LookAtCable \/ InitUsb \/ StartUsb
             \/ SetToggle("toggle_off", FALSE) \/ SetToggle("toggle_on", TRUE)
    <2>1. \A u \in Threads \ {UI} : pc'[u] = pc[u]
      BY <1>5, OthersStay DEF LookAtCable, InitUsb, StartUsb, SetToggle
    <2>2. /\ pc[UI] \notin FtpSteps \cup {"stopping"}
          /\ run' = run /\ ftpInitialized' = ftpInitialized
      BY <1>5
      DEF LookAtCable, InitUsb, StartUsb, SetToggle, At, FtpSteps, StopSteps, StartSteps, ftpVars
    <2>3. \/ Return(UI)
          \/ \E l \in {"init_usb", "message", "start_usb"} : Goto(UI, l)
      BY <1>5 DEF LookAtCable, InitUsb, StartUsb, SetToggle
    <2>4. pc'[UI] \notin FtpSteps \ {"connect", "clear_run"}
      BY <2>3, ReturnStep DEF Goto, ThreadsOK, FtpSteps, StopSteps, StartSteps
    <2>5. QED
      BY <2>1, <2>2, <2>4, BystanderInv
  <1>6. CASE NetctlCb \/ Check \/ Unplug
    <2>1. \A u \in Threads \ {NET} : pc'[u] = pc[u]
      BY <1>6, OthersStay DEF NetctlCb, Check, Unplug
    <2>2. /\ pc[NET] \notin FtpSteps \cup {"stopping"}
          /\ run' = run /\ ftpInitialized' = ftpInitialized
      BY <1>6 DEF NetctlCb, Check, Unplug, At, FtpSteps, StopSteps, StartSteps, ftpVars
    <2>3. \/ Return(NET)
          \/ \E l \in {"check", "clear_run", "stop_usb", "unplug", "check_wifi"} : \E s :
                Goto(NET, l) \/ Call(NET, l, s)
      BY <1>6 DEF NetctlCb, Check, Unplug
    <2>4. pc'[NET] \notin FtpSteps \ {"connect", "clear_run"}
      BY <2>3, ReturnStep DEF Goto, Call, ThreadsOK, FtpSteps, StopSteps, StartSteps
    <2>5. QED
      BY <2>1, <2>2, <2>4, BystanderInv
  <1>7. ASSUME NEW t \in Notifiers, Notify(t) PROVE FtpInv'
    <2>1. t \in Threads
      BY NotifiersAreThreads DEF Threads
    <2>2. \A u \in Threads \ {t} : pc'[u] = pc[u]
      BY <1>7, <2>1, OthersStay DEF Notify
    <2>3. pc[t] = "idle" /\ pc'[t] = "notice" /\ run' = run /\ ftpInitialized' = ftpInitialized
      BY <1>7, <2>1 DEF Notify, At, Goto, ThreadsOK, ftpVars
    <2>4. QED
      BY <2>1, <2>2, <2>3, BystanderInv DEF FtpSteps, StopSteps, StartSteps
  <1>8. ASSUME NEW m \in Messages, MessageContinue(m) PROVE FtpInv'
    <2>1. UNCHANGED <<pc, run, ftpInitialized>>
      BY <1>8
      DEF MessageContinue, MessageReads, MessageUsbOff, MessageEnds, threadVars, ftpVars
    <2>2. QED
      BY <2>1, NobodyMovesInv
  <1>9. CASE World
    BY <1>9, NobodyMovesInv DEF World, threadVars, ftpVars
  <1>10. QED
    BY <1>2, <1>3, <1>4, <1>5, <1>6, <1>7, <1>8, <1>9 DEF Step, UiContinue, NetContinue

\* While the threads have not crossed, run says whether the server is up
\* whenever nobody is about to change that.
THEOREM RunStaysTrue == Spec => []RunIsTrue
  <1>1. Init => FtpInv
    BY DEF Init, FtpInv, Crossing, FtpSteps, StopSteps, StartSteps, UsbSteps, Threads
  <1>2. FtpInv => RunIsTrue
    BY DEF FtpInv, RunIsTrue, FtpSteps
  <1>3. QED
    BY <1>1, <1>2, StepInv, TypeCorrect, PTL DEF Spec

-----------------------------------------------------------------------------
(***************************************************************************)
(* What a thread has still to return to is known from where it is.         *)
(***************************************************************************)
StopRests == {<<"message">>, <<"message", "connect">>,
              <<"toggle_off", "message">>, <<"toggle_on", "message">>}

UiPlace ==
    \/ /\ pc[UI] \in {"idle", "connect", "in_init", "set_run", "watch", "cable", "init_usb",
                      "start_usb", "notice", "stopping"}
       /\ rest[UI] = <<>>
    \/ pc[UI] = "message" /\ rest[UI] \in {<<>>, <<"connect">>}
    \/ pc[UI] = "check_wifi" /\ rest[UI] = <<"connect">>
    \/ pc[UI] \in StopSteps /\ rest[UI] \in StopRests
    \/ pc[UI] \in {"toggle_off", "toggle_on"} /\ rest[UI] = <<"message">>
    \/ pc[UI] = "stop_usb" /\ rest[UI] \in {<<>>, <<"usb_off", "cable">>, <<"toggle_on", "message">>}
    \/ pc[UI] = "usb_off" /\ rest[UI] = <<"cable">>

\* Joining two of them.
LEMMA Joins ==
    ASSUME NEW a, NEW b
    PROVE  /\ <<a>> \o <<>> = <<a>>
           /\ <<a, b>> \o <<>> = <<a, b>>
           /\ <<>> \o <<>> = <<>>
           /\ <<a>> \o <<b>> = <<a, b>>
  <1>1. <<a>> \o <<>> = <<a>>
    OBVIOUS
  <1>2. <<a, b>> \o <<>> = <<a, b>>
    OBVIOUS
  <1>3. <<>> \o <<>> = <<>>
    OBVIOUS
  <1>4. <<a>> \o <<b>> = <<a, b>>
    <2> DEFINE S == {a, b}
               s == <<a>> \o <<b>>
               t == <<a, b>>
    <2>1. s \in Seq(S) /\ Len(s) = 2 /\ s[1] = a /\ s[2] = b
      OBVIOUS
    <2>2. t \in Seq(S) /\ Len(t) = 2 /\ t[1] = a /\ t[2] = b
      OBVIOUS
    <2> HIDE DEF S, s, t
    <2>3. \A i \in 1..Len(s) : s[i] = t[i]
      BY <2>1, <2>2
    <2>4. s = t
      BY <2>1, <2>2, <2>3, SeqEqual
    <2>5. QED
      BY <2>4 DEF s, t
  <1>5. QED
    BY <1>1, <1>2, <1>3, <1>4

\* Where the UI thread goes when it returns.
LEMMA UiComesBack ==
    ASSUME ThreadsOK, UiPlace, Return(UI)
    PROVE  \/ rest[UI] = <<>> /\ pc'[UI] = "idle" /\ rest'[UI] = <<>>
           \/ rest[UI] = <<"message">> /\ pc'[UI] = "message" /\ rest'[UI] = <<>>
           \/ rest[UI] = <<"connect">> /\ pc'[UI] = "connect" /\ rest'[UI] = <<>>
           \/ rest[UI] = <<"cable">> /\ pc'[UI] = "cable" /\ rest'[UI] = <<>>
           \/ /\ rest[UI] = <<"message", "connect">>
              /\ pc'[UI] = "message" /\ rest'[UI] = <<"connect">>
           \/ /\ rest[UI] = <<"usb_off", "cable">>
              /\ pc'[UI] = "usb_off" /\ rest'[UI] = <<"cable">>
           \/ /\ rest[UI] \in {<<"toggle_off", "message">>, <<"toggle_on", "message">>}
              /\ pc'[UI] \in {"toggle_off", "toggle_on"} /\ rest'[UI] = <<"message">>
  <1>0. UI \in Threads
    BY DEF Threads
  <1>1. rest[UI] = <<>> => pc'[UI] = "idle" /\ rest'[UI] = <<>>
    BY <1>0 DEF Return, Goto, ThreadsOK
  <1>2. rest[UI] # <<>> => pc'[UI] = Head(rest[UI]) /\ rest'[UI] = Tail(rest[UI])
    BY <1>0 DEF Return, ThreadsOK
  <1>3. CASE rest[UI] = <<>>
    BY <1>1, <1>3
  <1>4. CASE rest[UI] = <<"message">>
    BY <1>2, <1>4
  <1>5. CASE rest[UI] = <<"connect">>
    BY <1>2, <1>5
  <1>6. CASE rest[UI] = <<"cable">>
    BY <1>2, <1>6
  <1>7. CASE rest[UI] = <<"message", "connect">>
    BY <1>2, <1>7
  <1>8. CASE rest[UI] = <<"usb_off", "cable">>
    BY <1>2, <1>8
  <1>9. CASE rest[UI] = <<"toggle_off", "message">>
    BY <1>2, <1>9
  <1>10. CASE rest[UI] = <<"toggle_on", "message">>
    BY <1>2, <1>10
  <1>11. QED
    BY <1>3, <1>4, <1>5, <1>6, <1>7, <1>8, <1>9, <1>10 DEF UiPlace, StopRests

\* What the two ways of going on do to the thread that goes on.
LEMMA Goes ==
    ASSUME ThreadsOK, NEW t \in Threads, NEW l, Goto(t, l)
    PROVE  pc'[t] = l /\ rest'[t] = rest[t]
  BY DEF ThreadsOK, Goto

LEMMA Calls ==
    ASSUME ThreadsOK, NEW t \in Threads, NEW l, NEW s, Call(t, l, s)
    PROVE  pc'[t] = l /\ rest'[t] = s \o rest[t]
  BY DEF ThreadsOK, Call

\* Nobody else is moved, nor what he returns to.
LEMMA OthersReturn ==
    ASSUME ThreadsOK, NEW t \in Threads, NEW l, NEW s,
           Goto(t, l) \/ Call(t, l, s) \/ Return(t)
    PROVE  \A u \in Threads \ {t} : pc'[u] = pc[u] /\ rest'[u] = rest[u]
  BY DEF ThreadsOK, Goto, Call, Return

LEMMA UiComesToPlace ==
    ASSUME ThreadsOK, UiPlace, Return(UI)
    PROVE  UiPlace'
  BY UiComesBack DEF UiPlace

\* What it does in the middle of something brings the UI thread to its places.
LEMMA UiContinuePlace ==
    ASSUME ThreadsOK, UiPlace, Continue(UI)
    PROVE  UiPlace'
  <1>0. UI \in Threads
    BY DEF Threads
  <1>1. CASE Return(UI)
    BY <1>1, UiComesToPlace
  <1>2. CASE CheckWifi(UI) /\ Call(UI, "clear_run", <<"message">>)
    <2>1. rest[UI] = <<"connect">>
      BY <1>2 DEF CheckWifi, At, UiPlace, StopSteps
    <2>2. pc'[UI] = "clear_run" /\ rest'[UI] = <<"message", "connect">>
      BY <1>0, <1>2, <2>1, Calls, Joins
    <2>3. QED
      BY <2>2 DEF UiPlace, StopSteps, StopRests
  <1>3. CASE pc[UI] \in StopSteps /\ \E l \in StopSteps : Goto(UI, l)
    <2>1. rest[UI] \in StopRests
      BY <1>3 DEF UiPlace, StopSteps
    <2>2. pc'[UI] \in StopSteps /\ rest'[UI] = rest[UI]
      BY <1>0, <1>3, Goes
    <2>3. QED
      BY <2>1, <2>2 DEF UiPlace
  <1>4. CASE Notice(UI)
    <2>1. rest[UI] = <<>>
      BY <1>4 DEF Notice, At, UiPlace, StopSteps
    <2>2. pc'[UI] = "message" /\ rest'[UI] = <<>>
      BY <1>0, <1>4, <2>1, Goes DEF Notice
    <2>3. QED
      BY <2>2 DEF UiPlace
  <1>5. QED
    <2>1. ClearRun(UI) => pc[UI] \in StopSteps /\ Goto(UI, "fini")
      BY DEF ClearRun, At, StopSteps
    <2>2. Fini(UI) => Return(UI) \/ (pc[UI] \in StopSteps /\ Goto(UI, "in_fini"))
      BY DEF Fini, At, StopSteps
    <2>3. CheckWifi(UI) => Return(UI) \/ Call(UI, "clear_run", <<"message">>)
      BY DEF CheckWifi
    <2>4. FiniReturns(UI) \/ StartThread(UI) \/ StopUsb(UI) \/ UsbOff(UI) => Return(UI)
      BY DEF FiniReturns, StartThread, StopUsb, UsbOff
    <2>5. "fini" \in StopSteps /\ "in_fini" \in StopSteps
      BY DEF StopSteps
    <2>6. QED
      BY <1>1, <1>2, <1>3, <1>4, <2>1, <2>2, <2>3, <2>4, <2>5 DEF Continue

\* So do the handlers and what follows them.
LEMMA UiStepPlace ==
    ASSUME ThreadsOK, UiPlace,
           \/ Handler \/ Connect \/ InitReturns \/ SetRun \/ Watch \/ LookAtCable
           \/ InitUsb \/ StartUsb \/ SetToggle("toggle_off", FALSE) \/ SetToggle("toggle_on", TRUE)
    PROVE  UiPlace'
  <1>0. UI \in Threads
    BY DEF Threads
  <1>1. CASE Return(UI)
    BY <1>1, UiComesToPlace
  <1>2. CASE Handler
    <2>1. rest[UI] = <<>>
      BY <1>2
      DEF Handler, PressFtp, PressUsb, Load, ToggleSelect, ModuleStop, At, UiPlace, StopSteps
    <2>2. CASE UNCHANGED threadVars
      BY <2>2 DEF threadVars, UiPlace
    <2>3. CASE \/ Call(UI, "clear_run", <<"message">>)
               \/ Call(UI, "clear_run", <<"toggle_off", "message">>)
               \/ Call(UI, "clear_run", <<"toggle_on", "message">>)
      <3>1. pc'[UI] = "clear_run" /\ rest'[UI] \in StopRests
        BY <1>0, <2>1, <2>3, Calls, Joins DEF StopRests
      <3>2. QED
        BY <3>1 DEF UiPlace, StopSteps
    <2>4. CASE Call(UI, "check_wifi", <<"connect">>)
      <3>1. pc'[UI] = "check_wifi" /\ rest'[UI] = <<"connect">>
        BY <1>0, <2>1, <2>4, Calls, Joins
      <3>2. QED
        BY <3>1 DEF UiPlace
    <2>5. CASE \/ Call(UI, "stop_usb", <<"usb_off", "cable">>)
               \/ Call(UI, "stop_usb", <<>>)
               \/ Call(UI, "stop_usb", <<"toggle_on", "message">>)
      <3>1. /\ pc'[UI] = "stop_usb"
            /\ rest'[UI] \in {<<"usb_off", "cable">>, <<>>, <<"toggle_on", "message">>}
        BY <1>0, <2>1, <2>5, Calls, Joins
      <3>2. QED
        BY <3>1 DEF UiPlace
    <2>6. CASE Call(UI, "cable", <<>>) \/ Goto(UI, "stopping")
      <3>1. pc'[UI] \in {"cable", "stopping"} /\ rest'[UI] = <<>>
        BY <1>0, <2>1, <2>6, Calls, Goes, Joins
      <3>2. QED
        BY <3>1 DEF UiPlace
    <2>7. QED
      BY <1>2, <2>2, <2>3, <2>4, <2>5, <2>6
      DEF Handler, PressFtp, PressUsb, Load, ToggleSelect, ModuleStop
  <1>3. CASE \E l \in {"in_init", "set_run", "watch", "message", "init_usb", "start_usb"} :
                /\ Goto(UI, l)
                /\ \/ Connect \/ InitReturns \/ SetRun \/ Watch
                   \/ LookAtCable \/ InitUsb \/ StartUsb
    <2>1. rest[UI] = <<>>
      BY <1>3
      DEF Connect, InitReturns, SetRun, Watch, LookAtCable, InitUsb, StartUsb, At, UiPlace,
          StopSteps
    <2>2. /\ pc'[UI] \in {"in_init", "set_run", "watch", "message", "init_usb", "start_usb"}
          /\ rest'[UI] = <<>>
      BY <1>0, <1>3, <2>1, Goes
    <2>3. QED
      BY <2>2 DEF UiPlace
  <1>4. QED
    BY <1>1, <1>2, <1>3
    DEF Connect, InitReturns, SetRun, Watch, LookAtCable, InitUsb, StartUsb, SetToggle

-----------------------------------------------------------------------------
\* The network thread sets usbdeviceOFF only on its return from stopUsb.
NetPlace ==
    \/ pc[NET] \in {"idle", "check", "unplug"} /\ rest[NET] = <<>>
    \/ pc[NET] = "message" /\ rest[NET] \in {<<>>, <<"check">>, <<"unplug">>}
    \/ pc[NET] = "check_wifi" /\ rest[NET] = <<"unplug">>
    \/ pc[NET] \in StopSteps /\ rest[NET] \in {<<"message", "check">>, <<"message", "unplug">>}
    \/ /\ pc[NET] = "stop_usb"
       /\ rest[NET] \in {<<"usb_off", "message", "check">>, <<"usb_off", "message">>}
    \/ pc[NET] = "usb_off" /\ rest[NET] \in {<<"message", "check">>, <<"message">>}

\* Where the network thread goes when it returns.
LEMMA NetComesBack ==
    ASSUME ThreadsOK, NetPlace, Return(NET)
    PROVE  NetPlace' /\ (pc'[NET] = "usb_off" => pc[NET] = "stop_usb")
                     /\ pc'[NET] \notin StopSteps
  <1>0. NET \in Threads
    BY DEF Threads
  <1>1. rest[NET] = <<>> => pc'[NET] = "idle" /\ rest'[NET] = <<>>
    BY <1>0 DEF Return, Goto, ThreadsOK
  <1>2. rest[NET] # <<>> => pc'[NET] = Head(rest[NET]) /\ rest'[NET] = Tail(rest[NET])
    BY <1>0 DEF Return, ThreadsOK
  <1>3. CASE rest[NET] = <<>>
    BY <1>1, <1>3 DEF NetPlace, StopSteps
  <1>4. CASE rest[NET] \in {<<"message">>, <<"check">>, <<"unplug">>}
    <2>1. pc'[NET] \in {"message", "check", "unplug"} /\ rest'[NET] = <<>>
      <3>1. rest[NET] = <<"message">> => pc'[NET] = "message" /\ rest'[NET] = <<>>
        BY <1>2
      <3>2. rest[NET] = <<"check">> => pc'[NET] = "check" /\ rest'[NET] = <<>>
        BY <1>2
      <3>3. rest[NET] = <<"unplug">> => pc'[NET] = "unplug" /\ rest'[NET] = <<>>
        BY <1>2
      <3>4. QED
        BY <1>4, <3>1, <3>2, <3>3
    <2>2. QED
      BY <2>1 DEF NetPlace, StopSteps
  <1>5. CASE rest[NET] \in {<<"message", "check">>, <<"message", "unplug">>}
    <2>1. pc'[NET] = "message" /\ rest'[NET] \in {<<"check">>, <<"unplug">>}
      <3>1. rest[NET] = <<"message", "check">> =>
                pc'[NET] = "message" /\ rest'[NET] = <<"check">>
        BY <1>2
      <3>2. rest[NET] = <<"message", "unplug">> =>
                pc'[NET] = "message" /\ rest'[NET] = <<"unplug">>
        BY <1>2
      <3>3. QED
        BY <1>5, <3>1, <3>2
    <2>2. QED
      BY <2>1 DEF NetPlace, StopSteps
  <1>6. CASE rest[NET] = <<"usb_off", "message">>
    <2>1. pc'[NET] = "usb_off" /\ rest'[NET] = <<"message">>
      BY <1>2, <1>6
    <2>2. pc[NET] = "stop_usb"
      BY <1>6 DEF NetPlace
    <2>3. QED
      BY <2>1, <2>2 DEF NetPlace, StopSteps
  <1>7. CASE rest[NET] = <<"usb_off", "message", "check">>
    <2>1. pc'[NET] = "usb_off" /\ rest'[NET] = <<"message", "check">>
      BY <1>2, <1>7
    <2>2. pc[NET] = "stop_usb"
      BY <1>7 DEF NetPlace
    <2>3. QED
      BY <2>1, <2>2 DEF NetPlace, StopSteps
  <1>8. QED
    BY <1>3, <1>4, <1>5, <1>6, <1>7 DEF NetPlace

\* What the network thread does keeps it at its places.
LEMMA NetStepPlace ==
    ASSUME ThreadsOK, NetPlace, Continue(NET) \/ NetctlCb \/ Check \/ Unplug
    PROVE  NetPlace'
  <1>0. NET \in Threads
    BY DEF Threads
  <1>1. CASE Return(NET)
    BY <1>1, NetComesBack
  <1>2. CASE CheckWifi(NET) /\ Call(NET, "clear_run", <<"message">>)
    <2>1. rest[NET] = <<"unplug">>
      BY <1>2 DEF CheckWifi, At, NetPlace, StopSteps
    <2>2. pc'[NET] = "clear_run" /\ rest'[NET] = <<"message", "unplug">>
      BY <1>0, <1>2, <2>1, Calls, Joins
    <2>3. QED
      BY <2>2 DEF NetPlace, StopSteps
  <1>3. CASE pc[NET] \in StopSteps /\ \E l \in StopSteps : Goto(NET, l)
    <2>1. rest[NET] \in {<<"message", "check">>, <<"message", "unplug">>}
      BY <1>3 DEF NetPlace, StopSteps
    <2>2. pc'[NET] \in StopSteps /\ rest'[NET] = rest[NET]
      BY <1>0, <1>3, Goes
    <2>3. QED
      BY <2>1, <2>2 DEF NetPlace
  <1>4. CASE NetctlCb \/ Check \/ Unplug
    <2>1. rest[NET] = <<>>
      BY <1>4 DEF NetctlCb, Check, Unplug, At, NetPlace, StopSteps
    <2>2. CASE Goto(NET, "check") \/ Goto(NET, "unplug")
      <3>1. pc'[NET] \in {"check", "unplug"} /\ rest'[NET] = <<>>
        BY <1>0, <2>1, <2>2, Goes
      <3>2. QED
        BY <3>1 DEF NetPlace
    <2>3. CASE Call(NET, "check_wifi", <<"unplug">>)
      <3>1. pc'[NET] = "check_wifi" /\ rest'[NET] = <<"unplug">>
        BY <1>0, <2>1, <2>3, Calls, Joins
      <3>2. QED
        BY <3>1 DEF NetPlace
    <2>4. CASE Call(NET, "clear_run", <<"message", "check">>)
      <3>1. pc'[NET] = "clear_run" /\ rest'[NET] = <<"message", "check">>
        BY <1>0, <2>1, <2>4, Calls, Joins
      <3>2. QED
        BY <3>1 DEF NetPlace, StopSteps
    <2>5. CASE Call(NET, "stop_usb", <<"usb_off", "message">>)
      <3>1. pc'[NET] = "stop_usb" /\ rest'[NET] = <<"usb_off", "message">>
        BY <1>0, <2>1, <2>5, Calls, Joins
      <3>2. QED
        BY <3>1 DEF NetPlace
    <2>6. CASE Call(NET, "stop_usb", <<"usb_off", "message", "check">>)
      <3>1. <<"usb_off", "message", "check">> \o <<>> = <<"usb_off", "message", "check">>
        OBVIOUS
      <3>2. pc'[NET] = "stop_usb" /\ rest'[NET] = <<"usb_off", "message", "check">>
        BY <1>0, <2>1, <2>6, <3>1, Calls
      <3>3. QED
        BY <3>2 DEF NetPlace
    <2>7. QED
      BY <1>1, <1>4, <2>2, <2>3, <2>4, <2>5, <2>6 DEF NetctlCb, Check, Unplug
  <1>5. QED
    <2>1. ClearRun(NET) => pc[NET] \in StopSteps /\ Goto(NET, "fini")
      BY DEF ClearRun, At, StopSteps
    <2>2. Fini(NET) => Return(NET) \/ (pc[NET] \in StopSteps /\ Goto(NET, "in_fini"))
      BY DEF Fini, At, StopSteps
    <2>3. CheckWifi(NET) => Return(NET) \/ Call(NET, "clear_run", <<"message">>)
      BY DEF CheckWifi
    <2>4. FiniReturns(NET) \/ StartThread(NET) \/ StopUsb(NET) \/ UsbOff(NET) => Return(NET)
      BY DEF FiniReturns, StartThread, StopUsb, UsbOff
    <2>5. ~Notice(NET)
      BY ThreadsDiffer DEF Notice, At, ThreadsOK, Threads, Labels, NetLabels, StopSteps
    <2>6. "fini" \in StopSteps /\ "in_fini" \in StopSteps
      BY DEF StopSteps
    <2>7. QED
      BY <1>1, <1>2, <1>3, <1>4, <2>1, <2>2, <2>3, <2>4, <2>5, <2>6 DEF Continue

-----------------------------------------------------------------------------
\* Every step leaves both threads at their places.
LEMMA StepPlace == TypeOK /\ UiPlace /\ NetPlace /\ [Next]_vars => UiPlace' /\ NetPlace'
  <1> SUFFICES ASSUME TypeOK, UiPlace, NetPlace, [Next]_vars PROVE UiPlace' /\ NetPlace'
    OBVIOUS
  <1>0. ThreadsOK /\ UI \in Threads /\ NET \in Threads /\ REFRESH \in Threads
    BY DEF TypeOK, Threads
  <1>1. CASE UNCHANGED threadVars
    BY <1>1 DEF threadVars, UiPlace, NetPlace
  <1>2. CASE Continue(UI) \/ Handler \/ UiContinue
    <2>1. UiPlace'
      BY <1>0, <1>2, UiContinuePlace, UiStepPlace DEF UiContinue
    <2>2. pc'[NET] = pc[NET] /\ rest'[NET] = rest[NET]
      <3>1. CASE Continue(UI)
        BY <1>0, <3>1, OthersReturn, ThreadsDiffer
        DEF Continue, CheckWifi, ClearRun, Fini, FiniReturns, StartThread, Notice, StopUsb, UsbOff
      <3>2. CASE Handler
        BY <1>0, <3>2, OthersReturn, ThreadsDiffer
        DEF Handler, PressFtp, PressUsb, Load, ToggleSelect, ModuleStop, threadVars
      <3>3. QED
        BY <1>0, <1>2, <3>1, <3>2, OthersReturn, ThreadsDiffer
        DEF UiContinue, Connect, InitReturns, SetRun, Watch, LookAtCable, InitUsb, StartUsb,
            SetToggle
    <2>3. QED
      BY <2>1, <2>2 DEF NetPlace
  <1>3. CASE NetContinue
    <2>1. NetPlace'
      BY <1>0, <1>3, NetStepPlace DEF NetContinue
    <2>2. pc'[UI] = pc[UI] /\ rest'[UI] = rest[UI]
      BY <1>0, <1>3, OthersReturn, ThreadsDiffer
      DEF NetContinue, NetctlCb, Check, Unplug,
          Continue, CheckWifi, ClearRun, Fini, FiniReturns, StartThread, Notice, StopUsb, UsbOff
    <2>3. QED
      BY <2>1, <2>2 DEF UiPlace
  <1>4. CASE Continue(REFRESH)
    <2>1. \A u \in {UI, NET} : pc'[u] = pc[u] /\ rest'[u] = rest[u]
      BY <1>0, <1>4, OthersReturn, ThreadsDiffer
      DEF Continue, CheckWifi, ClearRun, Fini, FiniReturns, StartThread, Notice, StopUsb, UsbOff
    <2>2. QED
      BY <2>1 DEF UiPlace, NetPlace
  <1>5. ASSUME NEW t \in Notifiers, Notify(t) PROVE UiPlace' /\ NetPlace'
    <2>1. t \in Threads /\ t # NET
      BY NotifiersAreThreads, ThreadsDiffer DEF Threads
    <2>2. NetPlace'
      BY <1>0, <1>5, <2>1, OthersReturn DEF Notify, NetPlace
    <2>3. CASE t = UI
      <3>1. rest[UI] = <<>>
        BY <1>5, <2>3 DEF Notify, At, UiPlace, StopSteps
      <3>2. pc'[UI] = "notice" /\ rest'[UI] = <<>>
        BY <1>0, <1>5, <2>3, <3>1, Goes DEF Notify
      <3>3. QED
        BY <2>2, <3>2 DEF UiPlace
    <2>4. CASE t # UI
      BY <1>0, <1>5, <2>1, <2>2, <2>4, OthersReturn DEF Notify, UiPlace
    <2>5. QED
      BY <2>3, <2>4
  <1>6. CASE (\E m \in Messages : MessageContinue(m)) \/ World
    BY <1>1, <1>6 DEF MessageContinue, MessageReads, MessageUsbOff, MessageEnds, World
  <1>7. QED
    BY <1>1, <1>2, <1>3, <1>4, <1>5, <1>6 DEF Next, Step, vars

-----------------------------------------------------------------------------
(***************************************************************************)
(* What is selected cannot change while the UI thread is about to start    *)
(* the one or the other: only a handler of its own changes it.             *)
(***************************************************************************)
Beginning == {"usb_off", "cable", "init_usb", "start_usb"}

ToUsb == pc[UI] \in Beginning \/ rest[UI] = <<"usb_off", "cable">>
ToFtp == pc[UI] \in StartSteps \/ rest[UI] \in {<<"connect">>, <<"message", "connect">>}

WantInv == /\ ToUsb => ~selectWifiUsb /\ ~FtpOnly
           /\ ToFtp => selectWifiUsb \/ FtpOnly

Types == TypeOK /\ UiPlace /\ NetPlace

\* Nothing but the handler changes the selection; the model never changes.
LEMMA SelectionStays == Step => model' = model /\ (ToggleSelect \/ selectWifiUsb' = selectWifiUsb)
  BY DEF Step, Handler, PressFtp, PressUsb, Load, ModuleStop, ToggleSelect, UiContinue, NetContinue,
         Continue, CheckWifi, ClearRun, Fini, FiniReturns, StartThread, Notice, StopUsb, UsbOff,
         Connect, InitReturns, SetRun, Watch, LookAtCable, InitUsb, StartUsb, SetToggle, Notify,
         NetctlCb, Check, Unplug, MessageContinue, MessageReads, MessageUsbOff, MessageEnds, World,
         uiVars, worldVars

\* Only steps of the UI thread move the UI thread.
LEMMA UiMovesItself ==
    ASSUME Types, Step
    PROVE  \/ pc'[UI] = pc[UI] /\ rest'[UI] = rest[UI]
           \/ Handler \/ UiContinue \/ Notify(UI)
  <1>0. ThreadsOK /\ UI \in Threads /\ NET \in Threads /\ REFRESH \in Threads
    BY DEF Types, TypeOK, Threads
  <1>1. CASE NetContinue
    BY <1>0, <1>1, OthersReturn, ThreadsDiffer
    DEF NetContinue, NetctlCb, Check, Unplug,
        Continue, CheckWifi, ClearRun, Fini, FiniReturns, StartThread, Notice, StopUsb, UsbOff
  <1>2. CASE Continue(REFRESH)
    BY <1>0, <1>2, OthersReturn, ThreadsDiffer
    DEF Continue, CheckWifi, ClearRun, Fini, FiniReturns, StartThread, Notice, StopUsb, UsbOff
  <1>3. ASSUME NEW t \in Notifiers, Notify(t), t # UI
        PROVE  pc'[UI] = pc[UI] /\ rest'[UI] = rest[UI]
    BY <1>0, <1>3, OthersReturn, NotifiersAreThreads DEF Notify, Threads
  <1>4. CASE (\E m \in Messages : MessageContinue(m)) \/ World
    BY <1>4 DEF MessageContinue, MessageReads, MessageUsbOff, MessageEnds, World, threadVars
  <1>5. QED
    BY <1>1, <1>2, <1>3, <1>4 DEF Step

LEMMA StepWant == Types /\ WantInv /\ Step => WantInv'
  <1> SUFFICES ASSUME Types, WantInv, Step PROVE WantInv'
    OBVIOUS
  <1>0. ThreadsOK /\ UiPlace /\ UI \in Threads /\ FtpOnly' = FtpOnly
    BY SelectionStays DEF Types, TypeOK, Threads, FtpOnly
  <1>1. CASE pc'[UI] = pc[UI] /\ rest'[UI] = rest[UI] /\ selectWifiUsb' = selectWifiUsb
    BY <1>0, <1>1 DEF WantInv, ToUsb, ToFtp
  <1>2. CASE Return(UI) /\ selectWifiUsb' = selectWifiUsb
    <2>1. ToUsb' => ToUsb
      BY <1>0, <1>2, UiComesBack DEF ToUsb, Beginning, UiPlace, StopRests
    <2>2. ToFtp' => ToFtp
      <3>1. rest'[UI] \in {<<>>, <<"cable">>, <<"message">>} =>
                /\ rest'[UI] # <<"connect">>
                /\ rest'[UI] # <<"message", "connect">>
        OBVIOUS
      <3>2. CASE pc'[UI] = "connect"
        BY <1>0, <1>2, <3>2, UiComesBack DEF ToFtp
      <3>3. CASE rest'[UI] = <<"connect">>
        BY <1>0, <1>2, <3>1, <3>3, UiComesBack DEF ToFtp
      <3>4. pc'[UI] \notin StartSteps \ {"connect"}
        BY <1>0, <1>2, UiComesBack DEF StartSteps
      <3>5. rest'[UI] # <<"message", "connect">>
        BY <1>0, <1>2, <3>1, UiComesBack
      <3>6. QED
        BY <3>2, <3>3, <3>4, <3>5 DEF ToFtp
    <2>3. QED
      BY <1>0, <1>2, <2>1, <2>2 DEF WantInv
  <1>3. CASE PressFtp
    <2>1. pc'[UI] \in {"clear_run", "check_wifi"} /\ rest'[UI] \in {<<"message">>, <<"connect">>}
      BY <1>0, <1>3, Calls, Joins DEF PressFtp, At, UiPlace, StopSteps
    <2>2. QED
      BY <1>0, <1>3, <2>1 DEF PressFtp, WantInv, ToUsb, ToFtp, StartSteps, Beginning
  <1>4. CASE PressUsb
    <2>1. rest[UI] = <<>>
      BY <1>0, <1>4 DEF PressUsb, At, UiPlace, StopSteps
    <2>2. pc'[UI] \in {"stop_usb", "cable"} /\ rest'[UI] \in {<<"usb_off", "cable">>, <<>>}
      BY <1>0, <1>4, <2>1, Calls, Joins DEF PressUsb
    <2>3. QED
      BY <1>0, <1>4, <2>2 DEF PressUsb, WantInv, ToUsb, ToFtp, StartSteps
  <1>5. CASE Load \/ ToggleSelect
    <2>1. pc[UI] = "idle" /\ rest[UI] = <<>>
      BY <1>0, <1>5 DEF Load, ToggleSelect, At, UiPlace, StopSteps
    <2>2. CASE UNCHANGED threadVars
      BY <2>1, <2>2 DEF threadVars, WantInv, ToUsb, ToFtp, StartSteps, Beginning
    <2>3. CASE Call(UI, "stop_usb", <<>>)
      <3>1. pc'[UI] = "stop_usb" /\ rest'[UI] = <<>>
        BY <1>0, <2>1, <2>3, Calls, Joins
      <3>2. QED
        BY <3>1 DEF WantInv, ToUsb, ToFtp, StartSteps, Beginning
    <2>4. CASE \E l \in {"stop_usb", "clear_run"}, r \in {"toggle_off", "toggle_on"} :
                  Call(UI, l, <<r, "message">>)
      <3>1. PICK l \in {"stop_usb", "clear_run"}, r \in {"toggle_off", "toggle_on"} :
                  Call(UI, l, <<r, "message">>)
        BY <2>4
      <3>2. pc'[UI] \in {"stop_usb", "clear_run"} /\ rest'[UI] = <<r, "message">>
        BY <1>0, <2>1, <3>1, Calls, Joins
      <3>3. /\ <<r, "message">> # <<"usb_off", "cable">> /\ <<r, "message">> # <<"connect">>
            /\ <<r, "message">> # <<"message", "connect">>
        OBVIOUS
      <3>4. QED
        BY <3>2, <3>3 DEF WantInv, ToUsb, ToFtp, StartSteps, Beginning
    <2>5. QED
      BY <1>5, <2>2, <2>3, <2>4 DEF Load, ToggleSelect
  <1>6. CASE ModuleStop \/ Notify(UI)
    <2>1. rest[UI] = <<>>
      BY <1>0, <1>6 DEF ModuleStop, Notify, At, UiPlace, StopSteps
    <2>2. pc'[UI] \in {"stopping", "notice"} /\ rest'[UI] = <<>>
      BY <1>0, <1>6, <2>1, Goes DEF ModuleStop, Notify
    <2>3. QED
      BY <2>2 DEF WantInv, ToUsb, ToFtp, StartSteps, Beginning
  <1>7. CASE UiContinue
    <2>1. selectWifiUsb' = selectWifiUsb
      BY <1>7
      DEF UiContinue, Continue, CheckWifi, ClearRun, Fini, FiniReturns, StartThread, Notice, StopUsb,
          UsbOff, Connect, InitReturns, SetRun, Watch, LookAtCable, InitUsb, StartUsb, SetToggle,
          uiVars
    <2>2. CASE CheckWifi(UI) /\ Call(UI, "clear_run", <<"message">>)
      <3>1. rest[UI] = <<"connect">>
        BY <1>0, <2>2 DEF CheckWifi, At, UiPlace, StopSteps
      <3>2. pc'[UI] = "clear_run" /\ rest'[UI] = <<"message", "connect">>
        BY <1>0, <2>2, <3>1, Calls, Joins
      <3>3. QED
        BY <1>0, <2>1, <3>1, <3>2 DEF WantInv, ToUsb, ToFtp, StartSteps, Beginning
    <2>3. CASE \E l \in {"fini", "in_fini", "message"} : Goto(UI, l)
      <3>1. pc'[UI] \in {"fini", "in_fini", "message"} /\ rest'[UI] = rest[UI]
        BY <1>0, <2>3, Goes
      <3>2. (ToUsb' => ToUsb) /\ (ToFtp' => ToFtp)
        BY <3>1 DEF ToUsb, ToFtp, StartSteps, Beginning
      <3>3. QED
        BY <1>0, <2>1, <3>2 DEF WantInv
    <2>4. CASE /\ pc[UI] \in StartSteps
               /\ \E l \in StartSteps : Goto(UI, l)
      <3>1. rest[UI] = <<>>
        BY <1>0, <2>4 DEF UiPlace, StartSteps, StopSteps
      <3>2. pc'[UI] \in StartSteps /\ rest'[UI] = <<>>
        BY <1>0, <2>4, <3>1, Goes
      <3>3. QED
        BY <1>0, <2>1, <2>4, <3>2 DEF WantInv, ToUsb, ToFtp, StartSteps, Beginning
    <2>5. CASE /\ pc[UI] \in Beginning
               /\ \E l \in {"init_usb", "start_usb"} : Goto(UI, l)
      <3>1. rest'[UI] = rest[UI] /\ pc'[UI] \in {"init_usb", "start_usb"}
        BY <1>0, <2>5, Goes
      <3>2. (ToUsb' => ToUsb) /\ (ToFtp' => ToFtp)
        BY <2>5, <3>1 DEF ToUsb, ToFtp, StartSteps, Beginning
      <3>3. QED
        BY <1>0, <2>1, <3>2 DEF WantInv
    <2>6. CASE Continue(UI)
      BY <1>2, <2>1, <2>2, <2>3, <2>6
      DEF Continue, CheckWifi, ClearRun, Fini, FiniReturns, StartThread, Notice, StopUsb, UsbOff
    <2>7. CASE Connect \/ InitReturns \/ SetRun \/ Watch
      BY <1>2, <2>1, <2>3, <2>4, <2>7 DEF Connect, InitReturns, SetRun, Watch, At, StartSteps
    <2>8. CASE LookAtCable \/ InitUsb \/ StartUsb
      BY <2>3, <2>5, <2>8 DEF LookAtCable, InitUsb, StartUsb, At, Beginning
    <2>9. QED
      BY <1>2, <1>7, <2>1, <2>6, <2>7, <2>8 DEF UiContinue, SetToggle
  <1>8. QED
    BY <1>1, <1>3, <1>4, <1>5, <1>6, <1>7, SelectionStays, UiMovesItself DEF Handler

-----------------------------------------------------------------------------
(***************************************************************************)
(* Who changes what the storage and the server share, and what brings a    *)
(* thread to the labels that matter.                                       *)
(***************************************************************************)
LEMMA WhoShares == Step => (storage' => storage \/ StartUsb)
  BY DEF Step, Handler, PressFtp, PressUsb, Load, ToggleSelect, ModuleStop, UiContinue, NetContinue, Continue,
      CheckWifi, ClearRun, Fini, FiniReturns, StartThread, Notice, StopUsb, UsbOff, Connect, InitReturns,
      SetRun, Watch, LookAtCable, InitUsb, StartUsb, SetToggle, Notify, NetctlCb, Check, Unplug,
      MessageContinue, MessageReads, MessageUsbOff, MessageEnds, World, usbVars

LEMMA WhoStops == Step => unstopped' = unstopped \/ unstopped' = storage'
  BY DEF Step, Handler, PressFtp, PressUsb, Load, ToggleSelect, ModuleStop, UiContinue, NetContinue, Continue,
      CheckWifi, ClearRun, Fini, FiniReturns, StartThread, Notice, StopUsb, UsbOff, Connect, InitReturns,
      SetRun, Watch, LookAtCable, InitUsb, StartUsb, SetToggle, Notify, NetctlCb, Check, Unplug,
      MessageContinue, MessageReads, MessageUsbOff, MessageEnds, World, usbVars

LEMMA WhoStarts == Step => (ftpInitialized' => ftpInitialized \/ InitReturns)
  BY DEF Step, Handler, PressFtp, PressUsb, Load, ToggleSelect, ModuleStop, UiContinue, NetContinue, Continue,
      CheckWifi, ClearRun, Fini, FiniReturns, StartThread, Notice, StopUsb, UsbOff, Connect, InitReturns,
      SetRun, Watch, LookAtCable, InitUsb, StartUsb, SetToggle, Notify, NetctlCb, Check, Unplug,
      MessageContinue, MessageReads, MessageUsbOff, MessageEnds, World, ftpVars

LEMMA WhoForgets == Step => (usbdeviceModid => usbdeviceModid' \/ StartUsb)
  BY DEF Step, Handler, PressFtp, PressUsb, Load, ToggleSelect, ModuleStop, UiContinue, NetContinue, Continue,
      CheckWifi, ClearRun, Fini, FiniReturns, StartThread, Notice, StopUsb, UsbOff, Connect, InitReturns,
      SetRun, Watch, LookAtCable, InitUsb, StartUsb, SetToggle, Notify, NetctlCb, Check, Unplug,
      MessageContinue, MessageReads, MessageUsbOff, MessageEnds, World, usbVars

LEMMA WhoSwitchesOff ==
    Step => (usbdeviceOff' => \/ usbdeviceOff \/ StartUsb
                              \/ \E t \in {UI, NET, REFRESH} : UsbOff(t)
                              \/ \E m \in Messages : MessageUsbOff(m))
  BY DEF Step, Handler, PressFtp, PressUsb, Load, ToggleSelect, ModuleStop, UiContinue, NetContinue, Continue,
      CheckWifi, ClearRun, Fini, FiniReturns, StartThread, Notice, StopUsb, UsbOff, Connect, InitReturns,
      SetRun, Watch, LookAtCable, InitUsb, StartUsb, SetToggle, Notify, NetctlCb, Check, Unplug,
      MessageContinue, MessageReads, MessageUsbOff, MessageEnds, World, usbVars

LEMMA WhichMessage ==
    ASSUME TypeOK, Step, NEW m \in Messages, msgPc'[m] = "usb_off"
    PROVE  \/ msgPc[m] = "usb_off"
           \/ selectWifiUsb /\ ~FtpOnly /\ UNCHANGED threadVars
  <1>1. CASE \E n \in Messages : MessageContinue(n)
    <2>1. PICK n \in Messages : MessageContinue(n)
      BY <1>1
    <2>2. CASE n = m
      BY <2>1, <2>2
      DEF MessageContinue, MessageReads, MessageUsbOff, MessageEnds, MessageStep, TypeOK
    <2>3. CASE n # m
      BY <2>1, <2>3
      DEF MessageContinue, MessageReads, MessageUsbOff, MessageEnds, MessageStep, TypeOK
    <2>4. QED
      BY <2>2, <2>3
  <1>2. CASE \E t \in {UI, NET, REFRESH} : StartThread(t)
    BY <1>2 DEF StartThread, TypeOK
  <1>3. CASE msgPc' = msgPc
    BY <1>3
  <1>4. QED
    BY <1>1, <1>2, <1>3
    DEF Step, Handler, PressFtp, PressUsb, Load, ToggleSelect, ModuleStop, UiContinue, NetContinue,
        Continue, CheckWifi, ClearRun, Fini, FiniReturns, Notice, StopUsb, UsbOff, Connect,
        InitReturns, SetRun, Watch, LookAtCable, InitUsb, StartUsb, SetToggle, Notify, NetctlCb,
        Check, Unplug, World, msgVars

\* A thread that has begun to stop the server goes on until it is down.
LEMMA StopsToTheEnd ==
    ASSUME ThreadsOK, NEW t \in Threads, pc[t] \in StopSteps,
           Continue(t)
    PROVE  pc'[t] \in StopSteps \/ ~ftpInitialized'
  <1>1. CASE \E l \in StopSteps : Goto(t, l)
    BY <1>1, Goes
  <1>2. QED
    BY <1>1
    DEF Continue, CheckWifi, ClearRun, Fini, FiniReturns, StartThread, Notice, StopUsb, UsbOff, At,
        StopSteps, ftpVars

\* How the UI thread comes to the labels it begins with.
LEMMA UiBegins ==
    ASSUME Types, Step
    PROVE  /\ pc[UI] \in StopSteps => pc'[UI] \in StopSteps \/ ~ftpInitialized'
           /\ pc[UI] = "stop_usb" => pc'[UI] = "stop_usb" \/ StopUsb(UI)
           /\ pc'[UI] \in Beginning =>
                 pc[UI] \in Beginning \/ StopUsb(UI) \/ (PressUsb /\ ~usbdeviceModid)
           /\ pc'[UI] = "start_usb" => pc[UI] = "start_usb" \/ InitUsb
           /\ StartUsb => pc'[UI] = "message"
  <1>0. ThreadsOK /\ UiPlace /\ UI \in Threads
    BY DEF Types, TypeOK, Threads
  <1>s. StartUsb => pc'[UI] = "message"
    BY <1>0, Goes DEF StartUsb
  <1>1. CASE pc'[UI] = pc[UI]
    BY <1>1, <1>s
  <1>2. CASE Continue(UI)
    <2>1. pc[UI] \in StopSteps => pc'[UI] \in StopSteps \/ ~ftpInitialized'
      BY <1>0, <1>2, StopsToTheEnd
    <2>2. pc[UI] = "stop_usb" => StopUsb(UI)
      BY <1>2
      DEF Continue, CheckWifi, ClearRun, Fini, FiniReturns, StartThread, Notice, StopUsb, UsbOff,
          At
    <2>3. CASE Return(UI)
      <3>1. pc'[UI] \in Beginning => pc[UI] \in Beginning \cup {"stop_usb"}
        BY <1>0, <2>3, UiComesBack DEF Beginning, UiPlace, StopRests
      <3>2. pc'[UI] # "start_usb"
        BY <1>0, <2>3, UiComesBack
      <3>3. QED
        BY <1>s, <2>1, <2>2, <3>1, <3>2 DEF Beginning
    <2>4. CASE pc'[UI] \in {"clear_run", "fini", "in_fini", "message"}
      BY <1>s, <2>1, <2>2, <2>4 DEF Beginning
    <2>5. QED
      BY <1>0, <1>2, <2>3, <2>4, Goes, Calls
      DEF Continue, CheckWifi, ClearRun, Fini, FiniReturns, StartThread, Notice, StopUsb, UsbOff
  <1>3. CASE Handler \/ Notify(UI)
    <2>1. pc[UI] = "idle"
      BY <1>3 DEF Handler, PressFtp, PressUsb, Load, ToggleSelect, ModuleStop, Notify, At
    <2>2. CASE UNCHANGED threadVars
      BY <1>1, <2>2 DEF threadVars
    <2>3. CASE pc'[UI] \in {"clear_run", "check_wifi", "stop_usb", "stopping", "notice"}
      BY <1>s, <2>1, <2>3 DEF Beginning, StopSteps
    <2>4. CASE PressUsb /\ ~usbdeviceModid
      <3>1. pc'[UI] = "cable"
        BY <1>0, <2>4, Calls DEF PressUsb
      <3>2. QED
        BY <1>s, <2>1, <2>4, <3>1 DEF StopSteps
    <2>5. QED
      BY <1>0, <1>3, <2>2, <2>3, <2>4, Goes, Calls
      DEF Handler, PressFtp, PressUsb, Load, ToggleSelect, ModuleStop, Notify
  <1>4. CASE Connect \/ InitReturns \/ SetRun \/ Watch
    <2>1. pc[UI] \in StartSteps /\ rest[UI] = <<>>
      BY <1>0, <1>4 DEF Connect, InitReturns, SetRun, Watch, At, StartSteps, UiPlace, StopSteps
    <2>2. pc'[UI] \in {"idle", "in_init", "set_run", "watch", "message"}
      BY <1>0, <1>4, <2>1, UiComesBack, Goes DEF Connect, InitReturns, SetRun, Watch
    <2>3. QED
      BY <1>s, <2>1, <2>2 DEF StartSteps, StopSteps, Beginning
  <1>5. CASE LookAtCable \/ InitUsb \/ StartUsb
    <2>1. pc[UI] \in Beginning
      BY <1>5 DEF LookAtCable, InitUsb, StartUsb, At, Beginning
    <2>2. pc'[UI] = "start_usb" => InitUsb
      BY <1>0, <1>5, Goes DEF LookAtCable, InitUsb, StartUsb
    <2>3. QED
      BY <1>s, <2>1, <2>2 DEF StopSteps, Beginning
  <1>6. CASE SetToggle("toggle_off", FALSE) \/ SetToggle("toggle_on", TRUE)
    <2>1. pc[UI] \in {"toggle_off", "toggle_on"} /\ rest[UI] = <<"message">>
      BY <1>0, <1>6 DEF SetToggle, At, UiPlace, StopSteps
    <2>2. pc'[UI] = "message"
      BY <1>0, <1>6, <2>1, UiComesBack DEF SetToggle
    <2>3. QED
      BY <1>s, <2>1, <2>2 DEF StopSteps, Beginning
  <1>7. QED
    BY <1>1, <1>2, <1>3, <1>4, <1>5, <1>6, UiMovesItself DEF UiContinue

\* And the network thread.
LEMMA NetBegins ==
    ASSUME Types, Step
    PROVE  /\ pc[NET] \in StopSteps => pc'[NET] \in StopSteps \/ ~ftpInitialized'
           /\ pc'[NET] = "usb_off" => pc[NET] = "usb_off" \/ StopUsb(NET)
  <1>0. /\ ThreadsOK /\ NetPlace
        /\ UI \in Threads /\ NET \in Threads /\ REFRESH \in Threads
    BY DEF Types, TypeOK, Threads
  <1>1. CASE pc'[NET] = pc[NET]
    BY <1>1
  <1>2. CASE Continue(NET)
    <2>1. pc[NET] \in StopSteps => pc'[NET] \in StopSteps \/ ~ftpInitialized'
      BY <1>0, <1>2, StopsToTheEnd
    <2>2. pc[NET] = "stop_usb" => StopUsb(NET)
      BY <1>2
      DEF Continue, CheckWifi, ClearRun, Fini, FiniReturns, StartThread, Notice, StopUsb, UsbOff,
          At
    <2>3. CASE Return(NET)
      BY <1>0, <2>1, <2>2, <2>3, NetComesBack
    <2>4. CASE pc'[NET] \in {"clear_run", "fini", "in_fini", "message"}
      BY <2>1, <2>4
    <2>5. QED
      BY <1>0, <1>2, <2>3, <2>4, Goes, Calls
      DEF Continue, CheckWifi, ClearRun, Fini, FiniReturns, StartThread, Notice, StopUsb, UsbOff
  <1>3. CASE NetctlCb \/ Check \/ Unplug
    <2>1. pc[NET] \in {"idle", "check", "unplug"}
      BY <1>3 DEF NetctlCb, Check, Unplug, At
    <2>2. pc'[NET] # "usb_off"
      BY <1>0, <1>3, <2>1, NetComesBack, Goes, Calls DEF NetctlCb, Check, Unplug
    <2>3. QED
      BY <2>1, <2>2 DEF StopSteps
  <1>4. CASE UiContinue \/ Handler \/ Continue(REFRESH)
    <2>1. CASE Handler
      BY <1>0, <1>1, <2>1, OthersReturn, ThreadsDiffer
      DEF Handler, PressFtp, PressUsb, Load, ToggleSelect, ModuleStop, threadVars
    <2>2. CASE Continue(UI) \/ Continue(REFRESH)
      BY <1>0, <1>1, <2>2, OthersReturn, ThreadsDiffer
      DEF Continue, CheckWifi, ClearRun, Fini, FiniReturns, StartThread, Notice, StopUsb, UsbOff
    <2>3. QED
      BY <1>0, <1>1, <1>4, <2>1, <2>2, OthersReturn, ThreadsDiffer
      DEF UiContinue, Connect, InitReturns, SetRun, Watch, LookAtCable, InitUsb, StartUsb, SetToggle
  <1>5. CASE \E t \in Notifiers : Notify(t)
    BY <1>0, <1>1, <1>5, OthersReturn, NotifiersAreThreads, ThreadsDiffer DEF Notify, Threads
  <1>6. CASE (\E m \in Messages : MessageContinue(m)) \/ World
    BY <1>1, <1>6 DEF MessageContinue, MessageReads, MessageUsbOff, MessageEnds, World, threadVars
  <1>7. QED
    BY <1>2, <1>3, <1>4, <1>5, <1>6 DEF Step, NetContinue

-----------------------------------------------------------------------------
(***************************************************************************)
(* While nothing has crossed: who is about to end the storage, and who the *)
(* server, whenever the selection says the other.                          *)
(***************************************************************************)
Watched ==
    storage /\ ~unstopped =>
        /\ usbdeviceModid /\ ~usbdeviceOff /\ ~FtpOnly
        /\ selectWifiUsb => pc[UI] = "stop_usb"
        /\ pc[UI] \notin Beginning
        /\ pc[NET] # "usb_off"
        /\ \A m \in Messages : msgPc[m] # "usb_off"
        /\ ftpInitialized => pc[NET] \in StopSteps

SwitchedOn == pc[UI] = "start_usb" => ~usbdeviceOff

Selected ==
    ftpInitialized => \/ selectWifiUsb \/ FtpOnly
                      \/ pc[UI] \in StopSteps \/ pc[NET] \in StopSteps

UsbInv == ~crossed => Watched /\ SwitchedOn /\ Selected

\* The storage is shared by StartUsb only, and whoever would leave it unwatched
\* would have to cross the UI thread.
LEMMA StepWatched ==
    ASSUME Types, WantInv, FtpInv, Watched, SwitchedOn, Selected, Step,
           ~crossed, ~Crossing, ~Crossing'
    PROVE  Watched'
  <1> SUFFICES ASSUME storage', ~unstopped' PROVE Watched'
    BY DEF Watched
  <1>0. /\ ThreadsOK /\ UI \in Threads /\ NET \in Threads /\ REFRESH \in Threads
        /\ FtpOnly' = FtpOnly
        /\ TypeOK
    BY SelectionStays DEF Types, TypeOK, Threads, FtpOnly
  <1>n. ~unstopped /\ \A t \in Threads : ~StopUsb(t)
    BY WhoStops DEF StopUsb, Types, TypeOK
  <1>1. CASE StartUsb
    <2>1. pc[UI] = "start_usb" /\ pc'[UI] = "message" /\ pc'[NET] = pc[NET]
      BY <1>0, <1>1, UiBegins, OthersReturn, ThreadsDiffer DEF StartUsb, At
    <2>2. ~selectWifiUsb /\ ~FtpOnly /\ ~storage /\ ~usbdeviceOff
      BY <1>n, <2>1 DEF WantInv, ToUsb, Beginning, Watched, SwitchedOn
    <2>3. pc[NET] # "usb_off" /\ \A m \in Messages : msgPc[m] # "usb_off"
      BY <2>1 DEF Crossing, UsbSteps
    <2>4. ftpInitialized => pc[NET] \in StopSteps
      BY <2>1, <2>2 DEF Selected, StopSteps
    <2>5. /\ usbdeviceModid' /\ ~usbdeviceOff' /\ ~selectWifiUsb' /\ msgPc' = msgPc
          /\ ftpInitialized' = ftpInitialized
      <3>1. usbdeviceModid' = TRUE /\ usbdeviceOff' = usbdeviceOff
        BY <1>1, <2>2 DEF StartUsb
      <3>2. /\ selectWifiUsb' = selectWifiUsb /\ msgPc' = msgPc
            /\ ftpInitialized' = ftpInitialized
        BY <1>1 DEF StartUsb, msgVars, ftpVars, uiVars
      <3>3. QED
        BY <2>2, <3>1, <3>2
    <2>6. QED
      BY <1>0, <2>1, <2>2, <2>3, <2>4, <2>5 DEF Watched, Beginning
  <1>2. CASE ~StartUsb
    <2>0. /\ storage /\ usbdeviceModid /\ ~usbdeviceOff /\ ~FtpOnly
          /\ selectWifiUsb => pc[UI] = "stop_usb"
          /\ pc[UI] \notin Beginning /\ pc[NET] # "usb_off"
          /\ \A m \in Messages : msgPc[m] # "usb_off"
          /\ ftpInitialized => pc[NET] \in StopSteps
      BY <1>2, <1>n, WhoShares DEF Watched
    <2>1. usbdeviceModid'
      BY <1>2, <2>0, WhoForgets
    <2>2. ~usbdeviceOff'
      <3>1. \A t \in Threads : ~UsbOff(t)
        BY <1>0, <2>0
        DEF UsbOff, At, Beginning, ThreadsOK, Threads, Labels, RefreshLabels
      <3>2. \A m \in Messages : ~MessageUsbOff(m)
        BY <2>0 DEF MessageUsbOff, MessageStep
      <3>3. QED
        BY <1>2, <2>0, <3>1, <3>2, WhoSwitchesOff DEF Threads
    <2>3. selectWifiUsb' => pc'[UI] = "stop_usb"
      <3>1. CASE ToggleSelect
        <4>1. ~selectWifiUsb
          BY <2>0, <3>1 DEF ToggleSelect, At
        <4>2. Call(UI, "stop_usb", <<"toggle_on", "message">>)
          BY <2>0, <3>1, <4>1 DEF ToggleSelect
        <4>3. QED
          BY <1>0, <4>2, Calls
      <3>2. CASE selectWifiUsb' = selectWifiUsb
        BY <1>0, <2>0, <1>n, <3>2, UiBegins
      <3>3. QED
        BY <3>1, <3>2, SelectionStays
    <2>4. pc'[UI] \notin Beginning
      BY <1>0, <2>0, <1>n, UiBegins
    <2>5. pc'[NET] # "usb_off"
      BY <1>0, <2>0, <1>n, NetBegins
    <2>6. ASSUME NEW m \in Messages, msgPc'[m] = "usb_off" PROVE FALSE
      <3>1. selectWifiUsb /\ pc' = pc
        BY <1>0, <2>0, <2>6, WhichMessage DEF threadVars
      <3>2. pc'[UI] = "stop_usb"
        BY <2>0, <3>1
      <3>3. QED
        BY <2>6, <3>2 DEF Crossing, UsbSteps
    <2>7. ftpInitialized' => pc'[NET] \in StopSteps
      <3>1. ~InitReturns
        <4> SUFFICES ASSUME InitReturns PROVE FALSE
          OBVIOUS
        <4>1. pc[UI] = "in_init"
          BY DEF InitReturns, At
        <4>2. selectWifiUsb
          BY <2>0, <4>1 DEF WantInv, ToFtp, StartSteps
        <4>3. QED
          BY <2>0, <4>1, <4>2
      <3>2. QED
        BY <2>0, <3>1, NetBegins, WhoStarts
    <2>8. QED
      BY <1>0, <2>0, <2>1, <2>2, <2>3, <2>4, <2>5, <2>6, <2>7 DEF Watched
  <1>3. QED
    BY <1>1, <1>2

\* Between initUsb and startUsb nobody sets usbdeviceOFF.
LEMMA StepSwitchedOn ==
    ASSUME Types, SwitchedOn, Step, ~Crossing
    PROVE  SwitchedOn'
  <1> SUFFICES ASSUME pc'[UI] = "start_usb" PROVE ~usbdeviceOff'
    BY DEF SwitchedOn
  <1>1. CASE InitUsb
    BY <1>1 DEF InitUsb
  <1>2. CASE ~InitUsb
    <2>1. pc[UI] = "start_usb" /\ ~StartUsb
      BY <1>2, UiBegins
    <2>2. pc[NET] # "usb_off" /\ \A m \in Messages : msgPc[m] # "usb_off"
      BY <2>1 DEF Crossing, UsbSteps
    <2>3. pc[REFRESH] # "usb_off"
      BY ThreadsDiffer DEF Types, TypeOK, ThreadsOK, Threads, Labels, RefreshLabels
    <2>4. \A t \in {UI, NET, REFRESH} : ~UsbOff(t)
      BY <2>1, <2>2, <2>3 DEF UsbOff, At
    <2>5. \A m \in Messages : ~MessageUsbOff(m)
      BY <2>2 DEF MessageUsbOff, MessageStep
    <2>6. QED
      BY <2>1, <2>4, <2>5, WhoSwitchesOff DEF SwitchedOn
  <1>3. QED
    BY <1>1, <1>2

\* The server is started with FTP selected, and stopped before USB is.
LEMMA StepSelected ==
    ASSUME Types, WantInv, FtpInv, Selected, Step, ~crossed
    PROVE  Selected'
  <1> SUFFICES ASSUME ftpInitialized' PROVE Selected'
    BY DEF Selected
  <1>0. ThreadsOK /\ UI \in Threads /\ NET \in Threads /\ FtpOnly' = FtpOnly
    BY SelectionStays DEF Types, TypeOK, Threads, FtpOnly
  <1>1. CASE ToggleSelect
    <2>0. pc[UI] = "idle" /\ ftpInitialized /\ pc'[NET] = pc[NET]
      BY <1>0, <1>1, OthersReturn, ThreadsDiffer DEF ToggleSelect, At, ftpVars, threadVars
    <2>1. CASE selectWifiUsb'
      BY <2>1 DEF Selected
    <2>2. CASE ~selectWifiUsb' /\ run
      <3>1. pc'[UI] = "clear_run"
        BY <1>0, <1>1, <2>2, Calls DEF ToggleSelect
      <3>2. QED
        BY <3>1 DEF Selected, StopSteps
    <2>3. CASE ~run
      <3>1. pc[NET] \in FtpSteps
        BY <2>0, <2>3 DEF FtpInv, FtpSteps, StopSteps, StartSteps
      <3>2. pc[NET] \in NetLabels
        BY <1>0, ThreadsDiffer DEF ThreadsOK, Labels
      <3>3. pc[NET] \in StopSteps
        BY <3>1, <3>2 DEF FtpSteps, StartSteps, NetLabels, StopSteps
      <3>4. QED
        BY <2>0, <3>3 DEF Selected
    <2>4. QED
      BY <2>1, <2>2, <2>3
  <1>2. CASE selectWifiUsb' = selectWifiUsb
    <2>1. CASE InitReturns
      <3>1. selectWifiUsb \/ FtpOnly
        BY <2>1 DEF InitReturns, At, WantInv, ToFtp, StartSteps
      <3>2. QED
        BY <1>0, <1>2, <3>1 DEF Selected
    <2>2. CASE ftpInitialized
      BY <1>0, <1>2, <2>2, UiBegins, NetBegins DEF Selected
    <2>3. QED
      BY <2>1, <2>2, WhoStarts
  <1>3. QED
    BY <1>1, <1>2, SelectionStays

-----------------------------------------------------------------------------
StorageInv == Types /\ FtpInv /\ WantInv /\ UsbInv

LEMMA InitStorage == Init => StorageInv
  <1> SUFFICES ASSUME Init PROVE StorageInv
    OBVIOUS
  <1>0. UI \in Threads /\ NET \in Threads
    BY DEF Threads
  <1>1. TypeOK
    <2>1. ThreadsOK
      BY DEF Init, ThreadsOK, Labels, UiLabels, NetLabels, RefreshLabels
    <2>2. selectWifiUsb \in BOOLEAN
      BY DEF Init
    <2>3. QED
      BY <2>1, <2>2 DEF Init, TypeOK
  <1>2. pc[UI] = "idle" /\ rest[UI] = <<>> /\ pc[NET] = "idle" /\ rest[NET] = <<>>
    BY <1>0 DEF Init
  <1>3. UiPlace /\ NetPlace
    BY <1>2 DEF UiPlace, NetPlace
  <1>4. FtpInv
    BY <1>0 DEF Init, FtpInv, Crossing, FtpSteps, StopSteps, StartSteps, UsbSteps
  <1>5. WantInv
    BY <1>2 DEF WantInv, ToUsb, ToFtp, Beginning, StartSteps
  <1>6. UsbInv
    BY <1>2 DEF Init, UsbInv, Watched, SwitchedOn, Selected
  <1>7. QED
    BY <1>1, <1>3, <1>4, <1>5, <1>6 DEF StorageInv, Types

LEMMA StepStorage == StorageInv /\ [Next]_vars => StorageInv'
  <1> SUFFICES ASSUME StorageInv, [Next]_vars PROVE StorageInv'
    OBVIOUS
  <1>1. Types' /\ FtpInv'
    BY StepType, StepPlace, StepInv DEF StorageInv, Types
  <1>2. CASE UNCHANGED vars
    <2>1. WantInv' /\ UsbInv'
      BY <1>2
      DEF StorageInv, vars, threadVars, msgVars, ftpVars, usbVars, uiVars, worldVars, WantInv, ToUsb, ToFtp,
          FtpOnly, UsbInv, Watched, SwitchedOn, Selected
    <2>2. QED
      BY <1>1, <2>1 DEF StorageInv
  <1>3. CASE Next
    <2>1. Step /\ Records
      BY <1>3 DEF Next, Records
    <2>2. WantInv'
      BY <2>1, StepWant DEF StorageInv
    <2>3. ASSUME ~crossed' PROVE Watched' /\ SwitchedOn' /\ Selected'
      <3>1. ~crossed /\ ~Crossing /\ ~Crossing'
        BY <2>1, <2>3 DEF Records, StorageInv, FtpInv
      <3>2. QED
        BY <2>1, <3>1, StepWatched, StepSwitchedOn, StepSelected DEF StorageInv, UsbInv
    <2>4. QED
      BY <1>1, <2>2, <2>3 DEF StorageInv, UsbInv
  <1>4. QED
    BY <1>2, <1>3

LEMMA StorageInvariance == Spec => []StorageInv
  BY InitStorage, StepStorage, PTL DEF Spec

\* While nothing has crossed, and unless the last stopUsb has left the storage
\* shared, usbdeviceOFF is never set with the storage shared and nobody at it,
\* so that pulling the cable or selecting FTP will try to end it.
THEOREM StorageStaysWatched == Spec => []StorageIsWatched
  <1>1. StorageInv => StorageIsWatched
    BY DEF StorageInv, UsbInv, Watched, StorageIsWatched
  <1>2. QED
    BY <1>1, StorageInvariance, PTL

\* While nothing has crossed, and unless the last stopUsb has left the storage
\* shared, the PC and the FTP clients never have the memory card at the same
\* time, unless the network thread is just stopping the server.
THEOREM ModesStayApart == Spec => []ModesExclude
  <1>1. StorageInv => ModesExclude
    BY DEF StorageInv, UsbInv, Watched, ModesExclude
  <1>2. QED
    BY <1>1, StorageInvariance, PTL
=============================================================================
