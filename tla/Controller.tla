----------------------------- MODULE Controller -----------------------------
(***************************************************************************)
(* The plugin's own threads: the UI thread that runs the handlers of the   *)
(* settings page, the network thread that looks at Wi-Fi and cable once a  *)
(* second, the refresh thread as far as it notifies, and the short-lived   *)
(* threads that show a notification.  They share run, s_mesg, toggle,      *)
(* run_USB, usbdevice_modid, usbdeviceOFF and the FTP server, and no lock. *)
(*                                                                         *)
(* A thread is at a label and has a sequence of labels to go on with, the  *)
(* calls it has still to return from; every statement that touches what    *)
(* the threads share is a step.  init and fini of the server are a call    *)
(* and a return here, and the server is its flag ftp_initialized: what is  *)
(* between, and what two threads do to each other there, is in FtpVita.    *)
(* Starting and stopping the USB storage are a step each, which may fail;  *)
(* Storage has their calls.  What the notifications and the widgets say is *)
(* left out.                                                               *)
(***************************************************************************)
EXTENDS Integers, Sequences, FiniteSets

CONSTANTS UI, NET, REFRESH,   \* the threads
          Notifiers,          \* those with notices of their own: UI, REFRESH
          Messages,           \* identifiers for notification threads (bound)
          Models              \* the models considered, of "vita" and "vitatv"

Threads == {UI, NET, REFRESH}

ASSUME ThreadsDiffer == UI # NET /\ UI # REFRESH /\ NET # REFRESH
ASSUME NotifiersAreThreads == Notifiers \subseteq {UI, REFRESH}
ASSUME ModelsAreKnown == Models \subseteq {"vita", "vitatv"}

VARIABLES
    pc, rest,        \* where each thread is, and where it will return to
    msgPc,           \* the notification threads
    \* the globals of main.c and utils.c
    run, sMesg, toggle,
    selectWifiUsb,   \* FTP is selected (else USB)
    runUsb,          \* run_USB # 0
    usbdeviceModid,  \* usbdevice_modid >= 0
    usbdeviceOff,
    \* the FTP server and the USB storage
    ftpInitialized,
    storage,
    \* the world
    model, wifiOff,
    \* history
    unstopped,       \* the last stopUsb has left the storage shared
    unstarted,       \* the last start_thread has started nothing
    crossed          \* two threads have been at the server, or at the storage, at once

threadVars == <<pc, rest>>
ftpVars    == <<run, sMesg, ftpInitialized>>
msgVars    == <<msgPc, unstarted>>
usbVars    == <<usbdeviceModid, usbdeviceOff, storage, unstopped>>
uiVars     == <<toggle, selectWifiUsb>>
worldVars  == <<model, wifiOff>>
vars == <<threadVars, msgVars, ftpVars, usbVars, uiVars, runUsb, worldVars, crossed>>

StopSteps  == {"clear_run", "fini", "in_fini"}
StartSteps == {"connect", "in_init", "set_run", "watch"}
UsbSteps   == {"stop_usb", "usb_off", "init_usb", "start_usb"}

UiLabels  == {"idle", "stopping", "check_wifi", "toggle_off", "toggle_on", "message", "cable",
              "notice"} \cup StopSteps \cup StartSteps \cup UsbSteps
NetLabels == {"idle", "check", "check_wifi", "message", "stop_usb", "usb_off", "unplug"}
                 \cup StopSteps
RefreshLabels == {"idle", "notice", "message"}

\* The labels a thread may have to return to.
UiReturns  == {"message", "connect", "usb_off", "cable", "toggle_off", "toggle_on"}
NetReturns == {"message", "check", "unplug", "usb_off"}

Labels(t) == IF t = UI THEN UiLabels ELSE IF t = NET THEN NetLabels ELSE RefreshLabels

Returns(t) == IF t = UI THEN UiReturns ELSE IF t = NET THEN NetReturns ELSE {}

ThreadsOK ==
    /\ pc \in [Threads -> UiLabels \cup NetLabels]
    /\ rest \in [Threads -> Seq(UiReturns \cup NetReturns)]
    /\ \A t \in Threads : pc[t] \in Labels(t) /\ rest[t] \in Seq(Returns(t))

TypeOK ==
    /\ ThreadsOK
    /\ msgPc \in [Messages -> {"gone", "read", "usb_off", "delay"}]
    /\ run \in BOOLEAN /\ sMesg \in BOOLEAN /\ ftpInitialized \in BOOLEAN
    /\ toggle \in BOOLEAN /\ selectWifiUsb \in BOOLEAN /\ runUsb \in BOOLEAN
    /\ usbdeviceModid \in BOOLEAN /\ usbdeviceOff \in BOOLEAN /\ storage \in BOOLEAN
    /\ model \in Models /\ wifiOff \in BOOLEAN
    /\ unstopped \in BOOLEAN /\ unstarted \in BOOLEAN /\ crossed \in BOOLEAN

Init ==
    /\ pc = [t \in Threads |-> "idle"] /\ rest = [t \in Threads |-> <<>>]
    /\ msgPc = [m \in Messages |-> "gone"]
    /\ run = FALSE /\ sMesg = FALSE /\ ftpInitialized = FALSE
    /\ usbdeviceModid = FALSE /\ usbdeviceOff = FALSE /\ storage = FALSE
    /\ model \in Models /\ wifiOff \in BOOLEAN
    /\ toggle = FALSE
    /\ selectWifiUsb \in IF model = "vita" THEN BOOLEAN ELSE {FALSE}
    /\ runUsb = FALSE
    /\ unstopped = FALSE /\ unstarted = FALSE /\ crossed = FALSE

-----------------------------------------------------------------------------
At(t, l) == pc[t] = l

Goto(t, l) == pc' = [pc EXCEPT ![t] = l] /\ UNCHANGED rest

\* Goes to label l, and on with the labels of s before what was left to do.
Call(t, l, s) == pc' = [pc EXCEPT ![t] = l] /\ rest' = [rest EXCEPT ![t] = s \o @]

Return(t) ==
    IF rest[t] = <<>> THEN Goto(t, "idle")
    ELSE pc' = [pc EXCEPT ![t] = Head(rest[t])] /\ rest' = [rest EXCEPT ![t] = Tail(@)]

(***************************************************************************)
(* What the threads call                                                   *)
(***************************************************************************)
\* Mutant: the flag that stops the checks is set, but the server left alone.
CheckWifiOnlyTells(t) ==
    /\ At(t, "check_wifi")
    /\ IF wifiOff THEN sMesg' = TRUE /\ Goto(t, "message") ELSE UNCHANGED sMesg /\ Return(t)
    /\ UNCHANGED <<msgVars, run, ftpInitialized, usbVars, uiVars, runUsb, worldVars>>

\* checkWifiPlane
CheckWifi(t) ==
    /\ At(t, "check_wifi")
    /\ IF wifiOff
       THEN sMesg' = TRUE /\ Call(t, "clear_run", <<"message">>)
       ELSE UNCHANGED sMesg /\ Return(t)
    /\ UNCHANGED <<msgVars, run, ftpInitialized, usbVars, uiVars, runUsb, worldVars>>

\* Mutant: the server is stopped with run left set.
ClearRunNot(t) ==
    /\ At(t, "clear_run") /\ Goto(t, "fini")
    /\ UNCHANGED <<msgVars, ftpVars, usbVars, uiVars, runUsb, worldVars>>

\* The run = 0 before every call of ftpvita_fini.
ClearRun(t) ==
    /\ At(t, "clear_run") /\ Goto(t, "fini")
    /\ run' = FALSE
    /\ UNCHANGED <<msgVars, sMesg, ftpInitialized, usbVars, uiVars, runUsb, worldVars>>

\* ftpvita_fini does nothing if the server is not initialized.
Fini(t) ==
    /\ At(t, "fini")
    /\ IF ftpInitialized THEN Goto(t, "in_fini") ELSE Return(t)
    /\ UNCHANGED <<msgVars, ftpVars, usbVars, uiVars, runUsb, worldVars>>

FiniReturns(t) ==
    /\ At(t, "in_fini") /\ Return(t)
    /\ ftpInitialized' = FALSE
    /\ UNCHANGED <<msgVars, run, sMesg, usbVars, uiVars, runUsb, worldVars>>

\* start_thread, which may fail; the error it returns is nobody's concern.
StartThread(t) ==
    /\ At(t, "message") /\ Return(t)
    /\ \/ \E m \in Messages : msgPc[m] = "gone" /\ msgPc' = [msgPc EXCEPT ![m] = "read"]
                              /\ unstarted' = FALSE
       \/ UNCHANGED msgPc /\ unstarted' = TRUE
    /\ UNCHANGED <<ftpVars, usbVars, uiVars, runUsb, worldVars>>

\* run_USB = n, followed by start_thread
Notice(t) ==
    /\ At(t, "notice") /\ Goto(t, "message")
    /\ runUsb' = TRUE
    /\ UNCHANGED <<msgVars, ftpVars, usbVars, uiVars, worldVars>>

\* stopUsb; usbdevice_modid keeps its value.  If it fails, at its first call or
\* at a later one, nobody looks at its result.
StopUsb(t) ==
    /\ At(t, "stop_usb") /\ Return(t)
    /\ storage' \in {storage, FALSE} /\ unstopped' = storage'
    /\ UNCHANGED <<msgVars, ftpVars, usbdeviceModid, usbdeviceOff, uiVars, runUsb, worldVars>>

UsbOff(t) ==
    /\ At(t, "usb_off") /\ Return(t)
    /\ usbdeviceOff' = TRUE
    /\ UNCHANGED <<msgVars, ftpVars, usbdeviceModid, storage, unstopped, uiVars, runUsb, worldVars>>

(***************************************************************************)
(* The handlers of the settings page, on the UI thread                     *)
(***************************************************************************)
FtpOnly == model = "vitatv"

\* onPressFTP with FTP to be toggled
PressFtp ==
    /\ At(UI, "idle")
    /\ FtpOnly \/ selectWifiUsb
    /\ toggle' = (toggle /\ FtpOnly)
    /\ IF run THEN Call(UI, "clear_run", <<"message">>) ELSE Call(UI, "check_wifi", <<"connect">>)
    /\ UNCHANGED <<msgVars, ftpVars, usbVars, selectWifiUsb, runUsb, worldVars>>

\* do_net_connected: ftpvita_init refuses if the server is up, and may fail.
Connect ==
    /\ At(UI, "connect")
    /\ IF ftpInitialized THEN Return(UI) ELSE Goto(UI, "in_init")
    /\ UNCHANGED <<msgVars, ftpVars, usbVars, uiVars, runUsb, worldVars>>

\* Mutant: run is not set.
InitReturnsOnly ==
    /\ At(UI, "in_init")
    /\ \/ Goto(UI, "watch") /\ ftpInitialized' = TRUE
       \/ Return(UI) /\ UNCHANGED ftpInitialized
    /\ UNCHANGED <<msgVars, run, sMesg, usbVars, uiVars, runUsb, worldVars>>

InitReturns ==
    /\ At(UI, "in_init")
    /\ \/ Goto(UI, "set_run") /\ ftpInitialized' = TRUE
       \/ Return(UI) /\ UNCHANGED ftpInitialized
    /\ UNCHANGED <<msgVars, run, sMesg, usbVars, uiVars, runUsb, worldVars>>

SetRun ==
    /\ At(UI, "set_run") /\ Goto(UI, "watch")
    /\ run' = TRUE
    /\ UNCHANGED <<msgVars, sMesg, ftpInitialized, usbVars, uiVars, runUsb, worldVars>>

\* Mutant: s_mesg keeps the network thread from looking at the Wi-Fi.
WatchNot ==
    /\ At(UI, "watch") /\ Goto(UI, "message")
    /\ UNCHANGED <<msgVars, ftpVars, usbVars, uiVars, runUsb, worldVars>>

\* s_mesg = 0: the network thread may look at the Wi-Fi again.
Watch ==
    /\ At(UI, "watch") /\ Goto(UI, "message")
    /\ sMesg' = FALSE
    /\ UNCHANGED <<msgVars, run, ftpInitialized, usbVars, uiVars, runUsb, worldVars>>

\* onPressFTP with USB selected: whatever is on is stopped first.
PressUsb ==
    /\ At(UI, "idle") /\ ~FtpOnly /\ ~selectWifiUsb
    /\ toggle' = FALSE
    /\ Call(UI, IF usbdeviceModid THEN "stop_usb" ELSE "cable",
            IF usbdeviceModid THEN <<"usb_off", "cable">> ELSE <<>>)
    /\ UNCHANGED <<msgVars, ftpVars, usbVars, selectWifiUsb, runUsb, worldVars>>

\* The cable may be plugged or unplugged at any time: what is seen is an input.
LookAtCable ==
    /\ At(UI, "cable")
    /\ \E plugged \in BOOLEAN : Goto(UI, IF plugged THEN "init_usb" ELSE "message")
    /\ UNCHANGED <<msgVars, ftpVars, usbVars, uiVars, runUsb, worldVars>>

\* Mutant: initUsb leaves usbdeviceOFF as it was.
InitUsbKeepsOff ==
    /\ At(UI, "init_usb") /\ Goto(UI, "start_usb")
    /\ UNCHANGED <<msgVars, ftpVars, usbVars, uiVars, runUsb, worldVars>>

\* initUsb
InitUsb ==
    /\ At(UI, "init_usb") /\ Goto(UI, "start_usb")
    /\ usbdeviceOff' = FALSE
    /\ UNCHANGED <<msgVars, ftpVars, usbdeviceModid, storage, unstopped, uiVars, runUsb, worldVars>>

\* ... with no medium, with a startUsb that fails, and with one that succeeds
StartUsb ==
    /\ At(UI, "start_usb") /\ Goto(UI, "message")
    /\ \/ usbdeviceOff' = TRUE /\ UNCHANGED <<usbdeviceModid, storage>>
       \/ usbdeviceModid' = FALSE /\ UNCHANGED <<usbdeviceOff, storage>>
       \/ usbdeviceModid' = TRUE /\ storage' = TRUE /\ UNCHANGED usbdeviceOff
    /\ UNCHANGED <<msgVars, ftpVars, unstopped, uiVars, runUsb, worldVars>>

\* OnButtonFTPLoad, on the models with a choice
Load ==
    /\ At(UI, "idle") /\ ~FtpOnly
    /\ \/ selectWifiUsb /\ usbdeviceModid /\ Call(UI, "stop_usb", <<>>)
       \/ ~selectWifiUsb /\ run /\ Call(UI, "clear_run", <<"toggle_off", "message">>)
    /\ UNCHANGED <<msgVars, ftpVars, usbVars, uiVars, runUsb, worldVars>>

\* Mutant: the FTP server is left running when USB is selected.
ToggleSelectKeepsFtp ==
    /\ At(UI, "idle") /\ ~FtpOnly
    /\ selectWifiUsb' = ~selectWifiUsb
    /\ IF selectWifiUsb' /\ ~usbdeviceOff THEN Call(UI, "stop_usb", <<"toggle_on", "message">>)
       ELSE UNCHANGED threadVars
    /\ UNCHANGED <<msgVars, ftpVars, usbVars, toggle, runUsb, worldVars>>

\* OnToggleCheckBoxFTPUSB
ToggleSelect ==
    /\ At(UI, "idle") /\ ~FtpOnly
    /\ selectWifiUsb' = ~selectWifiUsb
    /\ IF selectWifiUsb' /\ ~usbdeviceOff THEN Call(UI, "stop_usb", <<"toggle_on", "message">>)
       ELSE IF ~selectWifiUsb' /\ run THEN Call(UI, "clear_run", <<"toggle_on", "message">>)
       ELSE UNCHANGED threadVars
    /\ UNCHANGED <<msgVars, ftpVars, usbVars, toggle, runUsb, worldVars>>

SetToggle(l, v) ==
    /\ At(UI, l) /\ Return(UI)
    /\ toggle' = v
    /\ UNCHANGED <<msgVars, ftpVars, usbVars, selectWifiUsb, runUsb, worldVars>>

\* onPressUSB, onPressREFRESH, and onPressFTP during a refresh, as far as here;
\* the refresh thread notifies its beginning and its end.
Notify(t) ==
    /\ At(t, "idle") /\ Goto(t, "notice")
    /\ UNCHANGED <<msgVars, ftpVars, usbVars, uiVars, runUsb, worldVars>>

\* module_stop: run = 0, then it waits for the network thread, which has no end.
ModuleStop ==
    /\ At(UI, "idle") /\ Goto(UI, "stopping")
    /\ run' = FALSE
    /\ UNCHANGED <<msgVars, sMesg, ftpInitialized, usbVars, uiVars, runUsb, worldVars>>

(***************************************************************************)
(* The network thread                                                      *)
(***************************************************************************)
\* netctl_cb, with a disconnection or another event, or no event
NetctlCb ==
    /\ At(NET, "idle")
    /\ \/ Goto(NET, "check")
       \/ ~runUsb /\ selectWifiUsb /\ run /\ Call(NET, "clear_run", <<"message", "check">>)
       \/ /\ ~runUsb /\ ~selectWifiUsb /\ ~FtpOnly /\ ~usbdeviceOff
          /\ Call(NET, "stop_usb", <<"usb_off", "message", "check">>)
    /\ UNCHANGED <<msgVars, ftpVars, usbVars, uiVars, runUsb, worldVars>>

\* The rest of the loop of vitaConnect_thread
Check ==
    /\ At(NET, "check")
    /\ IF sMesg THEN Goto(NET, "unplug") ELSE Call(NET, "check_wifi", <<"unplug">>)
    /\ UNCHANGED <<msgVars, ftpVars, usbVars, uiVars, runUsb, worldVars>>

\* Mutant: the wrong label follows.
UnplugGoesAstray ==
    /\ At(NET, "unplug")
    /\ \E plugged \in BOOLEAN :
          IF ~plugged /\ ~usbdeviceOff /\ ~selectWifiUsb
          THEN Call(NET, "stop_usb", <<"usb_off", "cable">>)
          ELSE Return(NET)
    /\ UNCHANGED <<msgVars, ftpVars, usbVars, uiVars, runUsb, worldVars>>

Unplug ==
    /\ At(NET, "unplug")
    /\ \E plugged \in BOOLEAN :
          IF ~plugged /\ ~usbdeviceOff /\ ~selectWifiUsb
          THEN Call(NET, "stop_usb", <<"usb_off", "message">>)
          ELSE Return(NET)
    /\ UNCHANGED <<msgVars, ftpVars, usbVars, uiVars, runUsb, worldVars>>

(***************************************************************************)
(* thread_user_message                                                     *)
(***************************************************************************)
MessageStep(m, from, to) ==
    msgPc[m] = from /\ msgPc' = [msgPc EXCEPT ![m] = to] /\ UNCHANGED unstarted

MessageReads(m) ==
    /\ MessageStep(m, "read", IF selectWifiUsb /\ ~FtpOnly /\ toggle THEN "usb_off" ELSE "delay")
    /\ UNCHANGED <<threadVars, ftpVars, usbVars, uiVars, runUsb, worldVars>>

MessageUsbOff(m) ==
    /\ MessageStep(m, "usb_off", "delay")
    /\ usbdeviceOff' = TRUE
    /\ UNCHANGED <<threadVars, ftpVars, usbdeviceModid, storage, unstopped,
                   uiVars, runUsb, worldVars>>

\* Mutant: the notification is shown but not taken down.
MessageEndsOnly(m) ==
    /\ MessageStep(m, "delay", "gone")
    /\ UNCHANGED <<threadVars, ftpVars, usbVars, uiVars, runUsb, worldVars>>

\* The text is shown, run_USB = 0, and the thread ends.
MessageEnds(m) ==
    /\ MessageStep(m, "delay", "gone")
    /\ runUsb' = FALSE
    /\ UNCHANGED <<threadVars, ftpVars, usbVars, uiVars, worldVars>>

-----------------------------------------------------------------------------
\* The system switches Wi-Fi or flight mode.
World ==
    /\ wifiOff' = ~wifiOff
    /\ UNCHANGED <<threadVars, msgVars, ftpVars, usbVars, uiVars, runUsb, model>>

\* What a thread that is in the middle of something does next.
Continue(t) ==
    \/ CheckWifi(t) \/ ClearRun(t) \/ Fini(t) \/ FiniReturns(t) \/ StartThread(t) \/ Notice(t)
    \/ StopUsb(t) \/ UsbOff(t)

UiContinue ==
    \/ Continue(UI)
    \/ Connect \/ InitReturns \/ SetRun \/ Watch
    \/ LookAtCable \/ InitUsb \/ StartUsb
    \/ SetToggle("toggle_off", FALSE) \/ SetToggle("toggle_on", TRUE)

NetContinue == Continue(NET) \/ NetctlCb \/ Check \/ Unplug

MessageContinue(m) == MessageReads(m) \/ MessageUsbOff(m) \/ MessageEnds(m)

Handler == PressFtp \/ PressUsb \/ Load \/ ToggleSelect \/ ModuleStop

Step == \/ Handler \/ UiContinue \/ NetContinue \/ Continue(REFRESH)
        \/ \E t \in Notifiers : Notify(t)
        \/ \E m \in Messages : MessageContinue(m)
        \/ World

FtpSteps == StopSteps \cup StartSteps

\* The UI thread and another are both in the middle of starting or stopping.
Crossing ==
    \/ pc[UI] \in FtpSteps /\ pc[NET] \in FtpSteps
    \/ pc[UI] \in UsbSteps /\ \/ pc[NET] \in UsbSteps
                              \/ \E m \in Messages : msgPc[m] = "usb_off"

Next == Step /\ crossed' = (crossed \/ Crossing')

Spec == Init /\ [][Next]_vars

\* A thread that is doing something goes on, but for ftpvita_fini, which may not
\* return; nobody has to press a button, and Wi-Fi may stay as it is.
GoesOn(t, A) == A /\ pc[t] # "in_fini" /\ crossed' = (crossed \/ Crossing')

FairSpec == /\ Spec
            /\ WF_vars(GoesOn(UI, UiContinue))
            /\ WF_vars(GoesOn(NET, NetContinue))
            /\ WF_vars(GoesOn(REFRESH, Continue(REFRESH)))
            /\ \A m \in Messages :
                  WF_vars(MessageContinue(m) /\ crossed' = (crossed \/ Crossing'))

-----------------------------------------------------------------------------
(***************************************************************************)
(* Properties                                                              *)
(***************************************************************************)
\* However the threads cross, the server never stays up with run = 0, when a
\* press of the button would try to start it instead of stopping it: whoever
\* cleared run is about to stop it, or whoever started it to set run.
ServerIsStoppable ==
    ftpInitialized /\ ~run =>
        \/ \E t \in Threads : pc[t] \in {"fini", "in_fini"}
        \/ pc[UI] \in {"set_run", "stopping"}

\* However the threads cross, the server never stays up with s_mesg = 1, when
\* the network thread would not look at the Wi-Fi any more.
ServerIsWatched ==
    ftpInitialized /\ sMesg =>
        \/ \E t \in Threads : pc[t] \in StopSteps
        \/ pc[UI] \in {"set_run", "watch"}

\* As long as the threads do not cross, run says whether the server is up.
RunIsTrue ==
    ~crossed /\ pc[UI] \notin FtpSteps \cup {"stopping"} /\ pc[NET] \notin FtpSteps
        => run = ftpInitialized

\* As long as the threads do not cross, and unless the last stopUsb has failed
\* with the storage still shared, usbdeviceOFF is clear while the storage is
\* shared, or unplugging the cable and selecting FTP would not end it.  (After
\* such a failure every caller sets usbdeviceOFF, or goes on, all the same.)
StorageIsWatched ==
    ~crossed /\ ~unstopped /\ pc[UI] \notin UsbSteps /\ pc[NET] \notin UsbSteps
        => (storage => ~usbdeviceOff)

\* As long as the threads do not cross, and unless the last stopUsb has failed
\* with the storage still shared, the memory card is not given to the PC as USB
\* storage while FTP clients may write to it, but for the time that the network
\* thread, having cleared run, needs to stop the server.
ModesExclude ==
    ~crossed /\ ~unstopped /\ storage /\ ftpInitialized => pc[NET] \in StopSteps

\* Wi-Fi off for good brings the server down, again and again if need be, if no
\* ftpvita_fini blocks for ever (FtpVita's ClientsAreJoined says when one does).
WifiOffStopsServer ==
    <>[]wifiOff /\ (\A t \in Threads : []<>(pc[t] # "in_fini")) => []<>~ftpInitialized

\* run_USB does not stay set, or disconnections would be ignored for ever, unless
\* start_thread fails and nothing is started afterwards, or fails again and
\* again: then nobody clears it.
NoticeEnds == <>[]~unstarted => []<>~runUsb
=============================================================================
