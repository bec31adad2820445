------------------------------ MODULE Storage ------------------------------
(***************************************************************************)
(* The media and the mount points: the USB button, which redirects ux0: to *)
(* a USB medium and back, and the sharing of a medium with the PC (startUsb*)
(* and stopUsb).  The button is pressed on the UI thread, stopUsb is       *)
(* called from there and from the network thread, and nothing keeps the    *)
(* two apart.                                                              *)
(*                                                                         *)
(* A thread has a sequence of calls to the system still to make: every     *)
(* call is a step, and its result is looked at where the code does.        *)
(* mishaps records what has gone wrong so far:                             *)
(*   "busy"       an unforced umount was refused: something is in use      *)
(*   "unreadable" a medium that is there could not be mounted              *)
(*   "removed"    a medium was taken out                                   *)
(*   "start"      a step of startUsb failed                                *)
(*   "undo"       so did a call that was to undo what had been done        *)
(*   "stop"       a step of stopUsb failed after the sharing had ended     *)
(***************************************************************************)
EXTENDS Integers, Sequences

CONSTANTS Consoles,    \* the consoles considered: the media each has room for
          Exclusives   \* does the system refuse to mount a medium twice?

Media   == {"gcd", "xmc", "int", "usb", "ur0"}
Points  == {"ux0", "uma0", "xmc0", "imc0", "ur0"}
Threads == {"UI", "NET"}
None    == "none"

ASSUME ConsolesAreMedia == Consoles \subseteq SUBSET (Media \ {"ur0"})
ASSUME ExclusivesAreBooleans == Exclusives \subseteq BOOLEAN

VARIABLES
    todo,        \* the calls each thread still has to make
    notice,      \* run_USB of the last press: 1 mounted, 3 umounted, 6 and 11 neither
    \* the system
    redirect,    \* the medium the device of a mount point names
    mounted,     \* the medium mounted at a point
    modid,       \* usbdevice_modid >= 0
    loaded, mtp, \* usbdevice.skprx is loaded; the MTP driver runs
    shared,      \* the medium shared with the PC
    \* the world
    slots, present, exclusive,
    \* history, for the properties
    stale,       \* the points mounted before the PC last wrote to their medium
    mishaps,
    crossed      \* both threads have been at it at once

mountVars == <<redirect, mounted, stale>>
shareVars == <<modid, loaded, mtp, shared>>
vars == <<todo, notice, mountVars, shareVars, slots, present, exclusive, mishaps, crossed>>

Ops == {"redirect", "umount", "force", "mount", "try_mount", "gcd_to_uma0", "any_card", "new_card",
        "mounted", "umounted",
        "load", "stop_mtp", "start_vstor", "mtp_back", "unload_back",
        "stop_vstor", "start_mtp", "unload", "remount_if"}

Steps == [op : Ops, at : Points, to : Media]

\* A call that concerns mount point p and medium m.
Step(o, p, m) == [op |-> o, at |-> p, to |-> m]
At(o, p)      == Step(o, p, "usb")
Plain(o)      == Step(o, "ux0", "usb")

TypeOK ==
    /\ todo \in [Threads -> Seq(Steps)]
    /\ notice \in {0, 1, 3, 6, 11}
    /\ redirect \in [Points -> Media] /\ mounted \in [Points -> Media \cup {None}]
    /\ modid \in BOOLEAN /\ loaded \in BOOLEAN /\ mtp \in BOOLEAN /\ shared \in Media \cup {None}
    /\ slots \in Consoles /\ present \subseteq slots /\ exclusive \in BOOLEAN
    /\ stale \subseteq Points
    /\ mishaps \subseteq {"busy", "unreadable", "removed", "start", "undo", "stop"}
    /\ crossed \in BOOLEAN

\* ux0: is on a medium of the console's own, uma0: on a USB medium or a card.
Init ==
    /\ todo = [t \in Threads |-> <<>>]
    /\ notice = 0
    /\ slots \in Consoles /\ present \in SUBSET slots /\ exclusive \in Exclusives
    /\ \E u \in present \cap {"gcd", "xmc", "int"} : \E v \in {"usb", "gcd"} \ {u} :
         /\ redirect = [ux0 |-> u, uma0 |-> v, xmc0 |-> "xmc", imc0 |-> "int", ur0 |-> "ur0"]
         /\ mounted = [ux0  |-> u, uma0 |-> IF v \in present THEN v ELSE None,
                       xmc0 |-> None, imc0 |-> None, ur0 |-> "ur0"]
    /\ modid = FALSE /\ loaded = FALSE /\ mtp = TRUE /\ shared = None
    /\ stale = {} /\ mishaps = {} /\ crossed = FALSE

-----------------------------------------------------------------------------
Now(t) == Head(todo[t])

Does(t, o) == todo[t] # <<>> /\ Head(todo[t]).op = o

\* The call is made; the calls of s come before what was left to do.
Then(t, s) == todo' = [todo EXCEPT ![t] = s \o Tail(@)]

Mishap(m) == mishaps' = mishaps \cup {m}

\* checkFolderExist and checkFileExist
Folder(p) == mounted[p] \in present \cup {"ur0"}
File(m)   == m \in present

(***************************************************************************)
(* The calls of the plugin: what each of them calls in turn                *)
(***************************************************************************)
Remount(p) == <<At("umount", p), At("force", p), At("mount", p)>>

\* Mutant: uma0: stays mounted on the medium ux0: is to have.
MountUsbUx0KeepsUma0 == <<Step("redirect", "ux0", "usb")>> \o Remount("ux0")

MountGamecardUx0  == <<Step("redirect", "ux0", "gcd"), At("umount", "uma0")>> \o Remount("ux0")
MountUsbUx0       == <<Step("redirect", "ux0", "usb"), At("umount", "uma0")>> \o Remount("ux0")
MountXmcUx0       == <<Step("redirect", "ux0", "xmc"), At("umount", "ux0")>> \o Remount("ux0")
MountImcUx0       == <<Step("redirect", "ux0", "int"), At("umount", "ux0")>> \o Remount("ux0")
MountGamecardUma0 == <<Step("redirect", "uma0", "gcd")>> \o Remount("uma0")
MountUsbUma0      == <<Step("redirect", "uma0", "usb")>> \o Remount("uma0")

\* mountOthersPartition(1) and (2)
OthersAfterMount  == <<Plain("gcd_to_uma0"), At("any_card", "xmc0"), At("any_card", "imc0")>>
OthersAfterUmount == MountUsbUma0 \o <<At("new_card", "xmc0"), At("new_card", "imc0")>>

ToUsb == MountUsbUx0 \o OthersAfterMount \o <<Plain("mounted")>>

StopUsb == <<Plain("stop_vstor")>>

\* Mutant: the medium's own mount point is left mounted.
BringBackKeepsOwnPoint ==
    IF Folder("uma0") \/ File("gcd") THEN MountGamecardUx0
    ELSE IF File("xmc") THEN MountXmcUx0
    ELSE MountImcUx0

\* What onPressUSB brings back ux0: with, and what it umounts first.
BringBack ==
    LET clear(p) == IF Folder(p) THEN <<At("umount", p), At("force", p)>> ELSE <<>>
    IN  IF Folder("uma0") \/ File("gcd") THEN MountGamecardUx0
        ELSE IF File("xmc") THEN clear("xmc0") \o MountXmcUx0
        ELSE clear("imc0") \o MountImcUx0

(***************************************************************************)
(* The handlers                                                            *)
(***************************************************************************)
Begin(t, s) ==
    /\ todo[t] = <<>> /\ todo' = [todo EXCEPT ![t] = s]
    /\ UNCHANGED <<mountVars, shareVars, present, mishaps>>

\* onPressUSB with ux0: redirected: back to a medium of the console's own
PressUmount ==
    /\ redirect["ux0"] = "usb"
    /\ Begin("UI", BringBack \o OthersAfterUmount \o <<Plain("umounted")>>)
    /\ notice' = 0

\* ... with ux0: not redirected: to the USB medium
PressMount ==
    /\ redirect["ux0"] # "usb" /\ File("usb")
    /\ Begin("UI", IF Folder("uma0") THEN ToUsb ELSE <<At("try_mount", "uma0")>>)
    /\ notice' = 0

\* ... if there is none
PressNothing ==
    /\ redirect["ux0"] # "usb" /\ ~File("usb")
    /\ Begin("UI", <<>>)
    /\ notice' = 11

\* onPressFTP with USB selected and the cable in: stopUsb if there is a module
\* to stop, then initUsb and startUsb, with a medium that is there, the internal
\* one only for want of a memory card, or ur0:.
Share(m) ==
    /\ m = "ur0" \/ File(m)
    /\ m = "int" => ~File("xmc")
    /\ Begin("UI", (IF modid THEN StopUsb ELSE <<>>) \o <<Step("load", "ux0", m)>>)
    /\ notice' = 0

\* stopUsb, from any of the other places that call it
Unshare(t) ==
    /\ Begin(t, StopUsb)
    /\ UNCHANGED notice

(***************************************************************************)
(* The calls to the system, and the checks between them                    *)
(***************************************************************************)
\* shellKernelRedirectUx0 and shellKernelRedirectUma0
Redirect(t) ==
    /\ Does(t, "redirect") /\ Then(t, <<>>)
    /\ redirect' = [redirect EXCEPT ![Now(t).at] = Now(t).to]
    /\ UNCHANGED <<notice, mounted, stale, shareVars, present, mishaps>>

Umounted(p) == mounted' = [mounted EXCEPT ![p] = None] /\ stale' = stale \ {p}

\* vshIoUmount(id, 0, ...): may be refused while something is mounted
Umount(t) ==
    /\ Does(t, "umount") /\ Then(t, <<>>)
    /\ \/ Umounted(Now(t).at) /\ UNCHANGED mishaps
       \/ mounted[Now(t).at] # None /\ Mishap("busy") /\ UNCHANGED <<mounted, stale>>
    /\ UNCHANGED <<notice, redirect, shareVars, present>>

\* vshIoUmount(id, 1, ...)
ForceUmount(t) ==
    /\ Does(t, "force") /\ Then(t, <<>>)
    /\ Umounted(Now(t).at)
    /\ UNCHANGED <<notice, redirect, shareVars, present, mishaps>>

Elsewhere(p) == \E q \in Points \ {p} : mounted[q] = redirect[p]

CanMount(p) ==
    /\ mounted[p] = None /\ redirect[p] \in present \cup {"ur0"}
    /\ exclusive => ~Elsewhere(p)

MountsIt(p) ==
    /\ CanMount(p) /\ mounted' = [mounted EXCEPT ![p] = redirect[p]]
    /\ UNCHANGED mishaps

MountFails(p) ==
    /\ IF CanMount(p) THEN Mishap("unreadable") ELSE UNCHANGED mishaps
    /\ UNCHANGED mounted

\* vshIoMount, whose result only decides what run_USB is before the next value
Mount(t) ==
    /\ Does(t, "mount") /\ Then(t, <<>>)
    /\ MountsIt(Now(t).at) \/ MountFails(Now(t).at)
    /\ UNCHANGED <<notice, redirect, stale, shareVars, present>>

\* ... but for the one of uma0: at the beginning of onPressUSB
TryMount(t) ==
    /\ Does(t, "try_mount")
    /\ \/ MountsIt(Now(t).at) /\ Then(t, ToUsb) /\ UNCHANGED notice
       \/ MountFails(Now(t).at) /\ Then(t, <<>>) /\ notice' = 6
    /\ UNCHANGED <<redirect, stale, shareVars, present>>

\* The conditions of mountOthersPartition and stopUsb, and what they guard
Check(t, o, holds, s) ==
    /\ Does(t, o) /\ Then(t, IF holds THEN s ELSE <<>>)
    /\ UNCHANGED <<notice, mountVars, shareVars, present, mishaps>>

Checks(t) ==
    LET p == Now(t).at
    IN  \/ Check(t, "gcd_to_uma0", File("gcd"), MountGamecardUma0)
        \/ Check(t, "any_card", File(redirect[p]) \/ ~Folder(p), <<At("mount", p)>>)
        \/ Check(t, "new_card", File(redirect[p]) /\ ~Folder(p), <<At("mount", p)>>)
        \/ Check(t, "remount_if", Folder(p), Remount(p))

\* Mutant: the 0 that mountUsbUx0 and the others return is taken for a failure.
DoneTakesZeroForError(t) ==
    /\ todo[t] # <<>> /\ Now(t).op \in {"mounted", "umounted"} /\ Then(t, <<>>)
    /\ notice' = IF Now(t).op = "mounted" THEN 2 ELSE 4
    /\ UNCHANGED <<mountVars, shareVars, present, mishaps>>

\* The end of onPressUSB
Done(t) ==
    /\ todo[t] # <<>> /\ Now(t).op \in {"mounted", "umounted"} /\ Then(t, <<>>)
    /\ notice' = IF Now(t).op = "mounted" THEN 1 ELSE 3
    /\ UNCHANGED <<mountVars, shareVars, present, mishaps>>

(***************************************************************************)
(* startUsb: whatever fails, what has been done is undone, or nearly: the  *)
(* results of the calls that undo it are ignored                           *)
(***************************************************************************)
Load(t) ==
    /\ Does(t, "load")
    /\ \/ /\ Then(t, <<Step("stop_mtp", "ux0", Now(t).to)>>) /\ loaded' = TRUE
          /\ UNCHANGED <<modid, mishaps>>
       \/ /\ Then(t, <<>>) /\ modid' = FALSE /\ Mishap("start")
          /\ UNCHANGED loaded
    /\ UNCHANGED <<notice, mountVars, mtp, shared, present>>

\* A driver that is stopped already is no error.
StopMtp(t) ==
    /\ Does(t, "stop_mtp")
    /\ \/ /\ Then(t, <<Step("start_vstor", "ux0", Now(t).to)>>) /\ mtp' = FALSE
          /\ UNCHANGED mishaps
       \/ Then(t, <<Plain("unload_back")>>) /\ Mishap("start") /\ UNCHANGED mtp
    /\ UNCHANGED <<notice, mountVars, modid, loaded, shared, present>>

\* Mutant: the labels are entered one too late, and MTP stays stopped.
StartVstorForgetsMtp(t) ==
    /\ Does(t, "start_vstor")
    /\ \/ /\ shared = None
          /\ Then(t, <<>>) /\ shared' = Now(t).to /\ modid' = TRUE
          /\ UNCHANGED mishaps
       \/ /\ Then(t, <<Plain("unload_back")>>) /\ Mishap("start")
          /\ UNCHANGED <<shared, modid>>
    /\ UNCHANGED <<notice, mountVars, loaded, mtp, present>>

\* sceUsbstorVStorSetDeviceInfo, SetImgFilePath and Start
StartVstor(t) ==
    /\ Does(t, "start_vstor")
    /\ \/ /\ shared = None
          /\ Then(t, <<>>) /\ shared' = Now(t).to /\ modid' = TRUE
          /\ UNCHANGED mishaps
       \/ /\ Then(t, <<Plain("mtp_back"), Plain("unload_back")>>) /\ Mishap("start")
          /\ UNCHANGED <<shared, modid>>
    /\ UNCHANGED <<notice, mountVars, loaded, mtp, present>>

MtpBack(t) ==
    /\ Does(t, "mtp_back") /\ Then(t, <<>>)
    /\ \/ mtp' = TRUE /\ UNCHANGED mishaps
       \/ Mishap("undo") /\ UNCHANGED mtp
    /\ UNCHANGED <<notice, mountVars, modid, loaded, shared, present>>

UnloadBack(t) ==
    /\ Does(t, "unload_back") /\ Then(t, <<>>)
    /\ modid' = FALSE
    /\ \/ loaded' = FALSE /\ UNCHANGED mishaps
       \/ Mishap("undo") /\ UNCHANGED loaded
    /\ UNCHANGED <<notice, mountVars, mtp, shared, present>>

(***************************************************************************)
(* stopUsb: returns where a call fails                                     *)
(***************************************************************************)
\* What is not started cannot be stopped.
StopVstor(t) ==
    /\ Does(t, "stop_vstor")
    /\ IF shared = None
       THEN Then(t, <<>>) /\ UNCHANGED <<shared, mishaps>>
       ELSE \/ Then(t, <<Plain("start_mtp")>>) /\ shared' = None /\ UNCHANGED mishaps
            \/ Then(t, <<>>) /\ Mishap("stop") /\ UNCHANGED shared
    /\ UNCHANGED <<notice, mountVars, modid, loaded, mtp, present>>

StartMtp(t) ==
    /\ Does(t, "start_mtp")
    /\ \/ Then(t, <<Plain("unload")>>) /\ mtp' = TRUE /\ UNCHANGED mishaps
       \/ Then(t, <<>>) /\ Mishap("stop") /\ UNCHANGED mtp
    /\ UNCHANGED <<notice, mountVars, modid, loaded, shared, present>>

\* Mutant: uma0: is not remounted.
UnloadForgetsUma0(t) ==
    /\ Does(t, "unload")
    /\ \/ /\ Then(t, Remount("ux0") \o <<At("remount_if", "imc0"), At("remount_if", "xmc0")>>)
          /\ loaded' = FALSE /\ UNCHANGED mishaps
       \/ Then(t, <<>>) /\ Mishap("stop") /\ UNCHANGED loaded
    /\ UNCHANGED <<notice, mountVars, modid, mtp, shared, present>>

\* The memory card is remounted, and whatever else is there.
Unload(t) ==
    /\ Does(t, "unload")
    /\ \/ /\ Then(t, Remount("ux0") \o <<At("remount_if", "imc0"), At("remount_if", "xmc0"),
                                          At("remount_if", "uma0")>>)
          /\ loaded' = FALSE /\ UNCHANGED mishaps
       \/ Then(t, <<>>) /\ Mishap("stop") /\ UNCHANGED loaded
    /\ UNCHANGED <<notice, mountVars, modid, mtp, shared, present>>

-----------------------------------------------------------------------------
\* The world: a medium is put in or taken out, the PC writes.
Insert(m) ==
    /\ m \notin present /\ present' = present \cup {m}
    /\ UNCHANGED <<todo, notice, mountVars, shareVars, mishaps>>

Remove(m) ==
    /\ m \in present /\ present' = present \ {m}
    /\ Mishap("removed")
    /\ UNCHANGED <<todo, notice, mountVars, shareVars>>

PcWrites ==
    /\ shared # None
    /\ stale' = stale \cup {p \in Points : mounted[p] = shared}
    /\ UNCHANGED <<todo, notice, redirect, mounted, shareVars, present, mishaps>>

ThreadStep(t) ==
    \/ Redirect(t) \/ Umount(t) \/ ForceUmount(t) \/ Mount(t) \/ TryMount(t) \/ Checks(t) \/ Done(t)
    \/ Load(t) \/ StopMtp(t) \/ StartVstor(t) \/ MtpBack(t) \/ UnloadBack(t)
    \/ StopVstor(t) \/ StartMtp(t) \/ Unload(t)

SystemNext ==
    \/ PressUmount \/ PressMount \/ PressNothing
    \/ \E m \in Media : Share(m)
    \/ \E t \in Threads : Unshare(t) \/ ThreadStep(t)
    \/ \E m \in slots : Insert(m) \/ Remove(m)
    \/ PcWrites

Next ==
    /\ SystemNext
    /\ crossed' = (crossed \/ \A t \in Threads : todo'[t] # <<>>)
    /\ UNCHANGED <<slots, exclusive>>

Spec == Init /\ [][Next]_vars

-----------------------------------------------------------------------------
Quiet == \A t \in Threads : todo[t] = <<>>

\* However often the button is pressed and media are shared, ux0: ends up on a
\* medium that is there, unless a umount is refused, a medium unreadable or taken
\* out, or the threads were at it at once: the results that onPressUSB and the
\* functions it calls ignore are the only way to lose it.
Ux0HasMedium ==
    Quiet /\ ~crossed /\ mishaps \cap {"busy", "unreadable", "removed"} = {} => Folder("ux0")

\* "USB Mounted" and "USB Umounted" are said when it is so, with the same proviso.
NoticeIsTrue ==
    Quiet /\ ~crossed /\ mishaps \cap {"busy", "unreadable", "removed"} = {} =>
        /\ notice = 1 => mounted["ux0"] = "usb"
        /\ notice = 3 => mounted["ux0"] \in {"gcd", "xmc", "int"}

\* Once a sharing has ended nothing the PC may have written to is left mounted as
\* it was, ur0: excepted, which stopUsb does not remount; whatever the button
\* does meanwhile, and even if the threads are at it at once.
FreshAfterSharing ==
    Quiet /\ shared = None /\ mishaps \cap {"stop", "removed"} = {} => stale \subseteq {"ur0"}

\* A sharing that fails to start leaves the module unloaded and MTP running, as
\* does one that has ended; while one lasts, it is the other way round.  Excepted
\* are a stopUsb that failed half way, and an undoing of startUsb that failed
\* itself: the one leaves things as they are, the other ignores it, and forgets
\* the module's number all the same.
SharingIsWhole ==
    Quiet /\ ~crossed /\ mishaps \cap {"stop", "undo"} = {} =>
        /\ loaded = (shared # None) /\ mtp = (shared = None)
        /\ shared # None => modid
=============================================================================
