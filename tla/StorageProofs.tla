---------------------------- MODULE StorageProofs ----------------------------
(***************************************************************************)
(* Proofs about Storage for any consoles, whether or not the system mounts *)
(* a medium twice, and for media that are put in and taken out at any      *)
(* moment, in the middle of a press or not.                                *)
(***************************************************************************)
EXTENDS Storage, SequenceTheorems, TLAPS

LEMMA NoneIsNoMedium == None \notin Media
  BY DEF None, Media

\* The calls of the button and of the remounts: they do not touch the sharing.
EasyOps == {"redirect", "umount", "force", "mount", "try_mount", "gcd_to_uma0", "any_card",
            "new_card", "mounted", "umounted", "remount_if"}
Easy == [op : EasyOps, at : Points, to : Media]

LEMMA EasyIsStep == Easy \subseteq Steps /\ Seq(Easy) \subseteq Seq(Steps)
  <1>1. Easy \subseteq Steps
    BY DEF Easy, EasyOps, Steps, Ops
  <1>2. QED
    BY <1>1

LEMMA StepIsStep ==
    ASSUME NEW p \in Points, NEW m \in Media
    PROVE  /\ \A o \in Ops : Step(o, p, m) \in Steps
           /\ \A o \in EasyOps : Step(o, p, m) \in Easy
  BY DEF Step, Steps, Easy

LEMMA CallsAreSteps ==
    /\ \A o \in Ops, p \in Points : At(o, p) \in Steps
    /\ \A o \in Ops : Plain(o) \in Steps
    /\ \A o \in EasyOps, p \in Points : At(o, p) \in Easy
    /\ \A o \in EasyOps : Plain(o) \in Easy
  BY StepIsStep DEF At, Plain, Points, Media

LEMMA RemountIsPlan ==
    ASSUME NEW p \in Points
    PROVE  Remount(p) \in Seq(Easy) /\ Remount(p) \in Seq(Steps)
  BY CallsAreSteps, EasyIsStep DEF Remount, EasyOps

\* What the functions of the button call are such calls.
LEMMA EasyPlans ==
    /\ MountGamecardUx0 \in Seq(Easy) /\ MountUsbUx0 \in Seq(Easy)
    /\ MountXmcUx0 \in Seq(Easy) /\ MountImcUx0 \in Seq(Easy)
    /\ MountGamecardUma0 \in Seq(Easy) /\ MountUsbUma0 \in Seq(Easy)
    /\ OthersAfterMount \in Seq(Easy) /\ OthersAfterUmount \in Seq(Easy)
    /\ ToUsb \in Seq(Easy) /\ BringBack \in Seq(Easy)
  <1>0. /\ {"ux0", "uma0", "xmc0", "imc0"} \subseteq Points
        /\ {"usb", "gcd", "xmc", "int"} \subseteq Media
        /\ {"redirect", "umount", "force", "gcd_to_uma0", "any_card", "new_card", "mounted",
            "umounted"} \subseteq EasyOps
    BY DEF Points, Media, EasyOps
  <1>1. /\ Remount("ux0") \in Seq(Easy) /\ Remount("uma0") \in Seq(Easy)
    BY <1>0, RemountIsPlan
  <1>2. /\ At("umount", "ux0") \in Easy /\ At("umount", "uma0") \in Easy
        /\ At("umount", "xmc0") \in Easy /\ At("umount", "imc0") \in Easy
        /\ At("force", "xmc0") \in Easy /\ At("force", "imc0") \in Easy
        /\ At("any_card", "xmc0") \in Easy /\ At("any_card", "imc0") \in Easy
        /\ At("new_card", "xmc0") \in Easy /\ At("new_card", "imc0") \in Easy
        /\ Plain("gcd_to_uma0") \in Easy /\ Plain("mounted") \in Easy
        /\ Plain("umounted") \in Easy
    BY <1>0, CallsAreSteps
  <1>3. /\ Step("redirect", "ux0", "gcd") \in Easy /\ Step("redirect", "ux0", "usb") \in Easy
        /\ Step("redirect", "ux0", "xmc") \in Easy /\ Step("redirect", "ux0", "int") \in Easy
        /\ Step("redirect", "uma0", "gcd") \in Easy /\ Step("redirect", "uma0", "usb") \in Easy
    BY <1>0, StepIsStep
  <1>4. /\ MountGamecardUx0 \in Seq(Easy) /\ MountUsbUx0 \in Seq(Easy)
        /\ MountXmcUx0 \in Seq(Easy) /\ MountImcUx0 \in Seq(Easy)
    BY <1>1, <1>2, <1>3 DEF MountGamecardUx0, MountUsbUx0, MountXmcUx0, MountImcUx0
  <1>5. MountGamecardUma0 \in Seq(Easy) /\ MountUsbUma0 \in Seq(Easy)
    BY <1>1, <1>2, <1>3 DEF MountGamecardUma0, MountUsbUma0
  <1>6. OthersAfterMount \in Seq(Easy) /\ OthersAfterUmount \in Seq(Easy)
    BY <1>2, <1>5 DEF OthersAfterMount, OthersAfterUmount
  <1>7. ToUsb \in Seq(Easy)
    BY <1>2, <1>4, <1>6 DEF ToUsb
  <1>8. BringBack \in Seq(Easy)
    <2> DEFINE clear(p) == IF Folder(p) THEN <<At("umount", p), At("force", p)>> ELSE <<>>
    <2>1. clear("xmc0") \in Seq(Easy) /\ clear("imc0") \in Seq(Easy)
      BY <1>2
    <2> HIDE DEF clear
    <2>2. clear("xmc0") \o MountXmcUx0 \in Seq(Easy) /\ clear("imc0") \o MountImcUx0 \in Seq(Easy)
      BY <1>4, <2>1
    <2>3. BringBack = IF Folder("uma0") \/ File("gcd") THEN MountGamecardUx0
                      ELSE IF File("xmc") THEN clear("xmc0") \o MountXmcUx0
                      ELSE clear("imc0") \o MountImcUx0
      BY DEF BringBack, clear
    <2>4. QED
      BY <1>4, <2>2, <2>3
  <1>9. QED
    BY <1>4, <1>5, <1>6, <1>7, <1>8

LEMMA Plans ==
    /\ MountGamecardUma0 \in Seq(Steps) /\ OthersAfterUmount \in Seq(Steps)
    /\ ToUsb \in Seq(Steps) /\ StopUsb \in Seq(Steps) /\ BringBack \in Seq(Steps)
  <1>1. StopUsb \in Seq(Steps)
    BY CallsAreSteps DEF StopUsb, Ops
  <1>2. QED
    BY <1>1, EasyPlans, EasyIsStep

-----------------------------------------------------------------------------
(***************************************************************************)
(* Types                                                                   *)
(***************************************************************************)
LEMMA ThenType ==
    ASSUME todo \in [Threads -> Seq(Steps)], NEW t \in Threads, todo[t] # <<>>
    PROVE  /\ Now(t) \in Steps /\ Now(t).op \in Ops /\ Now(t).at \in Points /\ Now(t).to \in Media
           /\ Tail(todo[t]) \in Seq(Steps)
           /\ \A s \in Seq(Steps) : Then(t, s) => todo' \in [Threads -> Seq(Steps)]
  <1>1. Head(todo[t]) \in Steps /\ Tail(todo[t]) \in Seq(Steps)
    OBVIOUS
  <1>2. Now(t) \in Steps /\ Now(t).op \in Ops /\ Now(t).at \in Points /\ Now(t).to \in Media
    BY <1>1 DEF Now, Steps
  <1>3. ASSUME NEW s \in Seq(Steps), Then(t, s) PROVE todo' \in [Threads -> Seq(Steps)]
    <2>1. s \o Tail(todo[t]) \in Seq(Steps)
      BY <1>1
    <2>2. QED
      BY <1>3, <2>1 DEF Then
  <1>4. QED
    BY <1>1, <1>2, <1>3

\* The rest of TypeOK stays as long as nothing is changed beyond its type.
Frame == crossed' \in BOOLEAN /\ UNCHANGED <<slots, exclusive>>

LEMMA MountsType ==
    ASSUME TypeOK, Frame, NEW t \in Threads,
           Redirect(t) \/ Umount(t) \/ ForceUmount(t) \/ Mount(t) \/ TryMount(t)
    PROVE  TypeOK'
  <1>0. /\ todo[t] # <<>> /\ <<>> \in Seq(Steps) /\ ToUsb \in Seq(Steps)
        /\ {"busy", "unreadable"}
              \subseteq {"busy", "unreadable", "removed", "start", "undo", "stop"}
    BY Plans DEF Redirect, Umount, ForceUmount, Mount, TryMount, Does
  <1>1. Now(t).at \in Points /\ Now(t).to \in Media
    BY <1>0, ThenType DEF TypeOK
  <1>2. todo' \in [Threads -> Seq(Steps)]
    BY <1>0, ThenType, Plans DEF Redirect, Umount, ForceUmount, Mount, TryMount, TypeOK
  <1> USE DEF TypeOK, Frame, shareVars
  <1>3. CASE Redirect(t)
    BY <1>1, <1>2, <1>3 DEF Redirect
  <1>4. CASE Umount(t)
    BY <1>1, <1>2, <1>4 DEF Umount, Umounted, Mishap
  <1>5. CASE ForceUmount(t)
    BY <1>1, <1>2, <1>5 DEF ForceUmount, Umounted
  <1>6. ASSUME MountsIt(Now(t).at) \/ MountFails(Now(t).at)
        PROVE  /\ mounted' \in [Points -> Media \cup {None}]
               /\ mishaps' \subseteq {"busy", "unreadable", "removed", "start", "undo", "stop"}
    BY <1>1, <1>6 DEF MountsIt, MountFails, Mishap
  <1>7. CASE Mount(t)
    BY <1>2, <1>6, <1>7 DEF Mount
  <1>8. CASE TryMount(t)
    BY <1>2, <1>6, <1>8 DEF TryMount
  <1>9. QED
    BY <1>3, <1>4, <1>5, <1>7, <1>8

LEMMA ChecksType ==
    ASSUME TypeOK, Frame, NEW t \in Threads, Checks(t) \/ Done(t)
    PROVE  TypeOK'
  <1>0. todo[t] # <<>>
    BY DEF Checks, Check, Done, Does
  <1>1. Now(t).at \in Points
    BY <1>0, ThenType DEF TypeOK
  <1>2. /\ <<At("mount", Now(t).at)>> \in Seq(Steps) /\ <<>> \in Seq(Steps)
        /\ Remount(Now(t).at) \in Seq(Steps) /\ MountGamecardUma0 \in Seq(Steps)
    BY <1>1, CallsAreSteps, RemountIsPlan, Plans DEF Ops
  <1>3. todo' \in [Threads -> Seq(Steps)]
    BY <1>0, <1>2, ThenType DEF Checks, Check, Done, TypeOK
  <1>4. CASE Checks(t)
    BY <1>3, <1>4 DEF Checks, Check, TypeOK, Frame, mountVars, shareVars
  <1>5. CASE Done(t)
    BY <1>3, <1>5 DEF Done, TypeOK, Frame, mountVars, shareVars
  <1>6. QED
    BY <1>4, <1>5

LEMMA SharesType ==
    ASSUME TypeOK, Frame, NEW t \in Threads,
           \/ Load(t) \/ StopMtp(t) \/ StartVstor(t) \/ MtpBack(t) \/ UnloadBack(t)
           \/ StopVstor(t) \/ StartMtp(t) \/ Unload(t)
    PROVE  TypeOK'
  <1>0. todo[t] # <<>>
    BY DEF Load, StopMtp, StartVstor, MtpBack, UnloadBack, StopVstor, StartMtp, Unload, Does
  <1>1. Now(t).to \in Media
    BY <1>0, ThenType DEF TypeOK
  <1>2. /\ <<Step("stop_mtp", "ux0", Now(t).to)>> \in Seq(Steps)
        /\ <<Step("start_vstor", "ux0", Now(t).to)>> \in Seq(Steps)
        /\ <<Plain("unload_back")>> \in Seq(Steps) /\ <<>> \in Seq(Steps)
        /\ <<Plain("mtp_back"), Plain("unload_back")>> \in Seq(Steps)
        /\ <<Plain("start_mtp")>> \in Seq(Steps) /\ <<Plain("unload")>> \in Seq(Steps)
    BY <1>1, StepIsStep, CallsAreSteps DEF Ops, Points
  <1>3. Remount("ux0") \o <<At("remount_if", "imc0"), At("remount_if", "xmc0"),
                            At("remount_if", "uma0")>> \in Seq(Steps)
    <2>1. Remount("ux0") \in Seq(Steps)
      BY RemountIsPlan DEF Points
    <2>2. <<At("remount_if", "imc0"), At("remount_if", "xmc0"), At("remount_if", "uma0")>>
             \in Seq(Steps)
      BY CallsAreSteps DEF Ops, Points
    <2>3. QED
      BY <2>1, <2>2
  <1>4. todo' \in [Threads -> Seq(Steps)]
    <2>1. CASE Load(t) \/ StopMtp(t) \/ StartVstor(t)
      BY <1>0, <1>2, <2>1, ThenType DEF Load, StopMtp, StartVstor, TypeOK
    <2>2. CASE MtpBack(t) \/ UnloadBack(t) \/ StopVstor(t) \/ StartMtp(t)
      BY <1>0, <1>2, <2>2, ThenType DEF MtpBack, UnloadBack, StopVstor, StartMtp, TypeOK
    <2>3. CASE Unload(t)
      BY <1>0, <1>2, <1>3, <2>3, ThenType DEF Unload, TypeOK
    <2>4. QED
      BY <2>1, <2>2, <2>3
  <1> USE <1>1, <1>4 DEF TypeOK, Frame, mountVars, Mishap
  <1>5. CASE Load(t) \/ StopMtp(t) \/ StartVstor(t)
    BY <1>5 DEF Load, StopMtp, StartVstor
  <1>6. CASE MtpBack(t) \/ UnloadBack(t)
    BY <1>6 DEF MtpBack, UnloadBack
  <1>7. CASE StopVstor(t) \/ StartMtp(t) \/ Unload(t)
    BY <1>7 DEF StopVstor, StartMtp, Unload
  <1>8. QED
    BY <1>5, <1>6, <1>7

LEMMA BeginType ==
    ASSUME TypeOK, NEW t \in Threads, NEW s \in Seq(Steps), Begin(t, s)
    PROVE  todo' \in [Threads -> Seq(Steps)]
  BY DEF Begin, TypeOK

LEMMA HandlersType ==
    ASSUME TypeOK, Frame,
           \/ PressUmount \/ PressMount \/ PressNothing
           \/ \E m \in Media : Share(m)
           \/ \E t \in Threads : Unshare(t)
    PROVE  TypeOK'
  <1>0. /\ "UI" \in Threads /\ <<>> \in Seq(Steps)
        /\ Plain("umounted") \in Steps /\ At("try_mount", "uma0") \in Steps
        /\ \A m \in Media : Step("load", "ux0", m) \in Steps
    BY StepIsStep, CallsAreSteps DEF Threads, Ops, Points
  <1>1. todo' \in [Threads -> Seq(Steps)]
    <2>1. CASE PressUmount
      <3>1. BringBack \o OthersAfterUmount \o <<Plain("umounted")>> \in Seq(Steps)
        BY <1>0, Plans
      <3>2. QED
        BY <1>0, <2>1, <3>1, BeginType DEF PressUmount
    <2>2. CASE PressMount
      <3>1. (IF Folder("uma0") THEN ToUsb ELSE <<At("try_mount", "uma0")>>) \in Seq(Steps)
        BY <1>0, Plans
      <3>2. QED
        BY <1>0, <2>2, <3>1, BeginType DEF PressMount
    <2>3. CASE PressNothing
      BY <1>0, <2>3, BeginType DEF PressNothing
    <2>4. ASSUME NEW m \in Media, Share(m) PROVE todo' \in [Threads -> Seq(Steps)]
      <3>1. (IF modid THEN StopUsb ELSE <<>>) \in Seq(Steps)
        BY <1>0, Plans
      <3>2. <<Step("load", "ux0", m)>> \in Seq(Steps)
        BY <1>0
      <3>3. (IF modid THEN StopUsb ELSE <<>>) \o <<Step("load", "ux0", m)>> \in Seq(Steps)
        BY <3>1, <3>2
      <3>4. QED
        BY <1>0, <2>4, <3>3, BeginType DEF Share
    <2>5. ASSUME NEW t \in Threads, Unshare(t) PROVE todo' \in [Threads -> Seq(Steps)]
      BY <2>5, BeginType, Plans DEF Unshare
    <2>6. QED
      BY <2>1, <2>2, <2>3, <2>4, <2>5
  <1>2. UNCHANGED <<mountVars, shareVars, present, mishaps>> /\ notice' \in {notice, 0, 11}
    BY DEF PressUmount, PressMount, PressNothing, Share, Unshare, Begin
  <1>3. QED
    BY <1>1, <1>2 DEF TypeOK, Frame, mountVars, shareVars

LEMMA StepType == TypeOK /\ [Next]_vars => TypeOK'
  <1> SUFFICES ASSUME TypeOK, [Next]_vars PROVE TypeOK'
    OBVIOUS
  <1>1. CASE UNCHANGED vars
    BY <1>1 DEF vars, mountVars, shareVars, TypeOK
  <1>2. CASE Next
    <2>0. SystemNext /\ Frame
      BY <1>2 DEF Next, Frame
    <2>1. ASSUME NEW m \in slots, Insert(m) \/ Remove(m) PROVE TypeOK'
      <3>1. present' \subseteq slots /\ mishaps' \subseteq mishaps \cup {"removed"}
        BY <2>1 DEF Insert, Remove, Mishap, TypeOK
      <3>2. UNCHANGED <<todo, notice, mountVars, shareVars>>
        BY <2>1 DEF Insert, Remove
      <3>3. QED
        BY <2>0, <3>1, <3>2 DEF TypeOK, Frame, mountVars, shareVars
    <2>2. CASE PcWrites
      BY <2>0, <2>2 DEF PcWrites, TypeOK, Frame, shareVars
    <2>3. ASSUME NEW t \in Threads, ThreadStep(t) PROVE TypeOK'
      BY <2>0, <2>3, MountsType, ChecksType, SharesType DEF ThreadStep
    <2>4. QED
      BY <2>0, <2>1, <2>2, <2>3, HandlersType DEF SystemNext
  <1>3. QED
    BY <1>1, <1>2

\* Every variable keeps its type, and every thread a plan of calls that there are.
THEOREM TypeCorrect == Spec => []TypeOK
  <1>1. Init => TypeOK
    <2> SUFFICES ASSUME Init PROVE TypeOK
      OBVIOUS
    <2>1. todo \in [Threads -> Seq(Steps)]
      BY DEF Init
    <2>2. redirect \in [Points -> Media] /\ mounted \in [Points -> Media \cup {None}]
      BY DEF Init, Points, Media
    <2>3. exclusive \in BOOLEAN
      BY ExclusivesAreBooleans DEF Init
    <2>4. QED
      BY <2>1, <2>2, <2>3 DEF Init, TypeOK
  <1>2. QED
    BY <1>1, StepType, PTL DEF Spec

-----------------------------------------------------------------------------
(***************************************************************************)
(* FreshAfterSharing.  Once a sharing has ended, for every point that is   *)
(* mounted as it was before the PC wrote there is a call to come, of one   *)
(* thread or the other, that will umount it.                               *)
(***************************************************************************)
\* A call that umounts p for sure, or leads to one.
Covers(s, p) ==
    \/ s.op \in {"force", "remount_if"} /\ s.at = p
    \/ s.op \in {"start_mtp", "unload"}

InPlan(s, p) == \E i \in 1..Len(s) : Covers(s[i], p)

\* What is mounted is there: only the removal of a medium makes it otherwise.
MediaThere == \A p \in Points : mounted[p] \in present \cup {"ur0", None}
StaleIsMounted == \A p \in stale : mounted[p] # None

Refreshed == \A p \in stale \ {"ur0"} : \E t \in Threads : InPlan(todo[t], p)

FreshInv ==
    /\ StaleIsMounted
    /\ "removed" \notin mishaps => MediaThere
    /\ shared = None /\ mishaps \cap {"stop", "removed"} = {} => Refreshed

\* A call that is made goes from the plan; the others stay in it.
LEMMA ThenKeeps ==
    ASSUME todo \in [Threads -> Seq(Steps)], NEW t \in Threads, todo[t] # <<>>,
           NEW s \in Seq(Steps), Then(t, s), NEW p
    PROVE  /\ InPlan(todo[t], p) => Covers(Now(t), p) \/ InPlan(todo'[t], p)
           /\ InPlan(s, p) => InPlan(todo'[t], p)
           /\ \A u \in Threads \ {t} : todo'[u] = todo[u]
  <1> DEFINE q == todo[t]
             r == Tail(q)
  <1>0. q \in Seq(Steps) /\ q # <<>> /\ r \in Seq(Steps) /\ Len(r) = Len(q) - 1
    OBVIOUS
  <1>1. todo'[t] = s \o r /\ \A u \in Threads \ {t} : todo'[u] = todo[u]
    BY DEF Then
  <1>2. /\ Len(s \o r) = Len(s) + Len(r)
        /\ \A i \in 1..Len(s) : (s \o r)[i] = s[i]
        /\ \A i \in 1..Len(r) : (s \o r)[Len(s) + i] = r[i]
    BY <1>0
  <1>3. ASSUME InPlan(s, p) PROVE InPlan(todo'[t], p)
    <2>1. PICK i \in 1..Len(s) : Covers(s[i], p)
      BY <1>3 DEF InPlan
    <2>2. i \in 1..Len(s \o r) /\ Covers((s \o r)[i], p)
      BY <1>0, <1>2, <2>1
    <2>3. QED
      BY <1>1, <2>2 DEF InPlan
  <1>4. ASSUME InPlan(q, p), ~Covers(Now(t), p) PROVE InPlan(todo'[t], p)
    <2>1. PICK i \in 1..Len(q) : Covers(q[i], p)
      BY <1>4 DEF InPlan
    <2>2. i # 1
      BY <1>0, <1>4, <2>1 DEF Now
    <2>3. i - 1 \in 1..Len(r) /\ r[i - 1] = q[i]
      BY <1>0, <2>1, <2>2
    <2>4. Len(s) + (i - 1) \in 1..Len(s \o r) /\ (s \o r)[Len(s) + (i - 1)] = q[i]
      BY <1>0, <1>2, <2>3
    <2>5. QED
      BY <1>1, <2>1, <2>4 DEF InPlan
  <1>5. QED
    BY <1>1, <1>3, <1>4

\* A call that covers nothing, or that plans what it covered.
LEMMA RefreshedOn ==
    ASSUME todo \in [Threads -> Seq(Steps)], NEW t \in Threads, todo[t] # <<>>,
           NEW s \in Seq(Steps), Then(t, s), Refreshed, stale' \subseteq stale,
           \A p \in stale' \ {"ur0"} : Covers(Now(t), p) => InPlan(s, p)
    PROVE  Refreshed'
  <1> SUFFICES ASSUME NEW p \in stale' \ {"ur0"} PROVE \E u \in Threads : InPlan(todo'[u], p)
    BY DEF Refreshed
  <1>1. PICK u \in Threads : InPlan(todo[u], p)
    BY DEF Refreshed
  <1>2. CASE u = t
    BY <1>1, <1>2, ThenKeeps
  <1>3. CASE u # t
    BY <1>1, <1>3, ThenKeeps
  <1>4. QED
    BY <1>2, <1>3

\* The calls that umount and mount.
LEMMA MountsFresh ==
    ASSUME TypeOK, FreshInv, NEW t \in Threads,
           Redirect(t) \/ Umount(t) \/ ForceUmount(t) \/ Mount(t) \/ TryMount(t)
    PROVE  FreshInv'
  <1>0. /\ todo[t] # <<>> /\ todo \in [Threads -> Seq(Steps)] /\ <<>> \in Seq(Steps)
        /\ ToUsb \in Seq(Steps)
        /\ shared' = shared /\ present' = present /\ mishaps \subseteq mishaps'
    BY Plans
    DEF Redirect, Umount, ForceUmount, Mount, TryMount, Does, TypeOK, shareVars, MountsIt,
        MountFails, Mishap
  <1>1. Now(t).at \in Points
    BY <1>0, ThenType
  <1>2. /\ stale' \subseteq stale
        /\ \A p \in Points : \/ mounted'[p] = mounted[p]
                             \/ mounted'[p] = None /\ p \notin stale'
                             \/ mounted[p] = None /\ mounted'[p] \in present \cup {"ur0"}
    <2>1. CASE Redirect(t)
      BY <2>1 DEF Redirect
    <2>2. CASE Umount(t) \/ ForceUmount(t)
      BY <1>1, <2>2 DEF Umount, ForceUmount, Umounted, TypeOK
    <2>3. CASE Mount(t) \/ TryMount(t)
      <3>1. stale' = stale /\ (MountsIt(Now(t).at) \/ MountFails(Now(t).at))
        BY <2>3 DEF Mount, TryMount
      <3>2. QED
        BY <1>1, <3>1 DEF MountsIt, MountFails, CanMount, TypeOK
    <2>4. QED
      BY <2>1, <2>2, <2>3
  <1>3. StaleIsMounted'
    BY <1>2, NoneIsNoMedium DEF FreshInv, StaleIsMounted, TypeOK
  <1>4. "removed" \notin mishaps' => MediaThere'
    BY <1>0, <1>2 DEF FreshInv, MediaThere
  <1>5. \E s \in Seq(Steps) : Then(t, s)
    BY <1>0 DEF Redirect, Umount, ForceUmount, Mount, TryMount
  <1>6. \A p \in stale' : ~Covers(Now(t), p)
    <2>1. CASE ForceUmount(t)
      BY <2>1 DEF ForceUmount, Does, Now, Umounted, Covers
    <2>2. CASE ~ForceUmount(t)
      BY <2>2 DEF Redirect, Umount, Mount, TryMount, Does, Now, Covers
    <2>3. QED
      BY <2>1, <2>2
  <1>7. shared' = None /\ mishaps' \cap {"stop", "removed"} = {} => Refreshed'
    <2>1. Refreshed => Refreshed'
      BY <1>0, <1>2, <1>5, <1>6, RefreshedOn
    <2>2. QED
      BY <1>0, <2>1 DEF FreshInv
  <1>8. QED
    BY <1>3, <1>4, <1>7 DEF FreshInv
\* A check, if it covers a stale point, finds it mounted and plans its remount.
LEMMA ChecksFresh ==
    ASSUME TypeOK, FreshInv, NEW t \in Threads, Checks(t) \/ Done(t)
    PROVE  FreshInv'
  <1>0. /\ todo[t] # <<>> /\ todo \in [Threads -> Seq(Steps)]
        /\ UNCHANGED <<mounted, stale, shared, present, mishaps>>
    BY DEF Checks, Check, Done, Does, TypeOK, mountVars, shareVars
  <1>1. Now(t).at \in Points
    BY <1>0, ThenType
  <1>2. StaleIsMounted' /\ ("removed" \notin mishaps' => MediaThere')
    BY <1>0 DEF FreshInv, StaleIsMounted, MediaThere
  <1>3. ASSUME shared' = None, mishaps' \cap {"stop", "removed"} = {} PROVE Refreshed'
    <2>1. Refreshed /\ MediaThere /\ stale' = stale
      BY <1>0, <1>3 DEF FreshInv
    <2> DEFINE here == Now(t).at
    <2>2. /\ <<At("mount", here)>> \in Seq(Steps) /\ <<>> \in Seq(Steps)
          /\ Remount(here) \in Seq(Steps) /\ MountGamecardUma0 \in Seq(Steps)
      BY <1>1, CallsAreSteps, RemountIsPlan, Plans DEF Ops
    <2>3. CASE Does(t, "remount_if")
      <3>1. Then(t, IF Folder(here) THEN Remount(here) ELSE <<>>)
        BY <2>3 DEF Checks, Check, Done, Does, Now
      <3>2. ASSUME NEW p \in stale \ {"ur0"}, Covers(Now(t), p)
            PROVE  InPlan(IF Folder(here) THEN Remount(here) ELSE <<>>, p)
        <4>1. p = here
          BY <2>3, <3>2 DEF Covers, Does, Now
        <4>2. Folder(here)
          BY <1>0, <1>1, <2>1, <3>2, <4>1 DEF FreshInv, StaleIsMounted, MediaThere, Folder
        <4>3. /\ Len(Remount(here)) = 3 /\ Remount(here)[2].op = "force"
              /\ Remount(here)[2].at = here
          BY DEF Remount, At, Step
        <4>4. QED
          BY <4>1, <4>2, <4>3 DEF InPlan, Covers
      <3>3. QED
        BY <1>0, <2>1, <2>2, <3>1, <3>2, RefreshedOn
    <2>4. CASE ~Does(t, "remount_if")
      <3>1. \E s \in Seq(Steps) : Then(t, s)
        BY <2>2, <2>4 DEF Checks, Check, Done
      <3>2. \A p : ~Covers(Now(t), p)
        BY <2>4 DEF Checks, Check, Done, Does, Now, Covers
      <3>3. QED
        BY <1>0, <2>1, <3>1, <3>2, RefreshedOn
    <2>5. QED
      BY <2>3, <2>4
  <1>4. QED
    BY <1>2, <1>3 DEF FreshInv

\* The end of a sharing plans the remount of everything but ur0:, and the calls
\* that lead there do not lose it.
LEMMA SharesFresh ==
    ASSUME TypeOK, FreshInv, NEW t \in Threads,
           \/ Load(t) \/ StopMtp(t) \/ StartVstor(t) \/ MtpBack(t) \/ UnloadBack(t)
           \/ StopVstor(t) \/ StartMtp(t) \/ Unload(t)
    PROVE  FreshInv'
  <1>0. /\ todo[t] # <<>> /\ todo \in [Threads -> Seq(Steps)]
        /\ UNCHANGED <<mounted, stale, present>>
        /\ mishaps \subseteq mishaps' /\ ("removed" \in mishaps' => "removed" \in mishaps)
    BY DEF Load, StopMtp, StartVstor, MtpBack, UnloadBack, StopVstor, StartMtp, Unload, Does,
           TypeOK, mountVars, Mishap
  <1>1. Now(t).to \in Media
    BY <1>0, ThenType
  <1>2. StaleIsMounted' /\ ("removed" \notin mishaps' => MediaThere')
    BY <1>0 DEF FreshInv, StaleIsMounted, MediaThere
  <1>3. ASSUME shared' = None, mishaps' \cap {"stop", "removed"} = {} PROVE Refreshed'
    <2>1. /\ mishaps \cap {"stop", "removed"} = {} /\ stale' = stale /\ stale \subseteq Points
          /\ (shared = None => Refreshed)
      BY <1>0, <1>3 DEF FreshInv, TypeOK
    <2>2. CASE Load(t) \/ StopMtp(t) \/ StartVstor(t) \/ MtpBack(t) \/ UnloadBack(t)
      <3>1. /\ <<Step("stop_mtp", "ux0", Now(t).to)>> \in Seq(Steps) /\ <<>> \in Seq(Steps)
            /\ <<Step("start_vstor", "ux0", Now(t).to)>> \in Seq(Steps)
            /\ <<Plain("unload_back")>> \in Seq(Steps)
            /\ <<Plain("mtp_back"), Plain("unload_back")>> \in Seq(Steps)
        BY <1>1, StepIsStep, CallsAreSteps DEF Ops, Points
      <3>2. \E s \in Seq(Steps) : Then(t, s)
        BY <2>2, <3>1 DEF Load, StopMtp, StartVstor, MtpBack, UnloadBack
      <3>3. \A p : ~Covers(Now(t), p)
        BY <2>2 DEF Load, StopMtp, StartVstor, MtpBack, UnloadBack, Does, Now, Covers
      <3>4. shared = None
        BY <1>1, <1>3, <2>2, NoneIsNoMedium
        DEF Load, StopMtp, StartVstor, MtpBack, UnloadBack
      <3>5. QED
        BY <1>0, <2>1, <3>2, <3>3, <3>4, RefreshedOn
    <2>3. CASE StopVstor(t)
      <3>1. CASE shared = None
        <4>1. Then(t, <<>>) /\ <<>> \in Seq(Steps)
          BY <2>3, <3>1 DEF StopVstor
        <4>2. \A p : ~Covers(Now(t), p)
          BY <2>3 DEF StopVstor, Does, Now, Covers
        <4>3. QED
          BY <1>0, <2>1, <3>1, <4>1, <4>2, RefreshedOn
      <3>2. CASE shared # None
        <4>1. Then(t, <<Plain("start_mtp")>>)
          BY <1>3, <2>3, <3>2 DEF StopVstor, Mishap
        <4>2. <<Plain("start_mtp")>> \in Seq(Steps)
          BY CallsAreSteps DEF Ops
        <4>3. \A p : InPlan(<<Plain("start_mtp")>>, p)
          BY DEF InPlan, Covers, Plain, Step
        <4>4. \A p : InPlan(todo'[t], p)
          BY <1>0, <4>1, <4>2, <4>3, ThenKeeps
        <4>5. QED
          BY <4>4 DEF Refreshed
      <3>3. QED
        BY <3>1, <3>2
    <2>4. CASE StartMtp(t)
      <3>1. Then(t, <<Plain("unload")>>) /\ shared = None
        BY <1>3, <2>4 DEF StartMtp, Mishap
      <3>2. <<Plain("unload")>> \in Seq(Steps) /\ \A p : InPlan(<<Plain("unload")>>, p)
        BY CallsAreSteps DEF Ops, InPlan, Covers, Plain, Step
      <3>3. QED
        BY <1>0, <2>1, <3>1, <3>2, RefreshedOn
    <2>5. CASE Unload(t)
      <3> DEFINE s == Remount("ux0") \o <<At("remount_if", "imc0"), At("remount_if", "xmc0"),
                                          At("remount_if", "uma0")>>
      <3>1. Then(t, s) /\ shared = None
        BY <1>3, <2>5 DEF Unload, Mishap
      <3>2. s \in Seq(Steps)
        <4>1. Remount("ux0") \in Seq(Steps)
          BY RemountIsPlan DEF Points
        <4>2. <<At("remount_if", "imc0"), At("remount_if", "xmc0"), At("remount_if", "uma0")>>
                 \in Seq(Steps)
          BY CallsAreSteps DEF Ops, Points
        <4>3. QED
          BY <4>1, <4>2
      <3>3. Len(s) = 6 /\ s[2] = At("force", "ux0") /\ s[4] = At("remount_if", "imc0")
            /\ s[5] = At("remount_if", "xmc0") /\ s[6] = At("remount_if", "uma0")
        BY DEF Remount
      <3> HIDE DEF s
      <3>4. \A p \in Points \ {"ur0"} : InPlan(s, p)
        <4> SUFFICES ASSUME NEW p \in Points \ {"ur0"} PROVE InPlan(s, p)
          OBVIOUS
        <4>1. \E i \in 1..6 : Covers(s[i], p)
          <5>1. CASE p = "ux0"
            BY <3>3, <5>1 DEF Covers, At, Step
          <5>2. CASE p = "imc0"
            BY <3>3, <5>2 DEF Covers, At, Step
          <5>3. CASE p = "xmc0"
            BY <3>3, <5>3 DEF Covers, At, Step
          <5>4. CASE p = "uma0"
            BY <3>3, <5>4 DEF Covers, At, Step
          <5>5. QED
            BY <5>1, <5>2, <5>3, <5>4 DEF Points
        <4>2. QED
          BY <3>3, <4>1 DEF InPlan
      <3>5. QED
        BY <1>0, <2>1, <3>1, <3>2, <3>4, RefreshedOn
    <2>6. QED
      BY <2>2, <2>3, <2>4, <2>5
  <1>4. QED
    BY <1>2, <1>3 DEF FreshInv

\* A thread that begins had nothing to do that could be lost.
LEMMA BeginsFresh ==
    ASSUME TypeOK, FreshInv, NEW t \in Threads, NEW s, Begin(t, s)
    PROVE  FreshInv'
  <1>1. \A p : ~InPlan(todo[t], p)
    BY DEF Begin, InPlan
  <1>2. \A u \in Threads \ {t} : todo'[u] = todo[u]
    BY DEF Begin, TypeOK
  <1>3. UNCHANGED <<mounted, stale, shared, present, mishaps>>
    BY DEF Begin, mountVars, shareVars
  <1>4. Refreshed => Refreshed'
    BY <1>1, <1>2, <1>3 DEF Refreshed
  <1>5. QED
    BY <1>3, <1>4 DEF FreshInv, StaleIsMounted, MediaThere

LEMMA WorldFresh ==
    ASSUME TypeOK, FreshInv, (\E m \in slots : Insert(m) \/ Remove(m)) \/ PcWrites
    PROVE  FreshInv'
  <1>1. ASSUME NEW m \in slots, Insert(m) PROVE FreshInv'
    BY <1>1 DEF Insert, FreshInv, StaleIsMounted, MediaThere, Refreshed, mountVars, shareVars
  <1>2. ASSUME NEW m \in slots, Remove(m) PROVE FreshInv'
    <2>1. "removed" \in mishaps' /\ UNCHANGED <<mounted, stale>>
      BY <1>2 DEF Remove, Mishap, mountVars
    <2>2. QED
      BY <2>1 DEF FreshInv, StaleIsMounted
  <1>3. CASE PcWrites
    BY <1>3 DEF PcWrites, FreshInv, StaleIsMounted, MediaThere, shareVars
  <1>4. QED
    BY <1>1, <1>2, <1>3

LEMMA StepFresh == TypeOK /\ FreshInv /\ [Next]_vars => FreshInv'
  <1> SUFFICES ASSUME TypeOK, FreshInv, [Next]_vars PROVE FreshInv'
    OBVIOUS
  <1>1. CASE UNCHANGED vars
    BY <1>1 DEF vars, mountVars, shareVars, FreshInv, StaleIsMounted, MediaThere, Refreshed
  <1>2. CASE Next
    <2>0. SystemNext
      BY <1>2 DEF Next
    <2>1. ASSUME NEW t \in Threads, ThreadStep(t) PROVE FreshInv'
      BY <2>1, MountsFresh, ChecksFresh, SharesFresh DEF ThreadStep
    <2>2. CASE PressUmount \/ PressMount \/ PressNothing \/ \E m \in Media : Share(m)
      <3>1. "UI" \in Threads /\ \E s : Begin("UI", s)
        BY <2>2 DEF PressUmount, PressMount, PressNothing, Share, Threads
      <3>2. QED
        BY <3>1, BeginsFresh
    <2>3. ASSUME NEW t \in Threads, Unshare(t) PROVE FreshInv'
      BY <2>3, BeginsFresh DEF Unshare
    <2>4. QED
      BY <2>0, <2>1, <2>2, <2>3, WorldFresh DEF SystemNext
  <1>3. QED
    BY <1>1, <1>2

\* Once a sharing has ended in full and both threads are done, nothing but ur0: is
\* mounted as it was before the PC wrote, whichever way the calls of the button
\* and of the two stopUsb interleave.
THEOREM SharingLeavesNothingStale == Spec => []FreshAfterSharing
  <1>1. Init => FreshInv
    <2> SUFFICES ASSUME Init PROVE FreshInv
      OBVIOUS
    <2>1. MediaThere
      BY DEF Init, MediaThere, Points
    <2>2. QED
      BY <2>1 DEF Init, FreshInv, StaleIsMounted, Refreshed
  <1>2. TypeOK /\ FreshInv => FreshAfterSharing
    <2> SUFFICES ASSUME TypeOK, FreshInv, Quiet, shared = None,
                        mishaps \cap {"stop", "removed"} = {}
                 PROVE  stale \subseteq {"ur0"}
      BY DEF FreshAfterSharing
    <2>1. \A t \in Threads : \A p : ~InPlan(todo[t], p)
      BY DEF Quiet, InPlan
    <2>2. QED
      BY <2>1 DEF FreshInv, Refreshed
  <1>3. QED
    BY <1>1, <1>2, StepFresh, TypeCorrect, PTL DEF Spec
-----------------------------------------------------------------------------
(***************************************************************************)
(* SharingIsWhole.  While one thread at most is at it, where the module,   *)
(* the driver and the sharing stand is known from the next call it has to  *)
(* make.  A sharing is only ever started last, and when none is left.      *)
(***************************************************************************)
LoadsLast(q) == \A i \in 1..Len(q) : q[i] \in Easy \/ (i = Len(q) /\ q[i].op = "load")
HasLoad(q)   == \E i \in 1..Len(q) : q[i].op = "load"

Whole == loaded = (shared # None) /\ mtp = (shared = None) /\ (shared # None => modid)
Between(m) == loaded /\ mtp = m /\ shared = None

Settled(q) == LoadsLast(q) /\ Whole /\ (HasLoad(q) => shared = None)

Ending(q) ==
    \/ q[1].op = "stop_vstor" /\ Whole
    \/ q[1].op = "start_mtp" /\ Between(FALSE)
    \/ q[1].op = "unload" /\ Between(TRUE)

Starting(q) ==
    \/ q[1].op = "stop_mtp" /\ Len(q) = 1 /\ Between(TRUE)
    \/ q[1].op = "start_vstor" /\ Len(q) = 1 /\ Between(FALSE)
    \/ q[1].op = "mtp_back" /\ Len(q) = 2 /\ q[2].op = "unload_back" /\ Between(FALSE)
    \/ q[1].op = "unload_back" /\ Len(q) = 1 /\ Between(TRUE)

Shape(q) ==
    \/ Settled(q)
    \/ q # <<>> /\ LoadsLast(Tail(q)) /\ Ending(q)
    \/ q # <<>> /\ Starting(q)

WholeInv ==
    ~crossed /\ mishaps \cap {"stop", "undo"} = {} =>
        \E t \in Threads : Shape(todo[t]) /\ \A u \in Threads \ {t} : todo[u] = <<>>

LEMMA LoadsLastThen ==
    ASSUME NEW s \in Seq(Easy), NEW r \in Seq(Steps), LoadsLast(r)
    PROVE  LoadsLast(s \o r) /\ (HasLoad(s \o r) => HasLoad(r))
  <1>1. s \in Seq(Steps) /\ \A i \in 1..Len(s) : s[i] \in Easy
    BY EasyIsStep
  <1>2. Len(s \o r) = Len(s) + Len(r)
    BY <1>1
  <1>3. ASSUME NEW i \in 1..Len(s \o r)
        PROVE  \/ (s \o r)[i] \in Easy
               \/ i = Len(s \o r) /\ (s \o r)[i].op = "load" /\ HasLoad(r)
    <2>1. CASE i <= Len(s)
      BY <1>1, <2>1
    <2>2. CASE i > Len(s)
      <3>1. i - Len(s) \in 1..Len(r) /\ (s \o r)[i] = r[i - Len(s)]
        BY <1>1, <1>2, <2>2
      <3>2. r[i - Len(s)] \in Easy \/ (i - Len(s) = Len(r) /\ r[i - Len(s)].op = "load")
        BY <3>1 DEF LoadsLast
      <3>3. CASE r[i - Len(s)] \in Easy
        BY <3>1, <3>3
      <3>4. CASE i - Len(s) = Len(r) /\ r[i - Len(s)].op = "load"
        <4>1. HasLoad(r)
          BY <3>1, <3>4 DEF HasLoad
        <4>2. i = Len(s \o r)
          BY <1>1, <1>2, <3>4
        <4>3. QED
          BY <3>1, <3>4, <4>1, <4>2
      <3>5. QED
        BY <3>2, <3>3, <3>4
    <2>3. QED
      BY <1>1, <2>1, <2>2
  <1>4. \A e \in Easy : e.op # "load"
    BY DEF Easy, EasyOps
  <1>5. QED
    BY <1>3, <1>4 DEF LoadsLast, HasLoad

LEMMA EasyIsSettled ==
    ASSUME NEW s \in Seq(Easy)
    PROVE  LoadsLast(s) /\ ~HasLoad(s)
  <1>1. \A i \in 1..Len(s) : s[i] \in Easy
    OBVIOUS
  <1>2. \A e \in Easy : e.op # "load"
    BY DEF Easy, EasyOps
  <1>3. QED
    BY <1>1, <1>2 DEF LoadsLast, HasLoad

LEMMA TailSettled ==
    ASSUME NEW q \in Seq(Steps), q # <<>>, LoadsLast(q)
    PROVE  /\ Tail(q) \in Seq(Steps) /\ LoadsLast(Tail(q))
           /\ HasLoad(Tail(q)) => HasLoad(q)
           /\ Head(q).op \in EasyOps \cup {"load"}
           /\ Head(q).op = "load" => Len(q) = 1 /\ HasLoad(q)
  <1>1. /\ Tail(q) \in Seq(Steps) /\ Len(Tail(q)) = Len(q) - 1 /\ Len(q) \in Nat /\ Len(q) >= 1
        /\ \A i \in 1..Len(Tail(q)) : Tail(q)[i] = q[i + 1] /\ i + 1 \in 1..Len(q)
        /\ Head(q) = q[1] /\ 1 \in 1..Len(q)
    OBVIOUS
  <1>2. \A i \in 1..Len(Tail(q)) :
           Tail(q)[i] \in Easy \/ (i = Len(Tail(q)) /\ Tail(q)[i].op = "load")
    <2> SUFFICES ASSUME NEW i \in 1..Len(Tail(q)), Tail(q)[i] \notin Easy
                 PROVE  i = Len(Tail(q)) /\ Tail(q)[i].op = "load"
      OBVIOUS
    <2>1. Tail(q)[i] = q[i + 1] /\ i + 1 \in 1..Len(q)
      BY <1>1
    <2>2. i + 1 = Len(q) /\ q[i + 1].op = "load"
      BY <2>1 DEF LoadsLast
    <2>3. Tail(q)[i].op = "load"
      BY <2>1, <2>2
    <2>4. i = Len(Tail(q))
      <3>1. i + 1 = Len(q) /\ i \in Int
        BY <2>2
      <3>2. Len(Tail(q)) = Len(q) - 1
        BY <1>1
      <3>3. QED
        BY <3>1, <3>2
    <2>5. QED
      BY <2>3, <2>4
  <1>3. HasLoad(Tail(q)) => HasLoad(q)
    BY <1>1 DEF HasLoad
  <1>4. \A e \in Easy : e.op \in EasyOps /\ e.op # "load"
    BY DEF Easy, EasyOps
  <1>5. q[1] \in Easy \/ (1 = Len(q) /\ q[1].op = "load")
    BY <1>1 DEF LoadsLast
  <1>6. HasLoad(q) <=> \E i \in 1..Len(q) : q[i].op = "load"
    BY DEF HasLoad
  <1>7. LoadsLast(Tail(q))
    BY <1>2 DEF LoadsLast
  <1>8. Head(q).op \in EasyOps \cup {"load"}
    BY <1>1, <1>4, <1>5
  <1>9. Head(q).op = "load" => Len(q) = 1 /\ HasLoad(q)
    BY <1>1, <1>4, <1>5, <1>6
  <1>10. QED
    BY <1>1, <1>3, <1>7, <1>8, <1>9
LEMMA TailOfOne ==
    ASSUME NEW S, NEW q \in Seq(S), Len(q) = 1
    PROVE  Tail(q) = <<>>
  <1>1. Tail(q) \in Seq(S) /\ Len(Tail(q)) = 0
    OBVIOUS
  <1>2. QED
    BY <1>1, EmptySeq

LEMMA OneIsNotEmpty == ASSUME NEW S, NEW q \in Seq(S), Len(q) = 1 PROVE q # <<>>
  OBVIOUS

LEMMA OneAhead ==
    ASSUME NEW e, NEW S, e \in S, NEW r \in Seq(S)
    PROVE  (<<e>> \o r) # <<>> /\ (<<e>> \o r)[1] = e /\ Tail(<<e>> \o r) = r
  <1>1. <<e>> \o r \in Seq(S) /\ Len(<<e>> \o r) = 1 + Len(r) /\ (<<e>> \o r)[1] = e
    OBVIOUS
  <1>2. Tail(<<e>> \o r) \in Seq(S) /\ Len(Tail(<<e>> \o r)) = Len(r)
    BY <1>1
  <1>3. \A i \in 1..Len(r) : Tail(<<e>> \o r)[i] = r[i]
    BY <1>1
  <1>4. QED
    BY <1>1, <1>2, <1>3

LEMMA EasyStepWhole ==
    ASSUME TypeOK, NEW t \in Threads, Shape(todo[t]),
           \/ Redirect(t) \/ Umount(t) \/ ForceUmount(t) \/ Mount(t) \/ TryMount(t)
           \/ Checks(t) \/ Done(t)
    PROVE  Shape(todo[t])'
  <1> DEFINE q == todo[t]
  <1>1. q \in Seq(Steps) /\ q # <<>> /\ Now(t).at \in Points
    BY ThenType
    DEF Redirect, Umount, ForceUmount, Mount, TryMount, Checks, Check, Done, Does, TypeOK
  <1>2. q[1].op \in EasyOps
    BY <1>1
    DEF Redirect, Umount, ForceUmount, Mount, TryMount, Checks, Check, Done, Does, Now, EasyOps
  <1>3. Settled(q)
    BY <1>2 DEF Shape, Ending, Starting, EasyOps
  <1>4. PICK s \in Seq(Easy) : Then(t, s)
    <2>1. /\ <<>> \in Seq(Easy) /\ ToUsb \in Seq(Easy) /\ MountGamecardUma0 \in Seq(Easy)
          /\ <<At("mount", Now(t).at)>> \in Seq(Easy) /\ Remount(Now(t).at) \in Seq(Easy)
      BY <1>1, EasyPlans, RemountIsPlan, CallsAreSteps DEF EasyOps
    <2>2. QED
      BY <2>1 DEF Redirect, Umount, ForceUmount, Mount, TryMount, Checks, Check, Done
  <1>5. todo'[t] = s \o Tail(q)
    BY <1>4 DEF Then, TypeOK
  <1>6. LoadsLast(q) /\ Whole /\ (HasLoad(q) => shared = None)
    BY <1>3 DEF Settled
  <1>7. Tail(q) \in Seq(Steps) /\ LoadsLast(Tail(q)) /\ (HasLoad(Tail(q)) => HasLoad(q))
    BY <1>1, <1>6, TailSettled
  <1>8. LoadsLast(todo'[t]) /\ (HasLoad(todo'[t]) => HasLoad(q))
    BY <1>5, <1>7, LoadsLastThen
  <1>9. UNCHANGED <<modid, loaded, mtp, shared>>
    BY DEF Redirect, Umount, ForceUmount, Mount, TryMount, Checks, Check, Done, shareVars
  <1>10. QED
    BY <1>6, <1>8, <1>9 DEF Shape, Settled, Whole, LoadsLast, HasLoad

LEMMA ShareStepWhole ==
    ASSUME TypeOK, NEW t \in Threads, Shape(todo[t]), mishaps' \cap {"stop", "undo"} = {},
           \/ Load(t) \/ StopMtp(t) \/ StartVstor(t) \/ MtpBack(t) \/ UnloadBack(t)
           \/ StopVstor(t) \/ StartMtp(t) \/ Unload(t)
    PROVE  Shape(todo[t])'
  <1> DEFINE q == todo[t]
             n == todo'[t]
  <1>1. /\ q \in Seq(Steps) /\ q # <<>> /\ Now(t) = q[1] /\ Head(q) = q[1]
        /\ Now(t).to \in Media /\ Tail(q) \in Seq(Steps) /\ Len(Tail(q)) = Len(q) - 1
        /\ Len(q) = 2 => Tail(q)[1] = q[2]
        /\ Len(q) = 1 => Tail(q) = <<>>
    <2>1. todo \in [Threads -> Seq(Steps)] /\ todo[t] # <<>>
      BY DEF Load, StopMtp, StartVstor, MtpBack, UnloadBack, StopVstor, StartMtp, Unload, Does,
             TypeOK
    <2>2. q \in Seq(Steps) /\ q # <<>> /\ Now(t).to \in Media /\ Tail(q) \in Seq(Steps)
      BY <2>1, ThenType
    <2>3. Len(Tail(q)) = Len(q) - 1 /\ Head(q) = q[1] /\ (Len(q) = 2 => Tail(q)[1] = q[2])
      BY <2>2
    <2>4. Len(q) = 1 => Tail(q) = <<>>
      BY <2>2, TailOfOne
    <2>5. QED
      BY <2>2, <2>3, <2>4 DEF Now
  <1>2. \A s : Then(t, s) => n = s \o Tail(q)
    BY DEF Then, TypeOK
  <1>3. \A s \in Seq(Steps) : Then(t, s) /\ Tail(q) = <<>> => n = s
    BY <1>2, ConcatEmptySeq
  <1>4. Then(t, <<>>) => n = Tail(q)
    BY <1>1, <1>2, ConcatEmptySeq
  <1>5. q[1].op \notin EasyOps \cup {"load"} => ~LoadsLast(q)
    BY <1>1, TailSettled
  <1>6. CASE Load(t)
    <2>1. q[1].op = "load" /\ LoadsLast(q) /\ Whole /\ (HasLoad(q) => shared = None)
      BY <1>1, <1>6 DEF Load, Does, Shape, Settled, Ending, Starting
    <2>2. Len(q) = 1 /\ Tail(q) = <<>> /\ shared = None
      BY <1>1, <2>1, TailSettled
    <2>3. CASE Then(t, <<Step("stop_mtp", "ux0", Now(t).to)>>) /\ loaded' = TRUE
      <3>1. n = <<Step("stop_mtp", "ux0", Now(t).to)>>
        <4>1. <<Step("stop_mtp", "ux0", Now(t).to)>> \in Seq(Steps)
          BY <1>1, StepIsStep DEF Ops, Points
        <4>2. QED
          BY <1>3, <2>2, <2>3, <4>1
      <3>2. n # <<>> /\ n[1].op = "stop_mtp" /\ Len(n) = 1
        BY <3>1 DEF Step
      <3>3. Between(TRUE)'
        BY <1>6, <2>1, <2>2, <2>3 DEF Load, Whole, Between
      <3>4. QED
        BY <3>2, <3>3 DEF Shape, Starting, Between
    <2>4. CASE Then(t, <<>>) /\ modid' = FALSE /\ UNCHANGED loaded
      <3>1. n = <<>>
        BY <1>4, <2>2, <2>4
      <3>2. LoadsLast(n) /\ ~HasLoad(n)
        BY <3>1, EmptySeq, EasyIsSettled
      <3>3. Whole'
        BY <1>6, <2>1, <2>2, <2>4 DEF Load, Whole
      <3>4. QED
        BY <3>2, <3>3 DEF Shape, Settled, Whole, LoadsLast, HasLoad
    <2>5. QED
      BY <1>6, <2>3, <2>4 DEF Load
  <1>7. CASE StopMtp(t)
    <2>1. q[1].op = "stop_mtp" /\ Len(q) = 1 /\ Between(TRUE) /\ Tail(q) = <<>>
      BY <1>1, <1>5, <1>7 DEF StopMtp, Does, Shape, Settled, Ending, Starting, EasyOps
    <2>2. \/ n = <<Step("start_vstor", "ux0", Now(t).to)>> /\ mtp' = FALSE
          \/ n = <<Plain("unload_back")>> /\ UNCHANGED mtp
      <3>1. /\ <<Step("start_vstor", "ux0", Now(t).to)>> \in Seq(Steps)
            /\ <<Plain("unload_back")>> \in Seq(Steps)
        BY <1>1, StepIsStep, CallsAreSteps DEF Ops, Points
      <3>2. QED
        BY <1>3, <1>7, <2>1, <3>1 DEF StopMtp
    <2>3. UNCHANGED <<modid, loaded, shared>>
      BY <1>7 DEF StopMtp
    <2>4. /\ n # <<>> /\ Len(n) = 1
          /\ \/ n[1].op = "start_vstor" /\ mtp' = FALSE
             \/ n[1].op = "unload_back" /\ mtp' = mtp
      <3>1. CASE n = <<Step("start_vstor", "ux0", Now(t).to)>> /\ mtp' = FALSE
        BY <3>1 DEF Step
      <3>2. CASE n = <<Plain("unload_back")>> /\ UNCHANGED mtp
        BY <3>2 DEF Plain, Step
      <3>3. QED
        BY <2>2, <3>1, <3>2
    <2>5. QED
      BY <2>1, <2>3, <2>4 DEF Shape, Starting, Between
  <1>8. CASE StartVstor(t)
    <2>1. q[1].op = "start_vstor" /\ Len(q) = 1 /\ Between(FALSE) /\ Tail(q) = <<>>
      BY <1>1, <1>5, <1>8 DEF StartVstor, Does, Shape, Settled, Ending, Starting, EasyOps
    <2>2. CASE Then(t, <<>>) /\ shared' = Now(t).to /\ modid' = TRUE
      <3>1. n = <<>>
        BY <1>4, <2>1, <2>2
      <3>2. LoadsLast(n) /\ ~HasLoad(n)
        BY <3>1, EmptySeq, EasyIsSettled
      <3>3. Whole'
        BY <1>1, <1>8, <2>1, <2>2, NoneIsNoMedium DEF StartVstor, Between, Whole
      <3>4. QED
        BY <3>2, <3>3 DEF Shape, Settled, Whole, LoadsLast, HasLoad
    <2>3. CASE Then(t, <<Plain("mtp_back"), Plain("unload_back")>>) /\ UNCHANGED <<shared, modid>>
      <3>1. <<Plain("mtp_back"), Plain("unload_back")>> \in Seq(Steps)
        BY CallsAreSteps DEF Ops
      <3>2. n = <<Plain("mtp_back"), Plain("unload_back")>>
        BY <1>3, <2>1, <2>3, <3>1
      <3>3. n # <<>> /\ Len(n) = 2 /\ n[1].op = "mtp_back" /\ n[2].op = "unload_back"
        BY <3>2 DEF Plain, Step
      <3>4. UNCHANGED <<loaded, mtp, shared>>
        BY <1>8, <2>3 DEF StartVstor
      <3>5. QED
        BY <2>1, <3>3, <3>4 DEF Shape, Starting, Between
    <2>4. QED
      BY <1>8, <2>2, <2>3 DEF StartVstor
  <1>9. CASE MtpBack(t)
    <2>1. Len(q) = 2 /\ q[2].op = "unload_back" /\ Between(FALSE)
      BY <1>1, <1>5, <1>9 DEF MtpBack, Does, Shape, Settled, Ending, Starting, EasyOps
    <2>2. n = Tail(q) /\ mtp' = TRUE /\ UNCHANGED <<loaded, shared>>
      BY <1>4, <1>9 DEF MtpBack, Mishap
    <2>3. Len(Tail(q)) = 1 /\ Tail(q)[1] = q[2] /\ Tail(q) # <<>>
      <3>1. Len(Tail(q)) = 1 /\ Tail(q)[1] = q[2]
        BY <1>1, <2>1
      <3>2. QED
        BY <1>1, <3>1, OneIsNotEmpty
    <2>4. QED
      BY <2>1, <2>2, <2>3 DEF Shape, Starting, Between
  <1>10. CASE UnloadBack(t)
    <2>1. Len(q) = 1 /\ Between(TRUE) /\ Tail(q) = <<>>
      BY <1>1, <1>5, <1>10 DEF UnloadBack, Does, Shape, Settled, Ending, Starting, EasyOps
    <2>2. n = <<>>
      BY <1>4, <1>10, <2>1 DEF UnloadBack
    <2>3. LoadsLast(n) /\ ~HasLoad(n)
      BY <2>2, EmptySeq, EasyIsSettled
    <2>4. Whole'
      BY <1>10, <2>1 DEF UnloadBack, Mishap, Between, Whole
    <2>5. QED
      BY <2>3, <2>4 DEF Shape, Settled, Whole, LoadsLast, HasLoad
  <1>11. CASE StopVstor(t)
    <2>1. LoadsLast(Tail(q)) /\ Whole
      BY <1>1, <1>5, <1>11 DEF StopVstor, Does, Shape, Settled, Ending, Starting, EasyOps
    <2>2. UNCHANGED <<modid, loaded, mtp>>
      BY <1>11 DEF StopVstor
    <2>3. CASE shared = None
      <3>1. n = Tail(q) /\ UNCHANGED shared
        BY <1>4, <1>11, <2>3 DEF StopVstor
      <3>2. QED
        BY <2>1, <2>2, <2>3, <3>1 DEF Shape, Settled, Whole, LoadsLast, HasLoad
    <2>4. CASE shared # None
      <3>1. n = <<Plain("start_mtp")>> \o Tail(q) /\ shared' = None
        BY <1>2, <1>11, <2>4 DEF StopVstor, Mishap
      <3>2. n # <<>> /\ n[1].op = "start_mtp" /\ Tail(n) = Tail(q)
        BY <1>1, <3>1, OneAhead DEF Plain, Step
      <3>3. QED
        BY <2>1, <2>2, <2>4, <3>1, <3>2 DEF Shape, Ending, Whole, Between, LoadsLast
    <2>5. QED
      BY <2>3, <2>4
  <1>12. CASE StartMtp(t)
    <2>1. LoadsLast(Tail(q)) /\ Between(FALSE)
      BY <1>1, <1>5, <1>12 DEF StartMtp, Does, Shape, Settled, Ending, Starting, EasyOps
    <2>2. n = <<Plain("unload")>> \o Tail(q) /\ mtp' = TRUE /\ UNCHANGED <<loaded, shared>>
      BY <1>2, <1>12 DEF StartMtp, Mishap
    <2>3. n # <<>> /\ n[1].op = "unload" /\ Tail(n) = Tail(q)
      <3>1. Plain("unload") \in Steps /\ Plain("unload").op = "unload"
        BY DEF Plain, Step, Steps, Ops, Points, Media
      <3>2. QED
        BY <1>1, <2>2, <3>1, OneAhead
    <2>4. QED
      BY <2>1, <2>2, <2>3 DEF Shape, Ending, Between, LoadsLast
  <1>13. CASE Unload(t)
    <2>1. LoadsLast(Tail(q)) /\ Between(TRUE)
      BY <1>1, <1>5, <1>13 DEF Unload, Does, Shape, Settled, Ending, Starting, EasyOps
    <2> DEFINE s == Remount("ux0") \o <<At("remount_if", "imc0"), At("remount_if", "xmc0"),
                                        At("remount_if", "uma0")>>
    <2>2. n = s \o Tail(q) /\ loaded' = FALSE /\ UNCHANGED <<modid, mtp, shared>>
      BY <1>2, <1>13 DEF Unload, Mishap
    <2>3. s \in Seq(Easy)
      <3>1. Remount("ux0") \in Seq(Easy)
        BY RemountIsPlan DEF Points
      <3>2. <<At("remount_if", "imc0"), At("remount_if", "xmc0"), At("remount_if", "uma0")>>
               \in Seq(Easy)
        BY CallsAreSteps DEF EasyOps, Points
      <3>3. QED
        BY <3>1, <3>2
    <2> HIDE DEF s
    <2>4. LoadsLast(n)
      BY <1>1, <2>1, <2>2, <2>3, LoadsLastThen
    <2>5. QED
      BY <2>1, <2>2, <2>4 DEF Shape, Settled, Whole, Between, LoadsLast, HasLoad
  <1>14. QED
    BY <1>6, <1>7, <1>8, <1>9, <1>10, <1>11, <1>12, <1>13
\* What the handlers plan, when nothing is to be done and the sharing is whole.
LEMMA HandlersWhole ==
    ASSUME TypeOK, WholeInv, NEW t \in Threads, mishaps \cap {"stop", "undo"} = {}, ~crossed,
           crossed' = (crossed \/ \A u \in Threads : todo'[u] # <<>>), ~crossed',
           \/ t = "UI" /\ (PressUmount \/ PressMount \/ PressNothing)
           \/ t = "UI" /\ \E m \in Media : Share(m)
           \/ Unshare(t)
    PROVE  \E u \in Threads : Shape(todo[u])' /\ \A v \in Threads \ {u} : todo'[v] = <<>>
  <1>0. /\ \E s : Begin(t, s)
        /\ todo[t] = <<>> /\ UNCHANGED <<modid, loaded, mtp, shared>>
        /\ \A v \in Threads \ {t} : todo'[v] = todo[v]
    BY DEF PressUmount, PressMount, PressNothing, Share, Unshare, Begin, TypeOK, shareVars
  <1>1. PICK u \in Threads : Shape(todo[u]) /\ \A v \in Threads \ {u} : todo[v] = <<>>
    BY DEF WholeInv
  <1>2. CASE todo'[t] = <<>>
    <2>1. todo' = todo
      BY <1>0, <1>2 DEF Begin, TypeOK
    <2>2. Shape(todo[u])'
      BY <1>0, <1>1, <2>1 DEF Shape, Settled, Ending, Starting, Whole, Between, LoadsLast, HasLoad
    <2>3. QED
      BY <1>1, <2>1, <2>2
  <1>3. CASE todo'[t] # <<>>
    <2>1. \A v \in Threads \ {t} : todo'[v] = <<>> /\ todo[v] = <<>>
      BY <1>0, <1>3 DEF Threads
    <2>2. todo[u] = <<>> /\ Whole
      BY <1>0, <1>1, <2>1 DEF Shape, Settled
    <2>3. Whole'
      BY <1>0, <2>2 DEF Whole
    <2>4. ASSUME todo'[t] \in Seq(Easy) PROVE Shape(todo[t])'
      BY <2>3, <2>4, EasyIsSettled DEF Shape, Settled, Whole, LoadsLast, HasLoad
    <2>5. CASE PressUmount /\ t = "UI"
      <3>1. <<Plain("umounted")>> \in Seq(Easy)
        BY CallsAreSteps DEF EasyOps
      <3>2. BringBack \o OthersAfterUmount \o <<Plain("umounted")>> \in Seq(Easy)
        BY <3>1, EasyPlans
      <3>3. todo'[t] = BringBack \o OthersAfterUmount \o <<Plain("umounted")>>
        BY <2>5 DEF PressUmount, Begin, TypeOK
      <3>4. QED
        BY <2>1, <2>4, <3>2, <3>3
    <2>6. CASE (PressMount \/ PressNothing) /\ t = "UI"
      <3>1. <<At("try_mount", "uma0")>> \in Seq(Easy) /\ <<>> \in Seq(Easy)
        BY CallsAreSteps DEF EasyOps, Points
      <3>2. todo'[t] \in {ToUsb, <<At("try_mount", "uma0")>>, <<>>}
        BY <2>6 DEF PressMount, PressNothing, Begin, TypeOK
      <3>3. QED
        BY <2>1, <2>4, <3>1, <3>2, EasyPlans
    <2>7. ASSUME NEW m \in Media, Share(m), t = "UI" PROVE Shape(todo[t])'
      <3> DEFINE n == todo'[t]
                 load == <<Step("load", "ux0", m)>>
      <3>1. n = (IF modid THEN StopUsb ELSE <<>>) \o load
        BY <2>7 DEF Share, Begin, TypeOK
      <3>2. /\ load \in Seq(Steps) /\ Len(load) = 1 /\ load[1].op = "load"
            /\ Plain("stop_vstor") \in Steps /\ Plain("stop_vstor").op = "stop_vstor"
        <4>1. Step("load", "ux0", m) \in Steps /\ Plain("stop_vstor") \in Steps
          BY StepIsStep, CallsAreSteps DEF Ops, Points
        <4>2. Step("load", "ux0", m).op = "load" /\ Plain("stop_vstor").op = "stop_vstor"
          BY DEF Step, Plain
        <4>3. QED
          BY <4>1, <4>2
      <3>3. LoadsLast(load)
        BY <3>2 DEF LoadsLast
      <3> HIDE DEF load
      <3>4. CASE modid
        <4>1. n = <<Plain("stop_vstor")>> \o load
          BY <3>1, <3>4 DEF StopUsb
        <4>2. n # <<>> /\ n[1].op = "stop_vstor" /\ Tail(n) = load
          BY <3>2, <4>1, OneAhead
        <4>3. QED
          BY <2>3, <3>3, <4>2 DEF Shape, Ending, Whole, LoadsLast
      <3>5. CASE ~modid
        <4>1. n = load
          BY <3>1, <3>2, <3>5, ConcatEmptySeq
        <4>2. shared' = None
          BY <1>0, <2>2, <3>5 DEF Whole
        <4>3. QED
          BY <2>3, <3>3, <4>1, <4>2 DEF Shape, Settled, Whole, LoadsLast, HasLoad
      <3>6. QED
        BY <3>4, <3>5
    <2>8. CASE Unshare(t)
      <3>1. todo'[t] = <<Plain("stop_vstor")>>
        BY <2>8 DEF Unshare, StopUsb, Begin, TypeOK
      <3>2. <<Plain("stop_vstor")>>[1].op = "stop_vstor" /\ Tail(<<Plain("stop_vstor")>>) = <<>>
        BY DEF Plain, Step
      <3>3. LoadsLast(<<>>)
        BY EmptySeq, EasyIsSettled
      <3>4. Shape(todo[t])'
        BY <1>3, <2>3, <3>1, <3>2, <3>3 DEF Shape, Ending, Whole, LoadsLast
      <3>5. QED
        BY <2>1, <3>4
    <2>9. QED
      BY <2>1, <2>5, <2>6, <2>7, <2>8
  <1>4. QED
    BY <1>2, <1>3

LEMMA StepWhole == TypeOK /\ WholeInv /\ [Next]_vars => WholeInv'
  <1> SUFFICES ASSUME TypeOK, WholeInv, [Next]_vars, ~crossed', mishaps' \cap {"stop", "undo"} = {}
               PROVE  \E t \in Threads : Shape(todo[t])' /\ \A u \in Threads \ {t} : todo'[u] = <<>>
    BY DEF WholeInv
  <1>1. CASE UNCHANGED <<todo, shareVars, crossed>> /\ mishaps \subseteq mishaps'
    <2>1. PICK t \in Threads : Shape(todo[t]) /\ \A u \in Threads \ {t} : todo[u] = <<>>
      BY <1>1 DEF WholeInv
    <2>2. Shape(todo[t])'
      BY <1>1, <2>1
      DEF Shape, Settled, Ending, Starting, Whole, Between, LoadsLast, HasLoad, shareVars
    <2>3. QED
      BY <1>1, <2>1, <2>2
  <1>2. CASE UNCHANGED vars
    BY <1>1, <1>2 DEF vars
  <1>3. CASE Next
    <2>0. /\ SystemNext /\ ~crossed
          /\ crossed' = (crossed \/ \A t \in Threads : todo'[t] # <<>>)
      BY <1>3 DEF Next
    <2>2. CASE (\E m \in slots : Insert(m) \/ Remove(m)) \/ PcWrites
      <3>1. UNCHANGED <<todo, shareVars>> /\ mishaps \subseteq mishaps'
        BY <2>2 DEF Insert, Remove, PcWrites, Mishap
      <3>2. mishaps \cap {"stop", "undo"} = {}
        BY <3>1
      <3>3. PICK t \in Threads : Shape(todo[t]) /\ \A u \in Threads \ {t} : todo[u] = <<>>
        BY <2>0, <3>2 DEF WholeInv
      <3>4. Shape(todo[t])'
        BY <3>1, <3>3
        DEF Shape, Settled, Ending, Starting, Whole, Between, LoadsLast, HasLoad, shareVars
      <3>5. QED
        BY <3>1, <3>3, <3>4
    <2>3. ASSUME NEW t \in Threads, ThreadStep(t)
          PROVE  \E u \in Threads : Shape(todo[u])' /\ \A v \in Threads \ {u} : todo'[v] = <<>>
      <3>1. todo[t] # <<>> /\ mishaps \subseteq mishaps' /\ \E s : Then(t, s)
        BY <2>3
        DEF ThreadStep, Redirect, Umount, ForceUmount, Mount, TryMount, Checks, Check, Done, Load,
            StopMtp, StartVstor, MtpBack, UnloadBack, StopVstor, StartMtp, Unload, Does, Mishap,
            MountsIt, MountFails
      <3>2. PICK u \in Threads : Shape(todo[u]) /\ \A v \in Threads \ {u} : todo[v] = <<>>
        BY <2>0, <3>1 DEF WholeInv
      <3>3. u = t
        BY <3>1, <3>2
      <3>4. \A v \in Threads \ {t} : todo'[v] = todo[v]
        BY <3>1 DEF Then, TypeOK
      <3>5. Shape(todo[t])'
        BY <2>3, <3>2, <3>3, EasyStepWhole, ShareStepWhole DEF ThreadStep
      <3>6. QED
        BY <3>2, <3>3, <3>4, <3>5
    <2>4. CASE \/ PressUmount \/ PressMount \/ PressNothing
               \/ \E m \in Media : Share(m)
               \/ \E t \in Threads : Unshare(t)
      <3>1. "UI" \in Threads
        BY DEF Threads
      <3>2. mishaps \cap {"stop", "undo"} = {}
        BY <2>4 DEF PressUmount, PressMount, PressNothing, Share, Unshare, Begin
      <3>3. QED
        BY <2>0, <2>4, <3>1, <3>2, HandlersWhole
    <2>5. QED
      BY <2>0, <2>2, <2>3, <2>4 DEF SystemNext
  <1>4. QED
    BY <1>2, <1>3

\* A sharing that fails to start, or has ended, leaves the module unloaded and MTP
\* running, and one that lasts the other way round, as long as the threads are not
\* at it at once and neither a step of stopUsb has failed nor one that was to undo
\* what startUsb had done.
THEOREM SharingStaysWhole == Spec => []SharingIsWhole
  <1>1. Init => WholeInv
    <2> SUFFICES ASSUME Init PROVE WholeInv
      OBVIOUS
    <2>1. "UI" \in Threads /\ \A t \in Threads : todo[t] = <<>>
      BY DEF Init, Threads
    <2>2. LoadsLast(<<>>) /\ ~HasLoad(<<>>)
      BY EmptySeq, EasyIsSettled
    <2>3. Whole
      BY DEF Init, Whole
    <2>4. QED
      BY <2>1, <2>2, <2>3 DEF WholeInv, Shape, Settled
  <1>2. WholeInv => SharingIsWhole
    BY DEF WholeInv, SharingIsWhole, Quiet, Shape, Settled, Whole
  <1>3. QED
    BY <1>1, <1>2, StepWhole, TypeCorrect, PTL DEF Spec

-----------------------------------------------------------------------------
(***************************************************************************)
(* Ux0HasMedium and NoticeIsTrue.  As long as nothing has gone wrong and   *)
(* one thread at a time has been at it, ux0: is on the medium its device   *)
(* names, or the plan will put it on one that is there, having umounted    *)
(* whatever else holds that medium; and what the plan will say, or was     *)
(* said, of the press is true of that medium.                              *)
(***************************************************************************)
Untroubled == ~crossed /\ mishaps \cap {"busy", "unreadable", "removed"} = {}

\* The media ux0: is put on.
Own == {"gcd", "xmc", "int", "usb"}

Planned(s) == {s[i] : i \in 1..Len(s)}
Is(e, ops, p) == e.op \in ops /\ e.at = p

\* A call that leaves ux0: alone.
Calm(e) ==
    /\ e.op # "try_mount"
    /\ e.op = "redirect" => e.at = "uma0" /\ e.to \in {"usb", "gcd"}
    /\ e.op \in {"umount", "force", "mount", "remount_if"} => e.at # "ux0"
    /\ e.op \in {"any_card", "new_card"} => e.at \in {"xmc0", "imc0"}

Steady(s, m) ==
    /\ \A e \in Planned(s) : Calm(e)
    /\ mounted["ux0"] = m /\ redirect["ux0"] = m

\* A call on the way to the mount of ux0:.
Clears(e, m) ==
    \/ e.op \in {"umount", "force"}
    \/ Is(e, {"redirect"}, "ux0") /\ e.to = m

\* The k-th call is to mount ux0:, after a umount that cannot be refused.
Route(s, k, m) ==
    /\ Is(s[k], {"mount"}, "ux0")
    /\ k > 1 => Is(s[k - 1], {"force"}, "ux0")
    /\ \A i \in 1..(k - 1) : Clears(s[i], m)
    /\ \A i \in (k + 1)..Len(s) : Calm(s[i])

Redirects(s, k) == \E i \in 1..(k - 1) : s[i].op = "redirect"
Frees(s, k, p)  == \E i \in 1..(k - 1) : Is(s[i], {"umount", "force"}, p)

\* ... on medium m, and it can only succeed.
Turns(s, k, m) ==
    /\ Route(s, k, m)
    /\ k = 1 => mounted["ux0"] = None
    /\ redirect["ux0"] = m \/ Redirects(s, k)
    /\ m \in present
    /\ exclusive => \A p \in Points \ {"ux0"} : mounted[p] # m \/ Frees(s, k, p)

Turning(s, m) == \E k \in 1..Len(s) : Turns(s, k, m)

\* The press finds uma0: not mounted, and may yet do nothing.
Trying(s, m) ==
    /\ s = <<At("try_mount", "uma0")>>
    /\ mounted["ux0"] = m /\ redirect["ux0"] = m /\ m # "usb" /\ "usb" \in present
    /\ notice \notin {1, 3}

Says(s, m) ==
    /\ notice = 1 \/ (\E e \in Planned(s) : e.op = "mounted") => m = "usb"
    /\ notice = 3 \/ (\E e \in Planned(s) : e.op = "umounted") => m # "usb"

NoUma(s, ops) == \A e \in Planned(s) : ~Is(e, ops, "uma0")

\* While ux0: is on the USB medium, uma0: is not, nor will be.
Uma(s) ==
    /\ \A e \in Planned(s) : Is(e, {"redirect"}, "uma0") => e.to = "gcd"
    /\ \/ redirect["uma0"] = "gcd" /\ mounted["uma0"] \in {None, "gcd"}
       \/ mounted["uma0"] = None /\ (NoUma(s, {"mount"}) \/ Is(s[1], {"redirect"}, "uma0"))
       \/ /\ NoUma(s, {"mount", "remount_if"})
          /\ \/ s # <<>> /\ Is(s[1], {"umount"}, "uma0")
             \/ Len(s) > 1 /\ Is(s[1], {"redirect"}, "ux0") /\ Is(s[2], {"umount"}, "uma0")

SoundOn(s, m) ==
    /\ Says(s, m) /\ (m = "usb" => Uma(s))
    /\ Steady(s, m) \/ Turning(s, m) \/ Trying(s, m)

Sound(s) == \E m \in Own : SoundOn(s, m)

\* A medium is mounted where its device is named, and only while it is there.
World ==
    /\ \A p \in Points : mounted[p] \in present \cup {"ur0", None}
    /\ present \cap {"gcd", "xmc", "int"} # {}
    /\ redirect["xmc0"] = "xmc" /\ redirect["imc0"] = "int" /\ redirect["ur0"] = "ur0"
    /\ redirect["uma0"] \in {"usb", "gcd"} /\ redirect["ux0"] \in Own
    /\ mounted["xmc0"] \in {None, "xmc"} /\ mounted["imc0"] \in {None, "int"}
    /\ mounted["ur0"] \in {None, "ur0"} /\ mounted["uma0"] \in {None, "usb", "gcd"}
    /\ exclusive => \A p, q \in Points : p # q /\ mounted[p] # None => mounted[p] # mounted[q]

OneSound == \E t \in Threads : Sound(todo[t]) /\ \A u \in Threads \ {t} : todo[u] = <<>>

Ux0Inv == Untroubled => World /\ OneSound

-----------------------------------------------------------------------------
\* What a plan plans: the call that comes first, and what the rest plans.
LEMMA PlannedHead ==
    ASSUME NEW s \in Seq(Steps), s # <<>>
    PROVE  /\ s[1] \in Planned(s) /\ s[1] \in Steps
           /\ Planned(s) = {s[1]} \cup Planned(Tail(s))
           /\ Len(Tail(s)) = Len(s) - 1 /\ Len(s) \in Nat /\ Len(s) > 0
           /\ \A i \in 1..(Len(s) - 1) : Tail(s)[i] = s[i + 1]
  <1>0. Len(s) \in Nat /\ Len(s) > 0
    OBVIOUS
  <1>1. Len(Tail(s)) = Len(s) - 1 /\ \A i \in 1..(Len(s) - 1) : Tail(s)[i] = s[i + 1]
    OBVIOUS
  <1>2. s[1] \in Planned(s) /\ s[1] \in Steps
    BY <1>0 DEF Planned
  <1>3. Planned(Tail(s)) \subseteq Planned(s)
    <2> SUFFICES ASSUME NEW i \in 1..(Len(s) - 1) PROVE Tail(s)[i] \in Planned(s)
      BY <1>1 DEF Planned
    <2>1. i + 1 \in 1..Len(s)
      BY <1>0
    <2>2. QED
      BY <1>1, <2>1 DEF Planned
  <1>4. Planned(s) \subseteq {s[1]} \cup Planned(Tail(s))
    <2> SUFFICES ASSUME NEW i \in 1..Len(s), i # 1 PROVE s[i] \in Planned(Tail(s))
      BY DEF Planned
    <2>1. i - 1 \in 1..(Len(s) - 1) /\ (i - 1) + 1 = i
      BY <1>0
    <2>2. Tail(s)[i - 1] = s[i]
      BY <1>1, <2>1
    <2>3. i - 1 \in 1..Len(Tail(s))
      BY <1>1, <2>1
    <2>4. QED
      BY <2>2, <2>3 DEF Planned
  <1>5. QED
    BY <1>0, <1>1, <1>2, <1>3, <1>4

\* ... a plan after another, and short ones.
LEMMA PlannedBoth ==
    ASSUME NEW a \in Seq(Steps), NEW b \in Seq(Steps)
    PROVE  Planned(a \o b) = Planned(a) \cup Planned(b)
  <1>0. /\ Len(a) \in Nat /\ Len(b) \in Nat /\ Len(a \o b) = Len(a) + Len(b)
        /\ \A i \in 1..Len(a) : (a \o b)[i] = a[i]
        /\ \A i \in 1..Len(b) : (a \o b)[Len(a) + i] = b[i]
    OBVIOUS
  <1>1. Planned(a) \subseteq Planned(a \o b)
    BY <1>0 DEF Planned
  <1>2. Planned(b) \subseteq Planned(a \o b)
    <2> SUFFICES ASSUME NEW i \in 1..Len(b) PROVE b[i] \in Planned(a \o b)
      BY DEF Planned
    <2>1. Len(a) + i \in 1..Len(a \o b)
      BY <1>0
    <2>2. QED
      BY <1>0, <2>1 DEF Planned
  <1>3. Planned(a \o b) \subseteq Planned(a) \cup Planned(b)
    <2> SUFFICES ASSUME NEW i \in 1..Len(a \o b) PROVE (a \o b)[i] \in Planned(a) \cup Planned(b)
      BY DEF Planned
    <2>1. CASE i <= Len(a)
      BY <1>0, <2>1 DEF Planned
    <2>2. CASE i > Len(a)
      <3>1. i - Len(a) \in 1..Len(b) /\ Len(a) + (i - Len(a)) = i
        BY <1>0, <2>2
      <3>2. (a \o b)[i] = b[i - Len(a)]
        BY <1>0, <3>1
      <3>3. QED
        BY <3>1, <3>2 DEF Planned
    <2>3. QED
      BY <1>0, <2>1, <2>2
  <1>4. QED
    BY <1>1, <1>2, <1>3

LEMMA PlannedFew ==
    /\ Planned(<<>>) = {}
    /\ \A a : Planned(<<a>>) = {a}
    /\ \A a, b : Planned(<<a, b>>) = {a, b}
    /\ \A a, b, c : Planned(<<a, b, c>>) = {a, b, c}
  <1>1. 1..0 = {} /\ 1..1 = {1} /\ 1..2 = {1, 2} /\ 1..3 = {1, 2, 3}
    OBVIOUS
  <1>2. /\ Len(<<>>) = 0
        /\ \A a : Len(<<a>>) = 1 /\ <<a>>[1] = a
        /\ \A a, b : Len(<<a, b>>) = 2 /\ <<a, b>>[1] = a /\ <<a, b>>[2] = b
        /\ \A a, b, c : /\ Len(<<a, b, c>>) = 3
                        /\ <<a, b, c>>[1] = a /\ <<a, b, c>>[2] = b /\ <<a, b, c>>[3] = c
    OBVIOUS
  <1>3. Planned(<<>>) = {}
    BY <1>1, <1>2 DEF Planned
  <1>4. ASSUME NEW a PROVE Planned(<<a>>) = {a}
    <2>1. Planned(<<a>>) = {<<a>>[i] : i \in {1}}
      BY <1>1, <1>2 DEF Planned
    <2>2. QED
      BY <1>2, <2>1
  <1>5. ASSUME NEW a, NEW b PROVE Planned(<<a, b>>) = {a, b}
    <2>1. Planned(<<a, b>>) = {<<a, b>>[i] : i \in {1, 2}}
      BY <1>1, <1>2 DEF Planned
    <2>2. QED
      BY <1>2, <2>1
  <1>6. ASSUME NEW a, NEW b, NEW c PROVE Planned(<<a, b, c>>) = {a, b, c}
    <2>1. Planned(<<a, b, c>>) = {<<a, b, c>>[i] : i \in {1, 2, 3}}
      BY <1>1, <1>2 DEF Planned
    <2>2. QED
      BY <1>2, <2>1
  <1>7. QED
    BY <1>3, <1>4, <1>5, <1>6

-----------------------------------------------------------------------------
\* What stopUsb remounts.
Unloaded == Remount("ux0") \o <<At("remount_if", "imc0"), At("remount_if", "xmc0"),
                                At("remount_if", "uma0")>>

ShareOps == {"stop_mtp", "start_vstor", "mtp_back", "unload_back", "start_mtp", "unload"}
NoEffectOps == {"load", "stop_mtp", "start_vstor", "mtp_back", "unload_back", "stop_vstor",
                "start_mtp"}

\* What a call plans in its turn.
Grows(e, new) ==
    /\ e.op \in {"redirect", "umount", "force", "mount", "mounted", "umounted"} => new = <<>>
    /\ e.op = "gcd_to_uma0" => new \in {<<>>, MountGamecardUma0}
    /\ e.op \in {"any_card", "new_card"} => new \in {<<>>, <<At("mount", e.at)>>}
    /\ e.op = "remount_if" => new = IF Folder(e.at) THEN Remount(e.at) ELSE <<>>
    /\ e.op = "unload" => new \in {<<>>, Unloaded}
    /\ e.op = "try_mount" => new = IF CanMount(e.at) THEN ToUsb ELSE <<>>
    /\ e.op \in NoEffectOps => \A x \in Planned(new) : x.op \in ShareOps

\* What a call does when nothing goes wrong.
Effect(e) ==
    /\ redirect' = IF e.op = "redirect" THEN [redirect EXCEPT ![e.at] = e.to] ELSE redirect
    /\ mounted' = IF e.op \in {"umount", "force"} THEN [mounted EXCEPT ![e.at] = None]
                  ELSE IF e.op \in {"mount", "try_mount"} /\ CanMount(e.at)
                  THEN [mounted EXCEPT ![e.at] = redirect[e.at]]
                  ELSE mounted
    /\ notice' = IF e.op = "mounted" THEN 1
                 ELSE IF e.op = "umounted" THEN 3
                 ELSE IF e.op = "try_mount" /\ ~CanMount(e.at) THEN 6
                 ELSE notice
    /\ present' = present

LEMMA UnloadedIsPlan == Unloaded \in Seq(Steps)
  <1>1. Remount("ux0") \in Seq(Steps)
    BY RemountIsPlan DEF Points
  <1>2. <<At("remount_if", "imc0"), At("remount_if", "xmc0"), At("remount_if", "uma0")>>
           \in Seq(Steps)
    BY CallsAreSteps DEF Ops, Points
  <1>3. QED
    BY <1>1, <1>2 DEF Unloaded

Fine == mishaps \cap {"busy", "unreadable", "removed"} = {}

LEMMA MountsEffect ==
    ASSUME TypeOK, NEW t \in Threads, Fine',
           Redirect(t) \/ Umount(t) \/ ForceUmount(t) \/ Mount(t) \/ TryMount(t)
    PROVE  /\ todo[t] # <<>> /\ Effect(Now(t))
           /\ \E new \in Seq(Steps) : Then(t, new) /\ Grows(Now(t), new)
  <1>1. todo[t] # <<>> /\ <<>> \in Seq(Steps) /\ ToUsb \in Seq(Steps)
    BY Plans DEF Redirect, Umount, ForceUmount, Mount, TryMount, Does
  <1>2. /\ Now(t).at \in Points
        /\ redirect \in [Points -> Media] /\ mounted \in [Points -> Media \cup {None}]
    BY <1>1, ThenType DEF TypeOK
  <1>3. CASE Redirect(t)
    <2>1. Now(t).op = "redirect" /\ Then(t, <<>>)
      BY <1>3 DEF Redirect, Does, Now
    <2>2. Effect(Now(t))
      BY <1>3, <2>1 DEF Redirect, Effect
    <2>3. Grows(Now(t), <<>>)
      BY <2>1 DEF Grows, NoEffectOps
    <2>4. QED
      BY <1>1, <2>1, <2>2, <2>3
  <1>4. CASE Umount(t)
    <2>1. Now(t).op = "umount" /\ Then(t, <<>>)
      BY <1>4 DEF Umount, Does, Now
    <2>2. Umounted(Now(t).at)
      BY <1>4 DEF Umount, Fine, Mishap
    <2>3. Effect(Now(t))
      BY <1>4, <2>1, <2>2 DEF Umount, Umounted, Effect
    <2>4. Grows(Now(t), <<>>)
      BY <2>1 DEF Grows, NoEffectOps
    <2>5. QED
      BY <1>1, <2>1, <2>3, <2>4
  <1>5. CASE ForceUmount(t)
    <2>1. Now(t).op = "force" /\ Then(t, <<>>)
      BY <1>5 DEF ForceUmount, Does, Now
    <2>2. Effect(Now(t))
      BY <1>5, <2>1 DEF ForceUmount, Umounted, Effect
    <2>3. Grows(Now(t), <<>>)
      BY <2>1 DEF Grows, NoEffectOps
    <2>4. QED
      BY <1>1, <2>1, <2>2, <2>3
  <1>6. ASSUME MountsIt(Now(t).at) \/ MountFails(Now(t).at)
        PROVE  \/ /\ CanMount(Now(t).at)
                  /\ mounted' = [mounted EXCEPT ![Now(t).at] = redirect[Now(t).at]]
               \/ ~CanMount(Now(t).at) /\ mounted' = mounted
    BY <1>6 DEF MountsIt, MountFails, Mishap, Fine
  <1>7. CASE Mount(t)
    <2>1. Now(t).op = "mount" /\ Then(t, <<>>)
      BY <1>7 DEF Mount, Does, Now
    <2>2. Effect(Now(t))
      BY <1>6, <1>7, <2>1 DEF Mount, Effect
    <2>3. Grows(Now(t), <<>>)
      BY <2>1 DEF Grows, NoEffectOps
    <2>4. QED
      BY <1>1, <2>1, <2>2, <2>3
  <1>8. CASE TryMount(t)
    <2>1. Now(t).op = "try_mount"
      BY <1>8 DEF TryMount, Does, Now
    <2>2. \/ /\ CanMount(Now(t).at) /\ Then(t, ToUsb) /\ notice' = notice
             /\ mounted' = [mounted EXCEPT ![Now(t).at] = redirect[Now(t).at]]
          \/ ~CanMount(Now(t).at) /\ Then(t, <<>>) /\ notice' = 6 /\ mounted' = mounted
      BY <1>8 DEF TryMount, MountsIt, MountFails, Mishap, Fine
    <2>3. Effect(Now(t))
      BY <1>8, <2>1, <2>2 DEF TryMount, Effect
    <2>4. CASE CanMount(Now(t).at)
      <3>1. Grows(Now(t), ToUsb)
        BY <2>1, <2>4 DEF Grows, NoEffectOps
      <3>2. QED
        BY <1>1, <2>2, <2>3, <2>4, <3>1
    <2>5. CASE ~CanMount(Now(t).at)
      <3>1. Grows(Now(t), <<>>)
        BY <2>1, <2>5 DEF Grows, NoEffectOps
      <3>2. QED
        BY <1>1, <2>2, <2>3, <2>5, <3>1
    <2>6. QED
      BY <2>4, <2>5
  <1>9. QED
    BY <1>3, <1>4, <1>5, <1>7, <1>8

LEMMA ChecksEffect ==
    ASSUME TypeOK, NEW t \in Threads, Checks(t) \/ Done(t)
    PROVE  /\ todo[t] # <<>> /\ Effect(Now(t))
           /\ \E new \in Seq(Steps) : Then(t, new) /\ Grows(Now(t), new)
  <1>1. todo[t] # <<>>
    BY DEF Checks, Check, Done, Does
  <1>2. Now(t).at \in Points
    BY <1>1, ThenType DEF TypeOK
  <1>3. /\ <<At("mount", Now(t).at)>> \in Seq(Steps) /\ <<>> \in Seq(Steps)
        /\ Remount(Now(t).at) \in Seq(Steps) /\ MountGamecardUma0 \in Seq(Steps)
    BY <1>2, CallsAreSteps, RemountIsPlan, Plans DEF Ops
  <1>4. UNCHANGED <<redirect, mounted, present>>
    BY DEF Checks, Check, Done, mountVars
  <1>5. CASE Done(t)
    <2>1. /\ Now(t).op \in {"mounted", "umounted"} /\ Then(t, <<>>)
          /\ notice' = IF Now(t).op = "mounted" THEN 1 ELSE 3
      BY <1>5 DEF Done
    <2>2. Effect(Now(t))
      BY <1>4, <2>1 DEF Effect
    <2>3. Grows(Now(t), <<>>)
      BY <2>1 DEF Grows, NoEffectOps
    <2>4. QED
      BY <1>1, <1>3, <2>1, <2>2, <2>3
  <1>6. CASE Checks(t)
    <2> DEFINE e == Now(t)
    <2>1. /\ e.op \in {"gcd_to_uma0", "any_card", "new_card", "remount_if"} /\ notice' = notice
          /\ \/ e.op = "gcd_to_uma0" /\ (Then(t, <<>>) \/ Then(t, MountGamecardUma0))
             \/ e.op \in {"any_card", "new_card"} /\ (Then(t, <<>>) \/ Then(t, <<At("mount", e.at)>>))
             \/ e.op = "remount_if" /\ Then(t, IF Folder(e.at) THEN Remount(e.at) ELSE <<>>)
      BY <1>6 DEF Checks, Check, Does, Now
    <2>2. Effect(e)
      BY <1>4, <2>1 DEF Effect
    <2>3. CASE e.op = "gcd_to_uma0"
      <3>1. Grows(e, <<>>) /\ Grows(e, MountGamecardUma0)
        BY <2>3 DEF Grows, NoEffectOps
      <3>2. QED
        BY <1>1, <1>3, <2>1, <2>2, <2>3, <3>1
    <2>4. CASE e.op \in {"any_card", "new_card"}
      <3>1. Grows(e, <<>>) /\ Grows(e, <<At("mount", e.at)>>)
        BY <2>4 DEF Grows, NoEffectOps
      <3>2. QED
        BY <1>1, <1>3, <2>1, <2>2, <2>4, <3>1
    <2>5. CASE e.op = "remount_if"
      <3>1. Grows(e, IF Folder(e.at) THEN Remount(e.at) ELSE <<>>)
        BY <2>5 DEF Grows, NoEffectOps
      <3>2. QED
        BY <1>1, <1>3, <2>1, <2>2, <2>5, <3>1
    <2>6. QED
      BY <2>1, <2>3, <2>4, <2>5
  <1>7. QED
    BY <1>5, <1>6

LEMMA SharesEffect ==
    ASSUME TypeOK, NEW t \in Threads,
           \/ Load(t) \/ StopMtp(t) \/ StartVstor(t) \/ MtpBack(t) \/ UnloadBack(t)
           \/ StopVstor(t) \/ StartMtp(t) \/ Unload(t)
    PROVE  /\ todo[t] # <<>> /\ Effect(Now(t))
           /\ \E new \in Seq(Steps) : Then(t, new) /\ Grows(Now(t), new)
  <1>1. todo[t] # <<>>
    BY DEF Load, StopMtp, StartVstor, MtpBack, UnloadBack, StopVstor, StartMtp, Unload, Does
  <1>2. Now(t).to \in Media
    BY <1>1, ThenType DEF TypeOK
  <1> DEFINE e == Now(t)
             stops == <<Step("stop_mtp", "ux0", e.to)>>
             starts == <<Step("start_vstor", "ux0", e.to)>>
             back == <<Plain("unload_back")>>
             backs == <<Plain("mtp_back"), Plain("unload_back")>>
             mtps == <<Plain("start_mtp")>>
             unloads == <<Plain("unload")>>
  <1>3. /\ stops \in Seq(Steps) /\ starts \in Seq(Steps) /\ back \in Seq(Steps)
        /\ backs \in Seq(Steps) /\ mtps \in Seq(Steps) /\ unloads \in Seq(Steps)
        /\ <<>> \in Seq(Steps)
    BY <1>2, StepIsStep, CallsAreSteps DEF Ops, Points
  <1>4. UNCHANGED <<redirect, mounted, present, notice>>
    BY DEF Load, StopMtp, StartVstor, MtpBack, UnloadBack, StopVstor, StartMtp, Unload, mountVars
  <1>5. /\ e.op \in NoEffectOps \cup {"unload"}
        /\ \/ Then(t, <<>>) \/ Then(t, stops) \/ Then(t, starts) \/ Then(t, back) \/ Then(t, backs)
           \/ Then(t, mtps) \/ Then(t, unloads)
           \/ e.op = "unload" /\ Then(t, Unloaded)
        /\ e.op = "unload" => Then(t, <<>>) \/ Then(t, Unloaded)
    <2>1. CASE Load(t) \/ StopMtp(t) \/ StartVstor(t)
      BY <2>1 DEF Load, StopMtp, StartVstor, Does, Now, NoEffectOps
    <2>2. CASE MtpBack(t) \/ UnloadBack(t) \/ StopVstor(t) \/ StartMtp(t)
      BY <2>2 DEF MtpBack, UnloadBack, StopVstor, StartMtp, Does, Now, NoEffectOps
    <2>3. CASE Unload(t)
      BY <2>3 DEF Unload, Unloaded, Does, Now, NoEffectOps
    <2>4. QED
      BY <2>1, <2>2, <2>3
  <1>6. Effect(e)
    BY <1>4, <1>5 DEF Effect, NoEffectOps
  <1>7. ASSUME NEW new \in Seq(Steps), e.op \in NoEffectOps, \A x \in Planned(new) : x.op \in ShareOps
        PROVE  Grows(e, new)
    BY <1>7 DEF Grows, NoEffectOps
  <1>8. \A new \in {<<>>, stops, starts, back, backs, mtps, unloads} :
           \A x \in Planned(new) : x.op \in ShareOps
    <2>1. \A x \in Planned(<<>>) \cup Planned(stops) \cup Planned(starts) : x.op \in ShareOps
      BY PlannedFew DEF Step, ShareOps
    <2>2. \A x \in Planned(back) \cup Planned(backs) \cup Planned(mtps) \cup Planned(unloads) :
             x.op \in ShareOps
      BY PlannedFew DEF Plain, Step, ShareOps
    <2>3. QED
      BY <2>1, <2>2
  <1> HIDE DEF stops, starts, back, backs, mtps, unloads
  <1>9. CASE e.op = "unload"
    <2>1. Grows(e, <<>>) /\ Grows(e, Unloaded)
      BY <1>9 DEF Grows, NoEffectOps
    <2>2. QED
      BY <1>1, <1>3, <1>5, <1>6, <1>9, <2>1, UnloadedIsPlan
  <1>10. CASE e.op \in NoEffectOps
    <2>1. PICK new \in {<<>>, stops, starts, back, backs, mtps, unloads} : Then(t, new)
      BY <1>5, <1>10 DEF NoEffectOps
    <2>2. new \in Seq(Steps)
      BY <1>3, <2>1
    <2>3. QED
      BY <1>1, <1>6, <1>7, <1>8, <1>10, <2>1, <2>2
  <1>11. QED
    BY <1>5, <1>9, <1>10

\* A step of a thread, when nothing goes wrong, does what its call says.
LEMMA StepEffect ==
    ASSUME TypeOK, NEW t \in Threads, ThreadStep(t), Fine'
    PROVE  /\ todo[t] # <<>> /\ Effect(Now(t))
           /\ \E new \in Seq(Steps) : Then(t, new) /\ Grows(Now(t), new)
  BY MountsEffect, ChecksEffect, SharesEffect DEF ThreadStep

-----------------------------------------------------------------------------
\* A redirection the plugin makes.
Proper(e) == e.op = "redirect" => \/ e.at = "uma0" /\ e.to \in {"usb", "gcd"}
                                  \/ e.at = "ux0" /\ e.to \in Own

\* No call mounts what is not there, or a medium twice where the system refuses.
LEMMA WorldStep ==
    ASSUME TypeOK, World, NEW e \in Steps, Proper(e), Effect(e), exclusive' = exclusive
    PROVE  World'
  <1>0. /\ redirect \in [Points -> Media] /\ mounted \in [Points -> Media \cup {None}]
        /\ e.at \in Points /\ e.to \in Media /\ present' = present
    BY DEF TypeOK, Steps, Effect
  <1>1. CASE e.op = "redirect"
    <2>1. redirect' = [redirect EXCEPT ![e.at] = e.to] /\ mounted' = mounted
      BY <1>1 DEF Effect
    <2>2. /\ redirect'["xmc0"] = redirect["xmc0"] /\ redirect'["imc0"] = redirect["imc0"]
          /\ redirect'["ur0"] = redirect["ur0"]
          /\ redirect'["uma0"] \in {"usb", "gcd"} /\ redirect'["ux0"] \in Own
      BY <1>0, <1>1, <2>1 DEF Proper, World, Points
    <2>3. QED
      BY <1>0, <2>1, <2>2 DEF World
  <1>2. CASE e.op \in {"umount", "force"}
    <2>1. redirect' = redirect /\ mounted' = [mounted EXCEPT ![e.at] = None]
      BY <1>2 DEF Effect
    <2>2. \A p \in Points : mounted'[p] \in {mounted[p], None}
      BY <1>0, <2>1
    <2>3. exclusive => \A p, q \in Points : p # q /\ mounted'[p] # None => mounted'[p] # mounted'[q]
      BY <2>2 DEF World
    <2>4. QED
      BY <1>0, <2>1, <2>2, <2>3 DEF World, Points
  <1>3. CASE e.op \in {"mount", "try_mount"} /\ CanMount(e.at)
    <2>1. redirect' = redirect /\ mounted' = [mounted EXCEPT ![e.at] = redirect[e.at]]
      BY <1>3 DEF Effect
    <2>2. redirect[e.at] \in present \cup {"ur0"}
      BY <1>3 DEF CanMount
    <2>3. \A p \in Points : mounted'[p] \in present \cup {"ur0", None}
      BY <1>0, <2>1, <2>2 DEF World
    <2>4. \A p \in Points : mounted'[p] = mounted[p] \/ (p = e.at /\ mounted'[p] = redirect[p])
      BY <1>0, <2>1
    <2>5. /\ mounted'["xmc0"] \in {None, "xmc"} /\ mounted'["imc0"] \in {None, "int"}
          /\ mounted'["ur0"] \in {None, "ur0"} /\ mounted'["uma0"] \in {None, "usb", "gcd"}
      BY <2>4 DEF World, Points
    <2>6. exclusive => \A p, q \in Points : p # q /\ mounted'[p] # None => mounted'[p] # mounted'[q]
      <3> SUFFICES ASSUME exclusive, NEW p \in Points, NEW q \in Points, p # q, mounted'[p] # None
                   PROVE  mounted'[p] # mounted'[q]
        OBVIOUS
      <3>1. \A r \in Points \ {e.at} : mounted[r] # redirect[e.at] /\ mounted'[r] = mounted[r]
        BY <1>0, <1>3, <2>1 DEF CanMount, Elsewhere
      <3>2. mounted'[e.at] = redirect[e.at]
        BY <1>0, <2>1
      <3>3. CASE p = e.at \/ q = e.at
        BY <3>1, <3>2, <3>3
      <3>4. CASE p # e.at /\ q # e.at
        BY <3>1, <3>4 DEF World
      <3>5. QED
        BY <3>3, <3>4
    <2>7. QED
      BY <1>0, <2>1, <2>3, <2>5, <2>6 DEF World
  <1>4. CASE ~(\/ e.op \in {"redirect", "umount", "force"}
               \/ e.op \in {"mount", "try_mount"} /\ CanMount(e.at))
    <2>1. redirect' = redirect /\ mounted' = mounted
      BY <1>4 DEF Effect
    <2>2. QED
      BY <1>0, <2>1 DEF World
  <1>5. QED
    BY <1>1, <1>2, <1>3, <1>4

\* The calls that are planned under way.
LEMMA GrownCalls ==
    /\ Planned(<<>>) = {}
    /\ \A p : Planned(Remount(p)) = {At("umount", p), At("force", p), At("mount", p)}
    /\ Planned(MountGamecardUma0) = {Step("redirect", "uma0", "gcd")} \cup Planned(Remount("uma0"))
    /\ Planned(Unloaded) = Planned(Remount("ux0")) \cup
          {At("remount_if", "imc0"), At("remount_if", "xmc0"), At("remount_if", "uma0")}
  <1>1. /\ Remount("ux0") \in Seq(Steps) /\ Remount("uma0") \in Seq(Steps)
    BY RemountIsPlan DEF Points
  <1>2. <<Step("redirect", "uma0", "gcd")>> \in Seq(Steps)
    BY StepIsStep DEF Ops, Points, Media
  <1>3. <<At("remount_if", "imc0"), At("remount_if", "xmc0"), At("remount_if", "uma0")>>
           \in Seq(Steps)
    BY CallsAreSteps DEF Ops, Points
  <1>4. \A p : Planned(Remount(p)) = {At("umount", p), At("force", p), At("mount", p)}
    BY PlannedFew DEF Remount
  <1>5. Planned(MountGamecardUma0) =
           Planned(<<Step("redirect", "uma0", "gcd")>>) \cup Planned(Remount("uma0"))
    BY <1>1, <1>2, PlannedBoth DEF MountGamecardUma0
  <1>6. Planned(Unloaded) = Planned(Remount("ux0")) \cup
           Planned(<<At("remount_if", "imc0"), At("remount_if", "xmc0"), At("remount_if", "uma0")>>)
    BY <1>1, <1>3, PlannedBoth DEF Unloaded
  <1>7. QED
    BY <1>4, <1>5, <1>6, PlannedFew

\* What a call plans says nothing of the press, and redirects nothing but uma0:,
\* to the game card; the calls it plans for uma0: come with that redirection, or
\* because something is mounted there.
LEMMA GrownIsPlain ==
    ASSUME NEW e \in Steps, NEW new \in Seq(Steps), Grows(e, new), e.op # "try_mount"
    PROVE  /\ \A x \in Planned(new) : /\ x.op \notin {"mounted", "umounted", "try_mount"}
                                      /\ x.op = "redirect" => x.at = "uma0" /\ x.to = "gcd"
                                      /\ x.op = "remount_if" => e.op = "unload"
           /\ \/ NoUma(new, {"mount"}) \/ (Is(new[1], {"redirect"}, "uma0") /\ new # <<>>)
              \/ e.op \in {"remount_if", "any_card", "new_card"} /\ e.at = "uma0"
           /\ e.op \in {"redirect", "umount", "force", "mount", "mounted", "umounted"} => new = <<>>
  <1>1. /\ \A o, p : At(o, p).op = o /\ At(o, p).at = p
        /\ \A o, p, m : Step(o, p, m).op = o /\ Step(o, p, m).at = p /\ Step(o, p, m).to = m
    BY DEF At, Step
  <1>2. CASE new = <<>>
    BY <1>2, GrownCalls DEF NoUma
  <1>3. CASE new = MountGamecardUma0
    <2>1. new[1] = Step("redirect", "uma0", "gcd") /\ new # <<>>
      BY <1>3 DEF MountGamecardUma0, Remount
    <2>2. \A x \in Planned(new) : /\ x.op \in {"redirect", "umount", "force", "mount"}
                                  /\ x.op = "redirect" => x.at = "uma0" /\ x.to = "gcd"
      BY <1>1, <1>3, GrownCalls
    <2>3. QED
      BY <1>1, <1>2, <2>1, <2>2 DEF Grows, Is
  <1>4. CASE e.op \in {"any_card", "new_card"} /\ new = <<At("mount", e.at)>>
    <2>1. Planned(new) = {At("mount", e.at)}
      BY <1>4, PlannedFew
    <2>2. QED
      BY <1>1, <1>4, <2>1 DEF NoUma, Is
  <1>5. CASE e.op = "remount_if" /\ new = Remount(e.at)
    <2>1. \A x \in Planned(new) : x.op \in {"umount", "force", "mount"} /\ x.at = e.at
      BY <1>1, <1>5, GrownCalls
    <2>2. QED
      BY <1>5, <2>1 DEF NoUma, Is
  <1>6. CASE e.op = "unload" /\ new = Unloaded
    <2>1. \A x \in Planned(new) : \/ x.op \in {"umount", "force", "mount"} /\ x.at = "ux0"
                                  \/ x.op = "remount_if"
      BY <1>1, <1>6, GrownCalls
    <2>2. QED
      BY <1>6, <2>1 DEF NoUma, Is
  <1>7. CASE e.op \in NoEffectOps /\ \A x \in Planned(new) : x.op \in ShareOps
    BY <1>7 DEF NoUma, Is, ShareOps, NoEffectOps
  <1>8. QED
    <2>1. e.op \in Ops
      BY DEF Steps
    <2>2. QED
      BY <1>2, <1>3, <1>4, <1>5, <1>6, <1>7, <2>1 DEF Grows, Ops, NoEffectOps

\* uma0: stays off the USB medium.
LEMMA UmaStep ==
    ASSUME TypeOK, World, NEW s \in Seq(Steps), s # <<>>, Uma(s),
           NEW new \in Seq(Steps), Grows(s[1], new), Effect(s[1]),
           s[1].op # "try_mount", s[1].op \in {"any_card", "new_card"} => s[1].at # "uma0",
           NEW n, n = new \o Tail(s)
    PROVE  Uma(n)'
  <1> DEFINE e == s[1]
             r == Tail(s)
  <1>0. /\ redirect \in [Points -> Media] /\ mounted \in [Points -> Media \cup {None}]
        /\ e \in Steps /\ e.at \in Points /\ e.to \in Media /\ "uma0" \in Points
        /\ e \in Planned(s) /\ Planned(s) = {e} \cup Planned(r)
        /\ r \in Seq(Steps) /\ n \in Seq(Steps) /\ Len(r) = Len(s) - 1 /\ Len(s) \in Nat
        /\ \A i \in 1..(Len(s) - 1) : r[i] = s[i + 1]
        /\ Planned(n) = Planned(new) \cup Planned(r)
    <2>1. e \in Steps /\ r \in Seq(Steps) /\ n \in Seq(Steps)
      BY PlannedHead
    <2>2. Planned(n) = Planned(new) \cup Planned(r)
      BY <2>1, PlannedBoth
    <2>3. QED
      BY <2>1, <2>2, PlannedHead DEF TypeOK, Steps, Points
  <1>1. /\ \A x \in Planned(new) : x.op = "redirect" => x.at = "uma0" /\ x.to = "gcd"
        /\ \/ NoUma(new, {"mount"}) \/ (Is(new[1], {"redirect"}, "uma0") /\ new # <<>>)
           \/ e.op \in {"remount_if", "any_card", "new_card"} /\ e.at = "uma0"
        /\ e.op \in {"redirect", "umount", "force", "mount", "mounted", "umounted"} => new = <<>>
    BY <1>0, GrownIsPlain
  <1>2. \A x \in Planned(n) : Is(x, {"redirect"}, "uma0") => x.to = "gcd"
    BY <1>0, <1>1 DEF Uma, Is
  <1>3. /\ redirect'["uma0"] = IF Is(e, {"redirect"}, "uma0") THEN "gcd" ELSE redirect["uma0"]
        /\ Is(e, {"umount", "force"}, "uma0") => mounted'["uma0"] = None
        /\ \/ mounted'["uma0"] \in {mounted["uma0"], None}
           \/ Is(e, {"mount"}, "uma0") /\ mounted'["uma0"] = redirect["uma0"]
    <2>1. Is(e, {"redirect"}, "uma0") => e.to = "gcd"
      BY <1>0 DEF Uma
    <2>2. QED
      BY <1>0, <2>1 DEF Effect, Is
  <1>4. Is(e, {"redirect"}, "uma0") => mounted'["uma0"] = mounted["uma0"]
    BY <1>0 DEF Effect, Is
  <1> HIDE DEF e, r
  <1>5. CASE redirect["uma0"] = "gcd" /\ mounted["uma0"] \in {None, "gcd"}
    BY <1>2, <1>3, <1>5 DEF Uma
  <1>6. CASE mounted["uma0"] = None /\ (NoUma(s, {"mount"}) \/ Is(e, {"redirect"}, "uma0"))
    <2>1. CASE Is(e, {"redirect"}, "uma0")
      BY <1>2, <1>3, <1>4, <1>6, <2>1 DEF Uma
    <2>2. CASE ~Is(e, {"redirect"}, "uma0")
      <3>1. NoUma(s, {"mount"}) /\ mounted'["uma0"] = None
        BY <1>0, <1>3, <1>6, <2>2 DEF NoUma
      <3>2. NoUma(r, {"mount"})
        BY <1>0, <3>1 DEF NoUma
      <3>3. CASE NoUma(new, {"mount"})
        BY <1>0, <1>2, <3>1, <3>2, <3>3 DEF Uma, NoUma
      <3>4. CASE Is(new[1], {"redirect"}, "uma0") /\ new # <<>>
        <4>1. n[1] = new[1]
          BY <1>0, <3>4 DEF r
        <4>2. QED
          BY <1>2, <3>1, <3>4, <4>1 DEF Uma
      <3>5. CASE e.op \in {"remount_if", "any_card", "new_card"} /\ e.at = "uma0"
        <4>1. e.op = "remount_if" /\ ~Folder("uma0")
          <5>1. None \notin present \cup {"ur0"}
            BY ConsolesAreMedia DEF TypeOK, None, Media
          <5>2. QED
            BY <1>6, <3>5, <5>1 DEF Folder, e
        <4>2. new = <<>>
          BY <3>5, <4>1 DEF Grows, e
        <4>3. NoUma(new, {"mount"})
          BY <4>2, GrownCalls DEF NoUma
        <4>4. QED
          BY <3>3, <4>3
      <3>6. QED
        BY <1>1, <3>3, <3>4, <3>5
    <2>3. QED
      BY <2>1, <2>2
  <1>7. CASE /\ NoUma(s, {"mount", "remount_if"})
             /\ \/ s # <<>> /\ Is(e, {"umount"}, "uma0")
                \/ Len(s) > 1 /\ Is(e, {"redirect"}, "ux0") /\ Is(s[2], {"umount"}, "uma0")
    <2>1. new = <<>>
      BY <1>1, <1>7 DEF Is
    <2>2. n = r
      BY <1>0, <2>1, ConcatEmptySeq DEF r
    <2>3. NoUma(n, {"mount", "remount_if"})
      BY <1>0, <1>7, <2>2 DEF NoUma
    <2>4. NoUma(n, {"mount"})
      BY <2>3 DEF NoUma, Is
    <2>5. CASE Is(e, {"umount"}, "uma0")
      <3>1. mounted'["uma0"] = None
        BY <1>3, <2>5 DEF Is
      <3>2. QED
        BY <1>2, <2>4, <3>1 DEF Uma
    <2>6. CASE Len(s) > 1 /\ Is(e, {"redirect"}, "ux0") /\ Is(s[2], {"umount"}, "uma0")
      <3>1. 1 \in 1..(Len(s) - 1)
        BY <1>0, <2>6
      <3>2. n[1] = s[2] /\ Len(n) >= 1
        BY <1>0, <2>2, <2>6, <3>1
      <3>3. n # <<>>
        BY <1>0, <3>2
      <3>4. QED
        BY <1>2, <2>3, <2>6, <3>2, <3>3 DEF Uma
    <2>7. QED
      BY <1>7, <2>5, <2>6
  <1>8. QED
    BY <1>5, <1>6, <1>7 DEF Uma, e

-----------------------------------------------------------------------------
\* The elements of a concatenation.
LEMMA BothAt ==
    ASSUME NEW a \in Seq(Steps), NEW b \in Seq(Steps)
    PROVE  /\ a \o b \in Seq(Steps) /\ Len(a) \in Nat /\ Len(b) \in Nat
           /\ Len(a \o b) = Len(a) + Len(b)
           /\ \A i \in 1..Len(a) : (a \o b)[i] = a[i]
           /\ \A i \in 1..Len(b) : (a \o b)[Len(a) + i] = b[i]
  OBVIOUS

\* What will be said of the press stays true of the medium ux0: is to have.
LEMMA SaysStep ==
    ASSUME TypeOK, NEW s \in Seq(Steps), s # <<>>, NEW m, Says(s, m),
           NEW new \in Seq(Steps), Grows(s[1], new), Effect(s[1]), s[1].op # "try_mount",
           NEW n, n = new \o Tail(s)
    PROVE  Says(n, m)'
  <1> DEFINE e == s[1]
             r == Tail(s)
  <1>0. e \in Steps /\ e \in Planned(s) /\ Planned(s) = {e} \cup Planned(r) /\ r \in Seq(Steps)
    BY PlannedHead
  <1>1. Planned(n) = Planned(new) \cup Planned(r)
    BY <1>0, PlannedBoth
  <1>2. \A x \in Planned(new) : x.op \notin {"mounted", "umounted"}
    BY <1>0, GrownIsPlain
  <1>3. notice' = IF e.op = "mounted" THEN 1 ELSE IF e.op = "umounted" THEN 3 ELSE notice
    BY DEF Effect
  <1> HIDE DEF e, r
  <1>4. notice' = 1 \/ (\E x \in Planned(n) : x.op = "mounted") => m = "usb"
    BY <1>0, <1>1, <1>2, <1>3 DEF Says
  <1>5. notice' = 3 \/ (\E x \in Planned(n) : x.op = "umounted") => m # "usb"
    BY <1>0, <1>1, <1>2, <1>3 DEF Says
  <1>6. QED
    BY <1>4, <1>5 DEF Says

\* A plan to clear the way by a, to remount ux0:, and then to do b.
Course(a, b) == a \o (Remount("ux0") \o b)

\* ... n, whose k-th call is the mount of ux0:, on medium m.
Mounts(n, k, m, a, b) ==
    /\ k \in 1..Len(n) /\ k > 1 /\ Route(n, k, m) /\ n \in Seq(Steps)
    /\ (\E e \in Planned(a) : e.op = "redirect") => Redirects(n, k)
    /\ \A p : (\E e \in Planned(a) : Is(e, {"umount", "force"}, p)) => Frees(n, k, p)
    /\ Planned(n) = Planned(a) \cup Planned(Remount("ux0")) \cup Planned(b)

\* Concatenations, kept as names where only their elements matter.
Cat(c, d) == c \o d
Chain(a, w, c, d) == ((a \o w) \o c) \o d

LEMMA ChainIsCat ==
    ASSUME NEW a \in Seq(Steps), NEW w \in Seq(Steps), NEW c \in Seq(Steps), NEW d \in Seq(Steps)
    PROVE  /\ Chain(a, w, c, d) = Cat(a, Cat(w, Cat(c, d))) /\ Cat(c, d) \in Seq(Steps)
           /\ Planned(Cat(c, d)) = Planned(c) \cup Planned(d)
  <1>1. a \o w \in Seq(Steps)
    OBVIOUS
  <1>2. c \o d \in Seq(Steps)
    OBVIOUS
  <1>3. ((a \o w) \o c) \o d = (a \o w) \o (c \o d)
    <2> DEFINE x == a \o w
    <2>1. x \in Seq(Steps)
      BY <1>1
    <2> HIDE DEF x
    <2>2. (x \o c) \o d = x \o (c \o d)
      BY <2>1, ConcatAssociative
    <2>3. QED
      BY <2>2 DEF x
  <1>4. (a \o w) \o (c \o d) = a \o (w \o (c \o d))
    BY <1>2, ConcatAssociative
  <1>5. Chain(a, w, c, d) = Cat(a, Cat(w, Cat(c, d)))
    BY <1>3, <1>4, Zenon DEF Chain, Cat
  <1>6. Planned(c \o d) = Planned(c) \cup Planned(d)
    BY PlannedBoth
  <1>7. QED
    BY <1>2, <1>5, <1>6 DEF Cat

LEMMA ChainIsCourse ==
    ASSUME NEW a \in Seq(Steps), NEW c \in Seq(Steps), NEW d \in Seq(Steps)
    PROVE  /\ Chain(a, Remount("ux0"), c, d) = Course(a, Cat(c, d)) /\ Cat(c, d) \in Seq(Steps)
           /\ Planned(Cat(c, d)) = Planned(c) \cup Planned(d)
  <1>1. Remount("ux0") \in Seq(Steps)
    BY RemountIsPlan DEF Points
  <1>2. /\ Chain(a, Remount("ux0"), c, d) = Cat(a, Cat(Remount("ux0"), Cat(c, d)))
        /\ Cat(c, d) \in Seq(Steps) /\ Planned(Cat(c, d)) = Planned(c) \cup Planned(d)
    BY <1>1, ChainIsCat
  <1>3. \A b : Course(a, b) = Cat(a, Cat(Remount("ux0"), b))
    BY DEF Course, Cat
  <1>4. QED
    BY <1>2, <1>3

\* A plan to clear the way, to remount ux0: and then to leave it alone.
LEMMA MountRoute ==
    ASSUME NEW m, NEW a \in Seq(Steps), NEW b \in Seq(Steps),
           \A e \in Planned(a) : Clears(e, m), \A e \in Planned(b) : Calm(e),
           NEW n, n = Course(a, b), NEW k, k = Len(a) + 3
    PROVE  Mounts(n, k, m, a, b)
  <1> DEFINE w == Remount("ux0")
             c == w \o b
  <1>1. /\ w \in Seq(Steps) /\ Len(w) = 3
        /\ w[1] = At("umount", "ux0") /\ w[2] = At("force", "ux0") /\ w[3] = At("mount", "ux0")
    <2>1. w \in Seq(Steps)
      BY RemountIsPlan DEF Points
    <2>2. QED
      BY <2>1 DEF Remount
  <1> HIDE DEF w
  <1>2. /\ c \in Seq(Steps) /\ Len(b) \in Nat /\ Len(c) = 3 + Len(b)
        /\ c[1] = w[1] /\ c[2] = w[2] /\ c[3] = w[3]
        /\ \A i \in 1..Len(b) : c[3 + i] = b[i]
    <2>1. /\ c \in Seq(Steps) /\ Len(b) \in Nat /\ Len(c) = Len(w) + Len(b)
          /\ \A i \in 1..Len(w) : c[i] = w[i]
          /\ \A i \in 1..Len(b) : c[Len(w) + i] = b[i]
      BY <1>1, BothAt
    <2>2. 1 \in 1..Len(w) /\ 2 \in 1..Len(w) /\ 3 \in 1..Len(w)
      BY <1>1
    <2> HIDE DEF c
    <2>3. QED
      BY <1>1, <2>1, <2>2
  <1>3. Planned(c) = Planned(w) \cup Planned(b)
    BY <1>1, PlannedBoth
  <1> HIDE DEF c
  <1>4. /\ n = a \o c /\ n \in Seq(Steps) /\ Len(a) \in Nat /\ Len(n) = Len(a) + Len(c)
        /\ \A i \in 1..Len(a) : n[i] = a[i]
        /\ \A i \in 1..Len(c) : n[Len(a) + i] = c[i]
    <2>1. n = a \o c
      BY DEF c, w, Course
    <2>2. /\ a \o c \in Seq(Steps) /\ Len(a) \in Nat /\ Len(a \o c) = Len(a) + Len(c)
          /\ \A i \in 1..Len(a) : (a \o c)[i] = a[i]
          /\ \A i \in 1..Len(c) : (a \o c)[Len(a) + i] = c[i]
      BY <1>2, BothAt
    <2>3. QED
      BY <2>1, <2>2, Zenon
  <1>5. Planned(n) = Planned(a) \cup Planned(c)
    BY <1>2, <1>4, PlannedBoth
  <1>6. /\ k \in 1..Len(n) /\ k > 1 /\ k - 1 = Len(a) + 2 /\ k - 2 = Len(a) + 1
        /\ Len(n) = k + Len(b)
    BY <1>2, <1>4
  <1>7. n[k] = w[3] /\ n[k - 1] = w[2] /\ n[k - 2] = w[1]
    <2>1. 1 \in 1..Len(c) /\ 2 \in 1..Len(c) /\ 3 \in 1..Len(c)
      BY <1>2
    <2>2. QED
      BY <1>2, <1>4, <1>6, <2>1
  <1>8. \A i \in 1..(k - 1) : i \in 1..Len(a) \/ i = k - 2 \/ i = k - 1
    BY <1>4
  <1>9. \A i \in 1..Len(a) : a[i] \in Planned(a) /\ n[i] = a[i] /\ i \in 1..(k - 1)
    BY <1>4 DEF Planned
  <1>10. \A i \in 1..(k - 1) : Clears(n[i], m)
    <2> SUFFICES ASSUME NEW i \in 1..(k - 1) PROVE Clears(n[i], m)
      OBVIOUS
    <2>1. CASE i \in 1..Len(a)
      BY <1>9, <2>1
    <2>2. CASE i = k - 2 \/ i = k - 1
      <3>1. n[i] \in {w[1], w[2]}
        BY <1>7, <2>2
      <3>2. w[1].op = "umount" /\ w[2].op = "force"
        BY <1>1 DEF At, Step
      <3>3. QED
        BY <3>1, <3>2 DEF Clears
    <2>3. QED
      BY <1>8, <2>1, <2>2
  <1>11. \A i \in (k + 1)..Len(n) : Calm(n[i])
    <2> SUFFICES ASSUME NEW i \in (k + 1)..Len(n) PROVE Calm(n[i])
      OBVIOUS
    <2>1. i - k \in 1..Len(b) /\ Len(a) + (3 + (i - k)) = i /\ 3 + (i - k) \in 1..Len(c)
      <3>1. Len(a) \in Nat /\ Len(b) \in Nat /\ Len(c) = 3 + Len(b)
        BY <1>2, <1>4
      <3>2. i \in (k + 1)..(k + Len(b)) /\ k = Len(a) + 3
        BY <1>6
      <3>3. i \in Int /\ k \in Int /\ k + 1 <= i /\ i <= k + Len(b)
        BY <3>1, <3>2
      <3>4. QED
        BY <3>1, <3>2, <3>3
    <2>2. n[i] = b[i - k]
      <3>1. n[i] = c[3 + (i - k)]
        BY <1>4, <2>1
      <3>2. c[3 + (i - k)] = b[i - k]
        BY <1>2, <2>1
      <3>3. QED
        BY <3>1, <3>2
    <2>3. QED
      BY <2>1, <2>2 DEF Planned
  <1>12. Route(n, k, m)
    <2>1. Is(w[3], {"mount"}, "ux0") /\ Is(w[2], {"force"}, "ux0")
      BY <1>1 DEF Is, At, Step
    <2>2. QED
      BY <1>7, <1>10, <1>11, <2>1 DEF Route
  <1>13. (\E e \in Planned(a) : e.op = "redirect") => Redirects(n, k)
    BY <1>9 DEF Redirects, Planned
  <1>14. \A p : (\E e \in Planned(a) : Is(e, {"umount", "force"}, p)) => Frees(n, k, p)
    BY <1>9 DEF Frees, Planned
  <1>15. QED
    BY <1>3, <1>4, <1>5, <1>6, <1>12, <1>13, <1>14 DEF w, Mounts

\* A call that leaves ux0: alone plans only calls that do.
LEMMA CalmStep ==
    ASSUME TypeOK, NEW s \in Seq(Steps), s # <<>>, NEW m, Steady(s, m),
           NEW new \in Seq(Steps), Grows(s[1], new), Effect(s[1]), new # Unloaded,
           NEW n, n = new \o Tail(s)
    PROVE  Steady(n, m)'
  <1> DEFINE e == s[1]
             r == Tail(s)
  <1>0. /\ e \in Steps /\ e.op \in Ops /\ e.at \in Points
        /\ e \in Planned(s) /\ Planned(s) = {e} \cup Planned(r) /\ r \in Seq(Steps)
    <2>1. e \in Steps /\ e \in Planned(s) /\ Planned(s) = {e} \cup Planned(r) /\ r \in Seq(Steps)
      BY PlannedHead
    <2>2. QED
      BY <2>1 DEF Steps
  <1>1. Planned(n) = Planned(new) \cup Planned(r)
    BY <1>0, PlannedBoth
  <1>2. Calm(e) /\ \A x \in Planned(r) : Calm(x)
    BY <1>0 DEF Steady
  <1>3. mounted'["ux0"] = mounted["ux0"] /\ redirect'["ux0"] = redirect["ux0"]
    <2>1. mounted \in [Points -> Media \cup {None}] /\ redirect \in [Points -> Media]
      BY DEF TypeOK
    <2>2. e.op \in {"redirect", "umount", "force", "mount"} => e.at # "ux0"
      BY <1>2 DEF Calm
    <2>3. e.op # "try_mount"
      BY <1>2 DEF Calm
    <2>4. QED
      BY <1>0, <2>1, <2>2, <2>3 DEF Effect, Points
  <1>4. \A x \in Planned(new) : Calm(x)
    <2>1. /\ \A o, p : At(o, p).op = o /\ At(o, p).at = p
          /\ \A o, p, q : Step(o, p, q).op = o /\ Step(o, p, q).at = p /\ Step(o, p, q).to = q
      BY DEF At, Step
    <2>2. CASE new = <<>>
      BY <2>2, GrownCalls
    <2>3. CASE new = MountGamecardUma0
      <3>1. \A x \in Planned(new) :
               \/ x.op = "redirect" /\ x.at = "uma0" /\ x.to = "gcd"
               \/ x.op \in {"umount", "force", "mount"} /\ x.at = "uma0"
        BY <2>1, <2>3, GrownCalls
      <3>2. QED
        BY <3>1 DEF Calm
    <2>4. CASE e.op \in {"any_card", "new_card"} /\ new = <<At("mount", e.at)>>
      <3>1. Planned(new) = {At("mount", e.at)} /\ e.at # "ux0"
        BY <1>2, <2>4, PlannedFew DEF Calm
      <3>2. QED
        BY <2>1, <3>1 DEF Calm
    <2>5. CASE e.op = "remount_if" /\ new = Remount(e.at)
      <3>1. \A x \in Planned(new) : x.op \in {"umount", "force", "mount"} /\ x.at = e.at
        BY <2>1, <2>5, GrownCalls
      <3>2. e.at # "ux0"
        BY <1>2, <2>5 DEF Calm
      <3>3. QED
        BY <3>1, <3>2 DEF Calm
    <2>6. CASE e.op \in NoEffectOps /\ \A x \in Planned(new) : x.op \in ShareOps
      BY <2>6 DEF Calm, ShareOps
    <2>7. e.op # "try_mount"
      BY <1>2 DEF Calm
    <2>8. QED
      BY <1>0, <2>2, <2>3, <2>4, <2>5, <2>6, <2>7 DEF Grows, Ops, NoEffectOps
  <1>5. QED
    BY <1>1, <1>2, <1>3, <1>4 DEF Steady

\* The end of a sharing: ux0: is remounted, on the medium it is on.
LEMMA UnloadTurns ==
    ASSUME TypeOK, World, NEW s \in Seq(Steps), s # <<>>, NEW m \in Own, Steady(s, m),
           s[1].op = "unload", Effect(s[1]), exclusive' = exclusive,
           NEW n, n = Unloaded \o Tail(s)
    PROVE  Turning(n, m)'
  <1> DEFINE r == Tail(s)
             rest == <<At("remount_if", "imc0"), At("remount_if", "xmc0"), At("remount_if", "uma0")>>
             b == rest \o r
  <1>0. r \in Seq(Steps) /\ Planned(s) = {s[1]} \cup Planned(r)
    BY PlannedHead
  <1>1. rest \in Seq(Steps) /\ Remount("ux0") \in Seq(Steps)
    BY CallsAreSteps, RemountIsPlan DEF Ops, Points
  <1>2. Planned(rest) = {At("remount_if", "imc0"), At("remount_if", "xmc0"), At("remount_if", "uma0")}
    BY PlannedFew
  <1>3. \A x \in Planned(rest) : Calm(x)
    BY <1>2 DEF Calm, At, Step
  <1> HIDE DEF rest, r
  <1>4. b \in Seq(Steps) /\ \A x \in Planned(b) : Calm(x)
    <2>1. Planned(b) = Planned(rest) \cup Planned(r)
      BY <1>0, <1>1, PlannedBoth
    <2>2. QED
      BY <1>0, <1>1, <1>3, <2>1 DEF Steady
  <1>5. n = Remount("ux0") \o b
    <2>1. n = (Remount("ux0") \o rest) \o r
      BY DEF Unloaded, rest, r
    <2>2. (Remount("ux0") \o rest) \o r = Remount("ux0") \o (rest \o r)
      BY <1>0, <1>1, ConcatAssociative
    <2>3. QED
      BY <2>1, <2>2
  <1> HIDE DEF b
  <1>6. n = <<>> \o (Remount("ux0") \o b)
    <2>1. Remount("ux0") \o b \in Seq(Steps)
      BY <1>1, <1>4, BothAt
    <2>2. QED
      BY <1>5, <2>1, ConcatEmptySeq
  <1>7. 3 \in 1..Len(n) /\ Route(n, 3, m)
    <2>1. <<>> \in Seq(Steps) /\ \A x \in Planned(<<>>) : Clears(x, m)
      BY PlannedFew
    <2>2. 3 = Len(<<>>) + 3
      OBVIOUS
    <2>3. Mounts(n, 3, m, <<>>, b)
      BY <1>4, <1>6, <2>1, <2>2, MountRoute DEF Course
    <2>4. QED
      BY <2>3 DEF Mounts
  <1>8. UNCHANGED <<mounted, redirect, present, exclusive>>
    BY DEF Effect
  <1>9. m \in present /\ mounted["ux0"] = m /\ redirect["ux0"] = m
    BY DEF World, Steady, Own, Points, None
  <1>10. exclusive => \A p \in Points \ {"ux0"} : mounted[p] # m
    BY <1>9 DEF World, Points, Own, None
  <1>11. Turns(n, 3, m)'
    BY <1>7, <1>8, <1>9, <1>10 DEF Turns
  <1>12. QED
    BY <1>7, <1>11 DEF Turning

-----------------------------------------------------------------------------
\* A step on the way to the mount of ux0:, or that mount itself.
LEMMA TurnStep ==
    ASSUME TypeOK, World, NEW s \in Seq(Steps), s # <<>>, NEW m \in Own,
           NEW k \in 1..Len(s), Turns(s, k, m),
           NEW new \in Seq(Steps), Grows(s[1], new), Effect(s[1]), exclusive' = exclusive,
           NEW n, n = new \o Tail(s)
    PROVE  Steady(n, m)' \/ Turning(n, m)'
  <1> DEFINE e == s[1]
             r == Tail(s)
  <1>0. /\ e \in Steps /\ r \in Seq(Steps) /\ Len(r) = Len(s) - 1 /\ Len(s) \in Nat /\ Len(s) > 0
        /\ \A i \in 1..(Len(s) - 1) : r[i] = s[i + 1]
    BY PlannedHead
  <1>1. /\ mounted \in [Points -> Media \cup {None}] /\ redirect \in [Points -> Media]
        /\ "ux0" \in Points /\ e.at \in Points
    BY <1>0 DEF TypeOK, Steps, Points
  <1>2. m # None
    BY DEF Own, None
  <1>3. e.op \in {"redirect", "umount", "force", "mount"}
    BY DEF Turns, Route, Is, Clears
  <1>4. n = r
    <2>1. new = <<>>
      BY <1>3 DEF Grows
    <2>2. QED
      BY <1>0, <2>1, ConcatEmptySeq
  <1>5. present' = present /\ m \in present
    BY DEF Effect, Turns
  <1> HIDE DEF e, r
  <1>6. CASE k = 1
    <2>1. /\ e.op = "mount" /\ e.at = "ux0" /\ mounted["ux0"] = None
          /\ \A i \in 2..Len(s) : Calm(s[i])
      BY <1>6 DEF Turns, Route, Is, e
    <2>2. redirect["ux0"] = m
      <3>1. 1..(k - 1) = {}
        BY <1>6
      <3>2. QED
        BY <3>1 DEF Turns, Redirects
    <2>3. exclusive => ~Elsewhere("ux0")
      <3>1. 1..(k - 1) = {}
        BY <1>6
      <3>2. QED
        BY <2>2, <3>1 DEF Turns, Frees, Elsewhere
    <2>4. CanMount("ux0")
      BY <1>5, <2>1, <2>2, <2>3 DEF CanMount
    <2>5. mounted'["ux0"] = m /\ redirect'["ux0"] = m
      BY <1>1, <2>1, <2>2, <2>4 DEF Effect, e
    <2>6. \A x \in Planned(n) : Calm(x)
      <3> SUFFICES ASSUME NEW i \in 1..(Len(s) - 1) PROVE Calm(r[i])
        BY <1>0, <1>4 DEF Planned
      <3>1. i + 1 \in 2..Len(s)
        BY <1>0
      <3>2. QED
        BY <1>0, <2>1, <3>1
    <2>7. QED
      BY <2>5, <2>6 DEF Steady
  <1>7. CASE k > 1
    <2> DEFINE j == k - 1
    <2>1. j \in 1..Len(n) /\ j \in Nat /\ k = j + 1 /\ j >= 1 /\ Len(n) = Len(s) - 1 /\ k <= Len(s)
      <3>1. Len(n) = Len(s) - 1
        BY <1>0, <1>4
      <3>2. k \in Nat /\ k <= Len(s) /\ k >= 2
        BY <1>0, <1>7
      <3> DEFINE ls == Len(s)
                 ln == Len(n)
      <3>3. ls \in Nat /\ ln = ls - 1 /\ k <= ls
        BY <1>0, <3>1, <3>2
      <3> HIDE DEF ls, ln
      <3>4. k - 1 \in 1..ln /\ k - 1 \in Nat /\ k = (k - 1) + 1 /\ k - 1 >= 1
        BY <3>2, <3>3
      <3>5. QED
        BY <3>3, <3>4 DEF ls, ln
    <2>2. \A i \in 1..Len(n) : n[i] = s[i + 1]
      BY <1>0, <1>4
    <2>3. Clears(e, m)
      <3>1. 1 \in 1..(k - 1)
        BY <1>7
      <3>2. QED
        BY <3>1 DEF Turns, Route, e
    <2>4. \A i \in 1..(j - 1) : i + 1 \in 1..(k - 1) /\ i \in 1..Len(n)
      BY <2>1
    <2>5. \A i \in 1..(k - 1) : i = 1 \/ (i - 1 \in 1..(j - 1) /\ n[i - 1] = s[i])
      <3> SUFFICES ASSUME NEW i \in 1..(k - 1), i # 1
                   PROVE  i - 1 \in 1..(j - 1) /\ n[i - 1] = s[i]
        OBVIOUS
      <3>1. i - 1 \in 1..(j - 1) /\ (i - 1) + 1 = i
        BY <2>1
      <3>2. QED
        BY <2>2, <2>4, <3>1
    <2>6. Route(n, j, m)
      <3>1. Is(n[j], {"mount"}, "ux0")
        BY <2>1, <2>2 DEF Turns, Route
      <3>2. j > 1 => Is(n[j - 1], {"force"}, "ux0")
        <4> SUFFICES ASSUME j > 1 PROVE Is(n[j - 1], {"force"}, "ux0")
          OBVIOUS
        <4>1. j - 1 \in 1..Len(n) /\ (j - 1) + 1 = k - 1
          BY <2>1
        <4>2. Is(s[k - 1], {"force"}, "ux0")
          BY <1>7 DEF Turns, Route
        <4>3. QED
          BY <2>2, <4>1, <4>2
      <3>3. \A i \in 1..(j - 1) : Clears(n[i], m)
        BY <2>2, <2>4 DEF Turns, Route
      <3>4. \A i \in (j + 1)..Len(n) : Calm(n[i])
        <4> SUFFICES ASSUME NEW i \in (j + 1)..Len(n) PROVE Calm(n[i])
          OBVIOUS
        <4>1. i + 1 \in (k + 1)..Len(s) /\ i \in 1..Len(n)
          BY <1>0, <2>1
        <4>2. QED
          BY <2>2, <4>1 DEF Turns, Route
      <3>5. QED
        BY <3>1, <3>2, <3>3, <3>4 DEF Route
    <2>7. j = 1 => mounted'["ux0"] = None
      <3> SUFFICES ASSUME j = 1 PROVE mounted'["ux0"] = None
        OBVIOUS
      <3>1. Is(s[k - 1], {"force"}, "ux0") /\ k - 1 = 1
        BY <1>7 DEF Turns, Route
      <3>2. e.op = "force" /\ e.at = "ux0"
        BY <3>1 DEF Is, e
      <3>3. QED
        BY <1>1, <3>2 DEF Effect, e
    <2> HIDE DEF j
    <2>8. redirect'["ux0"] = m \/ Redirects(n, j)
      <3>1. CASE e.op = "redirect"
        <4>1. e.at = "ux0" /\ e.to = m
          BY <2>3, <3>1 DEF Clears, Is
        <4>2. QED
          BY <1>1, <3>1, <4>1 DEF Effect, e
      <3>2. CASE e.op # "redirect"
        <4>1. redirect' = redirect
          BY <3>2 DEF Effect, e
        <4>2. CASE Redirects(s, k)
          BY <2>5, <3>2, <4>2 DEF Redirects, e
        <4>3. QED
          BY <4>1, <4>2 DEF Turns
      <3>3. QED
        BY <3>1, <3>2
    <2>9. exclusive' => \A p \in Points \ {"ux0"} : mounted'[p] # m \/ Frees(n, j, p)
      <3> SUFFICES ASSUME exclusive, NEW p \in Points \ {"ux0"}
                   PROVE  mounted'[p] # m \/ Frees(n, j, p)
        OBVIOUS
      <3>1. /\ mounted'[p] \in {mounted[p], None}
            /\ Is(e, {"umount", "force"}, p) => mounted'[p] = None
        BY <1>1, <2>3 DEF Effect, Clears, Is, e
      <3>2. CASE mounted[p] # m
        BY <1>2, <3>1, <3>2
      <3>3. CASE Frees(s, k, p)
        <4>1. PICK i \in 1..(k - 1) : Is(s[i], {"umount", "force"}, p)
          BY <3>3 DEF Frees
        <4>2. CASE i = 1
          BY <1>2, <3>1, <4>1, <4>2 DEF e
        <4>3. CASE i # 1
          BY <2>5, <4>1, <4>3 DEF Frees
        <4>4. QED
          BY <4>2, <4>3
      <3>4. QED
        BY <3>2, <3>3 DEF Turns
    <2>10. Turns(n, j, m)'
      BY <1>5, <2>6, <2>7, <2>8, <2>9 DEF Turns
    <2>11. QED
      BY <2>1, <2>10 DEF Turning
  <1>8. QED
    BY <1>6, <1>7

-----------------------------------------------------------------------------
\* The way to the USB medium.
LEMMA ToUsbPlan ==
    /\ ToUsb \in Seq(Steps)
    /\ \E k \in 1..Len(ToUsb) :
          k > 1 /\ Route(ToUsb, k, "usb") /\ Redirects(ToUsb, k) /\ Frees(ToUsb, k, "uma0")
    /\ NoUma(ToUsb, {"mount", "remount_if"}) /\ NoUma(ToUsb, {"redirect"})
    /\ \A e \in Planned(ToUsb) : e.op # "umounted"
    /\ Len(ToUsb) > 1 /\ Is(ToUsb[1], {"redirect"}, "ux0") /\ Is(ToUsb[2], {"umount"}, "uma0")
  <1> DEFINE a == <<Step("redirect", "ux0", "usb"), At("umount", "uma0")>>
             w == Remount("ux0")
             c == <<Plain("gcd_to_uma0"), At("any_card", "xmc0"), At("any_card", "imc0")>>
             d == <<Plain("mounted")>>
             b == Cat(c, d)
             k == Len(a) + 3
  <1>0. /\ \A x, p : At(x, p).op = x /\ At(x, p).at = p
        /\ \A x : Plain(x).op = x
        /\ \A x, p, y : Step(x, p, y).op = x /\ Step(x, p, y).at = p /\ Step(x, p, y).to = y
    BY DEF At, Plain, Step
  <1>1. a \in Seq(Steps) /\ w \in Seq(Steps) /\ c \in Seq(Steps) /\ d \in Seq(Steps)
    <2>1. a \in Seq(Steps)
      BY StepIsStep, CallsAreSteps DEF Ops, Points, Media
    <2>2. w \in Seq(Steps)
      BY RemountIsPlan DEF Points
    <2>3. c \in Seq(Steps) /\ d \in Seq(Steps)
      BY CallsAreSteps DEF Ops, Points
    <2>4. QED
      BY <2>1, <2>2, <2>3
  <1>2. /\ Planned(a) = {Step("redirect", "ux0", "usb"), At("umount", "uma0")}
        /\ Planned(c) = {Plain("gcd_to_uma0"), At("any_card", "xmc0"), At("any_card", "imc0")}
        /\ Planned(d) = {Plain("mounted")}
        /\ Planned(w) = {At("umount", "ux0"), At("force", "ux0"), At("mount", "ux0")}
    BY PlannedFew, GrownCalls
  <1>3. Len(a) = 2 /\ a[1] = Step("redirect", "ux0", "usb") /\ a[2] = At("umount", "uma0")
    OBVIOUS
  <1>4. ToUsb = Chain(a, w, c, d)
    BY DEF ToUsb, MountUsbUx0, OthersAfterMount, Chain
  <1> HIDE DEF a, w, c, d, b
  <1>5. /\ ToUsb = Course(a, b) /\ b \in Seq(Steps)
        /\ Planned(b) = Planned(c) \cup Planned(d)
    BY <1>1, <1>4, ChainIsCourse DEF b, w
  <1>7. \A e \in Planned(a) : Clears(e, "usb")
    BY <1>0, <1>2 DEF Clears, Is
  <1>8. \A e \in Planned(b) : Calm(e)
    BY <1>0, <1>2, <1>5 DEF Calm
  <1> HIDE DEF k
  <1>9. /\ k \in 1..Len(ToUsb) /\ k > 1 /\ Route(ToUsb, k, "usb") /\ ToUsb \in Seq(Steps)
        /\ (\E e \in Planned(a) : e.op = "redirect") => Redirects(ToUsb, k)
        /\ \A p : (\E e \in Planned(a) : Is(e, {"umount", "force"}, p)) => Frees(ToUsb, k, p)
        /\ Planned(ToUsb) = Planned(a) \cup Planned(w) \cup Planned(b)
    <2> DEFINE m == "usb"
    <2>1. \A e \in Planned(a) : Clears(e, m)
      BY <1>7
    <2> HIDE DEF m
    <2>0. k = Len(a) + 3
      BY DEF k
    <2>2. Mounts(ToUsb, k, m, a, b)
      BY <1>1, <1>5, <1>8, <2>0, <2>1, MountRoute
    <2>3. QED
      BY <2>2, Zenon DEF Mounts, m, w
  <1>10. Redirects(ToUsb, k) /\ Frees(ToUsb, k, "uma0")
    BY <1>0, <1>2, <1>9 DEF Is
  <1>11. \A e \in Planned(ToUsb) :
            \/ e.op = "redirect" /\ e.at = "ux0"
            \/ e.op = "umount"
            \/ e.op \in {"force", "mount"} /\ e.at = "ux0"
            \/ e.op \in {"gcd_to_uma0", "any_card", "mounted"}
    BY <1>0, <1>2, <1>5, <1>9
  <1>12. NoUma(ToUsb, {"mount", "remount_if"}) /\ NoUma(ToUsb, {"redirect"})
    BY <1>11 DEF NoUma, Is
  <1>13. Len(ToUsb) > 1 /\ ToUsb[1] = a[1] /\ ToUsb[2] = a[2]
    <2>1. w \o b \in Seq(Steps)
      BY <1>1, <1>5
    <2>2. /\ Len(ToUsb) = Len(a) + Len(w \o b) /\ Len(w \o b) \in Nat
          /\ \A i \in 1..Len(a) : ToUsb[i] = a[i]
      <3>1. ToUsb = a \o (w \o b)
        BY <1>5 DEF Course, w
      <3>2. QED
        BY <1>1, <2>1, <3>1, BothAt
    <2>3. 1 \in 1..Len(a) /\ 2 \in 1..Len(a)
      BY <1>3
    <2>4. Len(ToUsb) > 1
      BY <1>3, <2>2
    <2>5. QED
      BY <2>2, <2>3, <2>4
  <1>14. Is(ToUsb[1], {"redirect"}, "ux0") /\ Is(ToUsb[2], {"umount"}, "uma0")
    BY <1>0, <1>3, <1>13 DEF Is
  <1>15. \A e \in Planned(ToUsb) : e.op # "umounted"
    BY <1>11
  <1>16. QED
    BY <1>9, <1>10, <1>12, <1>13, <1>14, <1>15

-----------------------------------------------------------------------------
\* The plan for the USB medium, once that medium is there and nothing was said.
LEMMA UsbSound == World /\ "usb" \in present /\ notice # 3 => SoundOn(ToUsb, "usb")
  <1> SUFFICES ASSUME World, "usb" \in present, notice # 3 PROVE SoundOn(ToUsb, "usb")
    OBVIOUS
  <1>1. PICK k \in 1..Len(ToUsb) : /\ k > 1 /\ Route(ToUsb, k, "usb") /\ Redirects(ToUsb, k)
                                   /\ Frees(ToUsb, k, "uma0")
    BY ToUsbPlan
  <1>2. \A p \in Points \ {"ux0"} : mounted[p] # "usb" \/ Frees(ToUsb, k, p)
    BY <1>1 DEF World, Points, None
  <1>3. Turning(ToUsb, "usb")
    BY <1>1, <1>2 DEF Turning, Turns
  <1>4. Says(ToUsb, "usb")
    BY ToUsbPlan DEF Says
  <1>5. Uma(ToUsb)
    <2>1. \A e \in Planned(ToUsb) : ~Is(e, {"redirect"}, "uma0")
      BY ToUsbPlan DEF NoUma
    <2>2. ToUsb # <<>>
      BY ToUsbPlan
    <2>3. QED
      BY <2>1, <2>2, ToUsbPlan DEF Uma
  <1>6. QED
    BY <1>3, <1>4, <1>5 DEF SoundOn

\* The press that found uma0: not mounted goes on, or gives up.
LEMMA TryStep ==
    ASSUME TypeOK, World, World', NEW s, NEW m \in Own, Trying(s, m),
           NEW new \in Seq(Steps), Grows(s[1], new), Effect(s[1]),
           NEW n, n = new \o Tail(s)
    PROVE  Sound(n)'
  <1> DEFINE e == s[1]
  <1>1. e = At("try_mount", "uma0") /\ Tail(s) = <<>>
    <2>1. s = <<At("try_mount", "uma0")>>
      BY DEF Trying
    <2>2. QED
      BY <2>1
  <1>2. e.op = "try_mount" /\ e.at = "uma0"
    BY <1>1 DEF At, Step
  <1>3. n = new
    BY <1>1, ConcatEmptySeq
  <1>4. present' = present /\ redirect' = redirect
    BY <1>2 DEF Effect
  <1>5. CASE CanMount("uma0")
    <2>1. n = ToUsb /\ notice' = notice
      BY <1>2, <1>3, <1>5 DEF Grows, Effect
    <2>2. "usb" \in present' /\ notice' # 3
      BY <1>4, <2>1 DEF Trying
    <2>3. (World /\ "usb" \in present /\ notice # 3 => SoundOn(ToUsb, "usb"))'
      BY UsbSound, PTL
    <2>4. SoundOn(ToUsb, "usb")'
      BY <2>2, <2>3
    <2>5. QED
      BY <2>1, <2>4 DEF Sound, Own
  <1>6. CASE ~CanMount("uma0")
    <2>1. n = <<>> /\ notice' = 6 /\ mounted' = mounted
      BY <1>2, <1>3, <1>6 DEF Grows, Effect
    <2>2. mounted'["ux0"] = m /\ redirect'["ux0"] = m /\ m # "usb"
      BY <1>4, <2>1 DEF Trying
    <2>3. Planned(<<>>) = {}
      BY PlannedFew
    <2>4. Says(<<>>, m)' /\ Steady(<<>>, m)'
      BY <2>1, <2>2, <2>3 DEF Says, Steady
    <2>5. SoundOn(<<>>, m)'
      BY <2>2, <2>4 DEF SoundOn
    <2>6. QED
      BY <2>1, <2>5 DEF Sound
  <1>7. QED
    BY <1>5, <1>6

\* A step of the thread that is at it, when nothing goes wrong.
LEMMA StepSound ==
    ASSUME TypeOK, World, NEW t \in Threads, Sound(todo[t]), ThreadStep(t), Fine',
           exclusive' = exclusive
    PROVE  World' /\ Sound(todo[t])'
  <1>0. PICK s, n : s = todo[t] /\ n = todo'[t]
    OBVIOUS
  <1> DEFINE e == s[1]
  <1>1. s # <<>> /\ s \in Seq(Steps) /\ Effect(e)
    BY <1>0, StepEffect DEF TypeOK, Now
  <1>2. PICK new \in Seq(Steps) : Then(t, new) /\ Grows(e, new)
    BY <1>0, StepEffect DEF Now
  <1>3. n = new \o Tail(s)
    BY <1>0, <1>2 DEF Then, TypeOK
  <1>4. PICK m \in Own : SoundOn(s, m)
    BY <1>0 DEF Sound
  <1>5. e \in Steps /\ e \in Planned(s)
    BY <1>1, PlannedHead
  <1> HIDE DEF e
  <1>6. CASE Trying(s, m)
    <2>1. e.op = "try_mount"
      <3>1. s = <<At("try_mount", "uma0")>>
        BY <1>6 DEF Trying
      <3>2. QED
        BY <3>1 DEF At, Step, e
    <2>2. World'
      <3>1. Proper(e)
        BY <2>1 DEF Proper
      <3>2. QED
        BY <1>1, <1>5, <3>1, WorldStep
    <2>3. Sound(n)'
      BY <1>1, <1>2, <1>3, <1>6, <2>2, TryStep DEF e
    <2>4. QED
      BY <1>0, <2>2, <2>3
  <1>7. CASE Steady(s, m) \/ Turning(s, m)
    <2>1. /\ e.op # "try_mount"
          /\ e.op \in {"any_card", "new_card"} => e.at # "uma0"
          /\ Proper(e)
      <3>1. CASE Steady(s, m)
        <4>1. Calm(e)
          BY <1>5, <3>1 DEF Steady
        <4>2. QED
          BY <4>1 DEF Calm, Proper
      <3>2. CASE Turning(s, m)
        <4>1. PICK k \in 1..Len(s) : Turns(s, k, m)
          BY <3>2 DEF Turning
        <4>2. CASE k = 1
          BY <4>1, <4>2 DEF Turns, Route, Is, Proper, e
        <4>3. CASE k > 1
          <5>1. 1 \in 1..(k - 1)
            BY <4>3
          <5>2. Clears(e, m)
            BY <4>1, <5>1 DEF Turns, Route, e
          <5>3. QED
            BY <5>2 DEF Clears, Is, Proper
        <4>4. QED
          BY <4>2, <4>3
      <3>3. QED
        BY <1>7, <3>1, <3>2
    <2>2. World'
      BY <1>1, <1>5, <2>1, WorldStep
    <2>3. Says(n, m)'
      BY <1>1, <1>2, <1>3, <1>4, <2>1, SaysStep DEF SoundOn, e
    <2>4. m = "usb" => Uma(n)'
      BY <1>1, <1>2, <1>3, <1>4, <2>1, UmaStep DEF SoundOn, e
    <2>5. Steady(n, m)' \/ Turning(n, m)'
      <3>1. CASE Turning(s, m)
        <4>1. PICK k \in 1..Len(s) : Turns(s, k, m)
          BY <3>1 DEF Turning
        <4>2. QED
          BY <1>1, <1>2, <1>3, <4>1, TurnStep DEF e
      <3>2. CASE Steady(s, m) /\ new # Unloaded
        BY <1>1, <1>2, <1>3, <3>2, CalmStep DEF e
      <3>3. CASE Steady(s, m) /\ new = Unloaded
        <4>1. CASE e.op = "unload"
          BY <1>1, <1>3, <3>3, <4>1, UnloadTurns DEF e
        <4>2. CASE e.op # "unload"
          <5>1. At("remount_if", "uma0") \in Planned(new)
            BY <3>3, GrownCalls
          <5>2. At("remount_if", "uma0").op = "remount_if"
            BY DEF At, Step
          <5>3. QED
            BY <1>2, <1>5, <2>1, <4>2, <5>1, <5>2, GrownIsPlain DEF e
        <4>3. QED
          BY <4>1, <4>2
      <3>4. QED
        BY <1>7, <3>1, <3>2, <3>3
    <2>6. Sound(n)'
      BY <2>3, <2>4, <2>5 DEF Sound, SoundOn
    <2>7. QED
      BY <1>0, <2>2, <2>6
  <1>8. QED
    BY <1>4, <1>6, <1>7 DEF SoundOn

-----------------------------------------------------------------------------
\* What follows the mount of ux0: on its own medium leaves it alone.
LEMMA OthersAreCalm ==
    /\ OthersAfterUmount \in Seq(Steps) /\ <<Plain("umounted")>> \in Seq(Steps)
    /\ \A e \in Planned(OthersAfterUmount) \cup Planned(<<Plain("umounted")>>) :
          Calm(e) /\ e.op # "mounted"
  <1> DEFINE x == <<Step("redirect", "uma0", "usb")>>
             y == <<At("new_card", "xmc0"), At("new_card", "imc0")>>
             w == Remount("uma0")
             z == <<Plain("umounted")>>
  <1>0. /\ \A o, p : At(o, p).op = o /\ At(o, p).at = p
        /\ \A o : Plain(o).op = o
        /\ \A o, p, m : Step(o, p, m).op = o /\ Step(o, p, m).at = p /\ Step(o, p, m).to = m
    BY DEF At, Plain, Step
  <1>1. x \in Seq(Steps) /\ y \in Seq(Steps) /\ z \in Seq(Steps)
    <2>1. Step("redirect", "uma0", "usb") \in Steps
      BY StepIsStep DEF Ops, Points, Media
    <2>2. At("new_card", "xmc0") \in Steps /\ At("new_card", "imc0") \in Steps /\ Plain("umounted") \in Steps
      BY CallsAreSteps DEF Ops, Points
    <2>3. QED
      BY <2>1, <2>2
  <1>2. w \in Seq(Steps)
    BY RemountIsPlan DEF Points
  <1>3. /\ Planned(x) = {Step("redirect", "uma0", "usb")}
        /\ Planned(y) = {At("new_card", "xmc0"), At("new_card", "imc0")}
        /\ Planned(z) = {Plain("umounted")}
        /\ Planned(w) = {At("umount", "uma0"), At("force", "uma0"), At("mount", "uma0")}
    BY PlannedFew, GrownCalls
  <1>4. MountUsbUma0 = x \o w /\ OthersAfterUmount = MountUsbUma0 \o y
    BY DEF MountUsbUma0, OthersAfterUmount
  <1> HIDE DEF x, y, w, z
  <1>5. MountUsbUma0 \in Seq(Steps) /\ Planned(MountUsbUma0) = Planned(x) \cup Planned(w)
    BY <1>1, <1>2, <1>4, PlannedBoth
  <1>6. /\ OthersAfterUmount \in Seq(Steps)
        /\ Planned(OthersAfterUmount) = Planned(MountUsbUma0) \cup Planned(y)
    <2>1. MountUsbUma0 \o y \in Seq(Steps)
      BY <1>1, <1>5
    <2>2. Planned(MountUsbUma0 \o y) = Planned(MountUsbUma0) \cup Planned(y)
      BY <1>1, <1>5, PlannedBoth
    <2>3. QED
      BY <1>4, <2>1, <2>2
  <1>7. \A e \in Planned(OthersAfterUmount) \cup Planned(z) :
           \/ e.op = "redirect" /\ e.at = "uma0" /\ e.to = "usb"
           \/ e.op \in {"umount", "force", "mount"} /\ e.at = "uma0"
           \/ e.op = "new_card" /\ e.at \in {"xmc0", "imc0"}
           \/ e.op = "umounted"
    BY <1>0, <1>3, <1>5, <1>6
  <1>8. \A e \in Planned(OthersAfterUmount) \cup Planned(z) : Calm(e) /\ e.op # "mounted"
    BY <1>7 DEF Calm
  <1>9. QED
    BY <1>1, <1>6, <1>8 DEF z

\* A way back to a medium of the console's own, on which nothing holds that medium.
LEMMA BackTurns ==
    ASSUME NEW m \in Own, m \in present, NEW a \in Seq(Steps),
           \A e \in Planned(a) : Clears(e, m), \E e \in Planned(a) : e.op = "redirect",
           exclusive => \A p \in Points \ {"ux0"} :
              mounted[p] # m \/ \E e \in Planned(a) : Is(e, {"umount", "force"}, p),
           NEW n, n = Chain(a, Remount("ux0"), OthersAfterUmount, <<Plain("umounted")>>)
    PROVE  Turning(n, m) /\ n \in Seq(Steps) /\ \A e \in Planned(n) : e.op # "mounted"
  <1> DEFINE b == Cat(OthersAfterUmount, <<Plain("umounted")>>)
             k == Len(a) + 3
  <1>1. /\ n = Course(a, b) /\ b \in Seq(Steps)
        /\ Planned(b) = Planned(OthersAfterUmount) \cup Planned(<<Plain("umounted")>>)
    BY OthersAreCalm, ChainIsCourse
  <1>2. \A e \in Planned(b) : Calm(e) /\ e.op # "mounted"
    BY <1>1, OthersAreCalm
  <1>3. k = Len(a) + 3
    OBVIOUS
  <1> HIDE DEF b, k
  <1>4. Mounts(n, k, m, a, b)
    BY <1>1, <1>2, <1>3, MountRoute
  <1>5. /\ k \in 1..Len(n) /\ k > 1 /\ Route(n, k, m) /\ Redirects(n, k) /\ n \in Seq(Steps)
        /\ \A p : (\E e \in Planned(a) : Is(e, {"umount", "force"}, p)) => Frees(n, k, p)
        /\ Planned(n) = Planned(a) \cup Planned(Remount("ux0")) \cup Planned(b)
    BY <1>4 DEF Mounts
  <1>6. Turning(n, m)
    BY <1>5 DEF Turning, Turns
  <1>7. \A e \in Planned(a) : e.op # "mounted"
    BY DEF Clears, Is
  <1>8. \A e \in Planned(Remount("ux0")) : e.op # "mounted"
    BY GrownCalls DEF At, Step
  <1>9. QED
    BY <1>2, <1>5, <1>6, <1>7, <1>8

LEMMA CatAssociates ==
    ASSUME NEW x \in Seq(Steps), NEW y \in Seq(Steps), NEW z \in Seq(Steps)
    PROVE  /\ Cat(x, Cat(y, z)) = Cat(Cat(x, y), z) /\ Cat(x, y) \in Seq(Steps)
           /\ Planned(Cat(x, y)) = Planned(x) \cup Planned(y)
  <1>1. (x \o y) \o z = x \o (y \o z)
    BY ConcatAssociative
  <1>2. x \o y \in Seq(Steps)
    OBVIOUS
  <1>3. Planned(x \o y) = Planned(x) \cup Planned(y)
    BY PlannedBoth
  <1>4. QED
    BY <1>1, <1>2, <1>3, Zenon DEF Cat

\* The button brings ux0: back to a medium that is there, having umounted whatever
\* else holds it.
LEMMA BackPlan ==
    ASSUME TypeOK, World, Uma(<<>>),
           NEW n, n = BringBack \o OthersAfterUmount \o <<Plain("umounted")>>
    PROVE  /\ \E m \in Own : m # "usb" /\ Turning(n, m)
           /\ \A e \in Planned(n) : e.op # "mounted"
  <1> DEFINE w == Remount("ux0")
             Away(m, p) == <<Step("redirect", "ux0", m), At("umount", p)>>
             clear(p) == IF Folder(p) THEN <<At("umount", p), At("force", p)>> ELSE <<>>
             after(x) == x \o OthersAfterUmount \o <<Plain("umounted")>>
  <1>0. /\ \A o, p : At(o, p).op = o /\ At(o, p).at = p
        /\ \A o, p, m : Step(o, p, m).op = o /\ Step(o, p, m).at = p /\ Step(o, p, m).to = m
    BY DEF At, Step
  <1>1. present \cap {"ur0", None} = {}
    BY ConsolesAreMedia DEF TypeOK, Media, None
  <1>2. w \in Seq(Steps)
    BY RemountIsPlan DEF Points
  <1>3. ASSUME NEW m \in Own, NEW p \in Points
        PROVE  Away(m, p) \in Seq(Steps) /\ Planned(Away(m, p)) = {Step("redirect", "ux0", m), At("umount", p)}
    <2>1. Step("redirect", "ux0", m) \in Steps
      BY StepIsStep DEF Ops, Points, Media, Own
    <2>2. At("umount", p) \in Steps
      BY CallsAreSteps DEF Ops
    <2>3. QED
      BY <2>1, <2>2, PlannedFew
  <1>4. ASSUME NEW p \in Points
        PROVE  /\ clear(p) \in Seq(Steps)
               /\ \A e \in Planned(clear(p)) : e.op \in {"umount", "force"} /\ e.at = p
               /\ Folder(p) => At("umount", p) \in Planned(clear(p))
    <2>1. At("umount", p) \in Steps /\ At("force", p) \in Steps
      BY CallsAreSteps DEF Ops
    <2>2. CASE Folder(p)
      <3>1. clear(p) = <<At("umount", p), At("force", p)>>
        BY <2>2
      <3>2. clear(p) \in Seq(Steps)
        BY <2>1, <3>1
      <3>3. Planned(clear(p)) = {At("umount", p), At("force", p)}
        BY <3>1, PlannedFew
      <3> HIDE DEF clear
      <3>4. QED
        BY <1>0, <3>2, <3>3
    <2>3. CASE ~Folder(p)
      <3>1. clear(p) = <<>>
        BY <2>3
      <3>2. Planned(clear(p)) = {}
        BY <3>1, PlannedFew
      <3>3. QED
        BY <2>3, <3>1, <3>2
    <2>4. QED
      BY <2>2, <2>3
  <1>5. BringBack = IF Folder("uma0") \/ File("gcd") THEN Away("gcd", "uma0") \o w
                    ELSE IF File("xmc") THEN clear("xmc0") \o (Away("xmc", "ux0") \o w)
                    ELSE clear("imc0") \o (Away("int", "ux0") \o w)
    BY DEF BringBack, MountGamecardUx0, MountXmcUx0, MountImcUx0
  <1>6. n = after(BringBack)
    OBVIOUS
  <1>7. \A a : Chain(a, w, OthersAfterUmount, <<Plain("umounted")>>) = after(a \o w)
    BY DEF Chain
  <1> HIDE DEF w, Away, clear, after
  <1>8. CASE Folder("uma0") \/ File("gcd")
    <2> DEFINE m == "gcd"
               a == Away(m, "uma0")
    <2>1. m \in Own /\ m # "usb" /\ "uma0" \in Points /\ "ux0" \in Points
      BY DEF Own, Points
    <2>2. m \in present
      <3>1. CASE File("gcd")
        BY <3>1 DEF File
      <3>2. CASE Folder("uma0")
        <4>1. mounted["uma0"] \in {None, "gcd"}
          <5>1. ~(Len(<<>>) > 1)
            OBVIOUS
          <5>2. QED
            BY <5>1 DEF Uma
        <4>2. QED
          BY <1>1, <3>2, <4>1 DEF Folder, None
      <3>3. QED
        BY <1>8, <3>1, <3>2
    <2>3. a \in Seq(Steps) /\ Planned(a) = {Step("redirect", "ux0", m), At("umount", "uma0")}
      BY <1>3, <2>1
    <2>4. n = Chain(a, Remount("ux0"), OthersAfterUmount, <<Plain("umounted")>>)
      BY <1>5, <1>6, <1>7, <1>8 DEF w
    <2>5. \A e \in Planned(a) : Clears(e, m)
      BY <1>0, <2>3 DEF Clears, Is
    <2>6. \E e \in Planned(a) : e.op = "redirect"
      BY <1>0, <2>3
    <2>7. \A p \in Points \ {"ux0"} :
             mounted[p] # m \/ \E e \in Planned(a) : Is(e, {"umount", "force"}, p)
      <3>1. Is(At("umount", "uma0"), {"umount", "force"}, "uma0")
        BY <1>0 DEF Is
      <3>2. \A p \in Points \ {"ux0", "uma0"} : mounted[p] # m
        BY DEF World, Points, None
      <3>3. QED
        BY <2>3, <3>1, <3>2
    <2> HIDE DEF a, m
    <2>8. Turning(n, m) /\ \A e \in Planned(n) : e.op # "mounted"
      BY <2>1, <2>2, <2>3, <2>4, <2>5, <2>6, <2>7, BackTurns
    <2>9. QED
      BY <2>1, <2>8
  <1>9. ASSUME NEW m \in Own, NEW p \in Points, m # "usb", m \in present,
               BringBack = clear(p) \o (Away(m, "ux0") \o w),
               \A q \in Points \ {"ux0", p} : mounted[q] # m,
               ~Folder(p) => mounted[p] # m
        PROVE  /\ \E x \in Own : x # "usb" /\ Turning(n, x)
               /\ \A e \in Planned(n) : e.op # "mounted"
    <2> DEFINE a == Cat(clear(p), Away(m, "ux0"))
    <2>1. "ux0" \in Points
      BY DEF Points
    <2>2. /\ Away(m, "ux0") \in Seq(Steps)
          /\ Planned(Away(m, "ux0")) = {Step("redirect", "ux0", m), At("umount", "ux0")}
      BY <1>3, <2>1
    <2>3. /\ a \in Seq(Steps) /\ Planned(a) = Planned(clear(p)) \cup Planned(Away(m, "ux0"))
          /\ Cat(clear(p), Cat(Away(m, "ux0"), w)) = Cat(a, w)
      BY <1>2, <1>4, <2>2, CatAssociates
    <2>4. BringBack = a \o w
      <3>1. clear(p) \o (Away(m, "ux0") \o w) = Cat(clear(p), Cat(Away(m, "ux0"), w))
        BY Zenon DEF Cat
      <3>2. Cat(a, w) = a \o w
        BY Zenon DEF Cat
      <3>3. QED
        BY <1>9, <2>3, <3>1, <3>2, Zenon
    <2>5. n = Chain(a, Remount("ux0"), OthersAfterUmount, <<Plain("umounted")>>)
      BY <1>6, <1>7, <2>4 DEF w
    <2>6. \A e \in Planned(a) : Clears(e, m)
      BY <1>0, <1>4, <2>2, <2>3 DEF Clears, Is
    <2>7. \E e \in Planned(a) : e.op = "redirect"
      BY <1>0, <2>2, <2>3
    <2>8. \A q \in Points \ {"ux0"} :
             mounted[q] # m \/ \E e \in Planned(a) : Is(e, {"umount", "force"}, q)
      <3>1. Folder(p) => \E e \in Planned(a) : Is(e, {"umount", "force"}, p)
        BY <1>0, <1>4, <2>3 DEF Is
      <3>2. QED
        BY <1>9, <3>1
    <2> HIDE DEF a
    <2>9. Turning(n, m) /\ \A e \in Planned(n) : e.op # "mounted"
      BY <1>9, <2>3, <2>5, <2>6, <2>7, <2>8, BackTurns
    <2>10. QED
      BY <1>9, <2>9
  <1>10. ASSUME NEW p \in Points, ~Folder(p) PROVE mounted[p] = None
    BY <1>10 DEF Folder, World
  <1>11. CASE ~(Folder("uma0") \/ File("gcd")) /\ File("xmc")
    <2>1. /\ "xmc" \in Own /\ "xmc" \in present /\ "xmc0" \in Points
          /\ BringBack = clear("xmc0") \o (Away("xmc", "ux0") \o w)
      BY <1>5, <1>11 DEF Own, File, Points
    <2>2. \A q \in Points \ {"ux0", "xmc0"} : mounted[q] # "xmc"
      BY DEF World, Points, None
    <2>3. ~Folder("xmc0") => mounted["xmc0"] # "xmc"
      BY <1>10, <2>1 DEF None
    <2>4. QED
      BY <1>9, <2>1, <2>2, <2>3
  <1>12. CASE ~(Folder("uma0") \/ File("gcd")) /\ ~File("xmc")
    <2>1. /\ "int" \in Own /\ "int" \in present /\ "imc0" \in Points
          /\ BringBack = clear("imc0") \o (Away("int", "ux0") \o w)
      BY <1>5, <1>12 DEF Own, File, Points, World
    <2>2. \A q \in Points \ {"ux0", "imc0"} : mounted[q] # "int"
      BY DEF World, Points, None
    <2>3. ~Folder("imc0") => mounted["imc0"] # "int"
      BY <1>10, <2>1 DEF None
    <2>4. QED
      BY <1>9, <2>1, <2>2, <2>3
  <1>13. QED
    BY <1>8, <1>11, <1>12

-----------------------------------------------------------------------------
\* What is known of ux0: when nothing is to be done.
LEMMA QuietSound ==
    ASSUME Sound(<<>>)
    PROVE  \E m \in Own : /\ mounted["ux0"] = m /\ redirect["ux0"] = m
                          /\ notice = 1 => m = "usb"
                          /\ notice = 3 => m # "usb"
                          /\ m = "usb" => Uma(<<>>)
  <1>1. PICK m \in Own : SoundOn(<<>>, m)
    BY DEF Sound
  <1>2. ~Turning(<<>>, m) /\ ~Trying(<<>>, m)
    <2>1. Len(<<>>) = 0 /\ 1..0 = {} /\ Len(<<At("try_mount", "uma0")>>) = 1
      OBVIOUS
    <2>2. QED
      BY <2>1 DEF Turning, Trying
  <1>3. QED
    BY <1>1, <1>2 DEF SoundOn, Says, Steady

\* What the handlers plan, when nothing is to be done.
LEMMA HandlersSound ==
    ASSUME TypeOK, World, World', Sound(<<>>), NEW t \in Threads,
           UNCHANGED <<redirect, mounted, present, exclusive>>,
           \/ t = "UI" /\ (PressUmount \/ PressMount \/ PressNothing)
           \/ t = "UI" /\ \E m \in Media : Share(m)
           \/ Unshare(t)
    PROVE  Sound(todo[t])'
  <1>0. PICK m \in Own : /\ mounted["ux0"] = m /\ redirect["ux0"] = m
                         /\ notice = 1 => m = "usb"
                         /\ notice = 3 => m # "usb"
                         /\ m = "usb" => Uma(<<>>)
    BY QuietSound
  <1>1. Planned(<<>>) = {}
    BY PlannedFew
  <1>2. Uma(<<>>) => Uma(<<>>)'
    BY DEF Uma, NoUma
  <1>3. CASE PressUmount /\ t = "UI"
    <2>1. PICK n : n = BringBack \o OthersAfterUmount \o <<Plain("umounted")>>
      OBVIOUS
    <2>2. todo'[t] = n /\ notice' = 0 /\ m = "usb"
      BY <1>0, <1>3, <2>1 DEF PressUmount, Begin, TypeOK
    <2>3. /\ \E x \in Own : x # "usb" /\ Turning(n, x)
          /\ \A e \in Planned(n) : e.op # "mounted"
      BY <1>0, <2>1, <2>2, BackPlan
    <2>4. PICK x \in Own : x # "usb" /\ Turning(n, x)
      BY <2>3
    <2>5. Turning(n, x)'
      BY <2>4 DEF Turning, Turns
    <2>6. Says(n, x)'
      BY <2>2, <2>3, <2>4 DEF Says
    <2>7. Sound(n)'
      BY <2>4, <2>5, <2>6 DEF Sound, SoundOn
    <2>8. QED
      BY <2>2, <2>7
  <1>4. CASE PressMount /\ t = "UI"
    <2>1. notice' = 0 /\ m # "usb" /\ "usb" \in present
      BY <1>0, <1>4 DEF PressMount, File
    <2>2. CASE Folder("uma0")
      <3>1. todo'[t] = ToUsb
        BY <1>4, <2>2 DEF PressMount, Begin, TypeOK
      <3>2. (World /\ "usb" \in present /\ notice # 3 => SoundOn(ToUsb, "usb"))'
        BY UsbSound, PTL
      <3>3. SoundOn(ToUsb, "usb")'
        BY <2>1, <3>2
      <3>4. QED
        BY <3>1, <3>3 DEF Sound, Own
    <2>3. CASE ~Folder("uma0")
      <3>1. PICK n : n = <<At("try_mount", "uma0")>>
        OBVIOUS
      <3>2. todo'[t] = n
        BY <1>4, <2>3, <3>1 DEF PressMount, Begin, TypeOK
      <3>3. Trying(n, m)'
        BY <1>0, <2>1, <3>1 DEF Trying
      <3>4. Planned(n) = {At("try_mount", "uma0")} /\ At("try_mount", "uma0").op = "try_mount"
        BY <3>1, PlannedFew DEF At, Step
      <3>5. Says(n, m)'
        BY <2>1, <3>4 DEF Says
      <3>6. Sound(n)'
        BY <2>1, <3>3, <3>5 DEF Sound, SoundOn
      <3>7. QED
        BY <3>2, <3>6
    <2>4. QED
      BY <2>2, <2>3
  <1>5. ASSUME NEW n, todo'[t] = n, \A e \in Planned(n) : e.op \in {"stop_vstor", "load"},
               notice' \in {notice, 0, 11}
        PROVE  Sound(todo[t])'
    <2>1. /\ mounted'["ux0"] = m /\ redirect'["ux0"] = m
          /\ notice' = 1 => m = "usb"
          /\ notice' = 3 => m # "usb"
          /\ m = "usb" => Uma(<<>>)'
      BY <1>0, <1>2, <1>5
    <2>2. Steady(n, m)'
      BY <1>5, <2>1 DEF Steady, Calm
    <2>3. Says(n, m)'
      BY <1>5, <2>1 DEF Says
    <2>4. ASSUME m = "usb" PROVE Uma(n)'
      <3>1. \/ redirect'["uma0"] = "gcd" /\ mounted'["uma0"] \in {None, "gcd"}
            \/ mounted'["uma0"] = None
        <4>1. ~(Len(<<>>) > 1)
          OBVIOUS
        <4>2. QED
          BY <2>1, <2>4, <4>1 DEF Uma
      <3>2. NoUma(n, {"mount"}) /\ \A e \in Planned(n) : ~Is(e, {"redirect"}, "uma0")
        BY <1>5 DEF NoUma, Is
      <3>3. QED
        BY <3>1, <3>2 DEF Uma
    <2>5. Sound(n)'
      BY <2>2, <2>3, <2>4 DEF Sound, SoundOn
    <2>6. QED
      BY <1>5, <2>5
  <1>6. CASE PressNothing /\ t = "UI"
    <2>1. todo'[t] = <<>> /\ notice' = 11
      BY <1>6 DEF PressNothing, Begin, TypeOK
    <2>2. QED
      BY <1>1, <1>5, <2>1
  <1>7. /\ Planned(<<Plain("stop_vstor")>>) = {Plain("stop_vstor")}
        /\ Plain("stop_vstor").op = "stop_vstor" /\ <<Plain("stop_vstor")>> \in Seq(Steps)
    BY PlannedFew, CallsAreSteps DEF Plain, Step, Ops
  <1>8. ASSUME NEW x \in Media, Share(x), t = "UI" PROVE Sound(todo[t])'
    <2> DEFINE load == <<Step("load", "ux0", x)>>
               stop == IF modid THEN <<Plain("stop_vstor")>> ELSE <<>>
    <2>1. /\ load \in Seq(Steps) /\ Planned(load) = {Step("load", "ux0", x)}
          /\ Step("load", "ux0", x).op = "load"
      <3>1. Step("load", "ux0", x) \in Steps
        BY StepIsStep DEF Ops, Points
      <3>2. QED
        BY <3>1, PlannedFew DEF Step
    <2>2. stop \in Seq(Steps) /\ \A e \in Planned(stop) : e.op = "stop_vstor"
      BY <1>1, <1>7
    <2>3. todo'[t] = stop \o load /\ notice' = 0
      BY <1>8 DEF Share, Begin, StopUsb, TypeOK
    <2> HIDE DEF load, stop
    <2>4. Planned(stop \o load) = Planned(stop) \cup Planned(load)
      BY <2>1, <2>2, PlannedBoth
    <2>5. PICK n : n = stop \o load
      OBVIOUS
    <2>6. \A e \in Planned(n) : e.op \in {"stop_vstor", "load"}
      BY <2>1, <2>2, <2>4, <2>5
    <2>7. QED
      BY <1>5, <2>3, <2>5, <2>6
  <1>9. CASE Unshare(t)
    <2>1. PICK n : n = <<Plain("stop_vstor")>>
      OBVIOUS
    <2>2. todo'[t] = n /\ notice' = notice
      BY <1>9, <2>1 DEF Unshare, StopUsb, Begin, TypeOK
    <2>3. \A e \in Planned(n) : e.op \in {"stop_vstor", "load"}
      BY <1>7, <2>1
    <2>4. QED
      BY <1>5, <2>2, <2>3
  <1>10. QED
    BY <1>3, <1>4, <1>6, <1>8, <1>9

-----------------------------------------------------------------------------
\* What the world does, short of taking a medium out; a press that finds nothing
\* to do says so.
LEMMA WorldSound ==
    ASSUME TypeOK, World, NEW s, Sound(s), UNCHANGED <<redirect, mounted, exclusive>>,
           notice' \in {notice, 0, 11}, present \subseteq present'
    PROVE  World' /\ Sound(s)'
  <1>1. World'
    BY DEF World
  <1>2. PICK m \in Own : SoundOn(s, m)
    BY DEF Sound
  <1>3. Says(s, m)' /\ (m = "usb" => Uma(s)')
    BY <1>2 DEF SoundOn, Says, Uma, NoUma
  <1>4. Steady(s, m) => Steady(s, m)'
    BY DEF Steady
  <1>5. Turning(s, m) => Turning(s, m)'
    BY DEF Turning, Turns
  <1>6. Trying(s, m) => Trying(s, m)'
    BY DEF Trying
  <1>7. QED
    BY <1>1, <1>2, <1>3, <1>4, <1>5, <1>6 DEF Sound, SoundOn

LEMMA StepUx0 == TypeOK /\ Ux0Inv /\ [Next]_vars => Ux0Inv'
  <1> SUFFICES ASSUME TypeOK, Ux0Inv, [Next]_vars, ~crossed', Fine'
               PROVE  World' /\ OneSound'
    BY DEF Ux0Inv, Untroubled, Fine
  <1>1. CASE UNCHANGED vars
    <2>1. UNCHANGED <<todo, notice, redirect, mounted, exclusive, present, crossed, mishaps>>
      BY <1>1 DEF vars, mountVars
    <2>2. World /\ OneSound
      BY <2>1 DEF Ux0Inv, Untroubled, Fine
    <2>3. PICK t \in Threads : Sound(todo[t]) /\ \A u \in Threads \ {t} : todo[u] = <<>>
      BY <2>2 DEF OneSound
    <2>4. PICK s : s = todo[t]
      OBVIOUS
    <2>5. World' /\ Sound(s)'
      BY <2>1, <2>2, <2>3, <2>4, WorldSound
    <2>6. QED
      BY <2>1, <2>3, <2>4, <2>5 DEF OneSound
  <1>2. CASE Next
    <2>0. /\ SystemNext /\ ~crossed /\ exclusive' = exclusive
          /\ crossed' = (crossed \/ \A t \in Threads : todo'[t] # <<>>)
      BY <1>2 DEF Next
    <2>1. ASSUME Fine
          PROVE  World /\ \E t \in Threads : Sound(todo[t]) /\ \A u \in Threads \ {t} : todo[u] = <<>>
      BY <2>0, <2>1 DEF Ux0Inv, OneSound, Untroubled, Fine
    <2>2. CASE (\E m \in slots : Insert(m) \/ Remove(m)) \/ PcWrites
      <3>1. /\ UNCHANGED <<todo, notice, redirect, mounted, mishaps>>
            /\ present \subseteq present'
        <4>1. \A m : ~Remove(m)
          BY DEF Remove, Mishap, Fine
        <4>2. QED
          BY <2>2, <4>1 DEF Insert, PcWrites, mountVars
      <3>2. Fine
        BY <3>1 DEF Fine
      <3>3. PICK t \in Threads : Sound(todo[t]) /\ \A u \in Threads \ {t} : todo[u] = <<>>
        BY <2>1, <3>2
      <3>4. PICK s : s = todo[t]
        OBVIOUS
      <3>5. World' /\ Sound(s)'
        BY <2>0, <2>1, <3>1, <3>2, <3>3, <3>4, WorldSound
      <3>6. QED
        BY <3>1, <3>3, <3>4, <3>5 DEF OneSound
    <2>3. ASSUME NEW t \in Threads, ThreadStep(t) PROVE World' /\ OneSound'
      <3>1. todo[t] # <<>> /\ mishaps \subseteq mishaps' /\ \E s : Then(t, s)
        BY <2>3
        DEF ThreadStep, Redirect, Umount, ForceUmount, Mount, TryMount, Checks, Check, Done, Load,
            StopMtp, StartVstor, MtpBack, UnloadBack, StopVstor, StartMtp, Unload, Does, Mishap,
            MountsIt, MountFails
      <3>2. Fine
        BY <3>1 DEF Fine
      <3>3. PICK u \in Threads : Sound(todo[u]) /\ \A v \in Threads \ {u} : todo[v] = <<>>
        BY <2>1, <3>2
      <3>4. u = t
        BY <3>1, <3>3
      <3>5. \A v \in Threads \ {t} : todo'[v] = todo[v]
        BY <3>1 DEF Then, TypeOK
      <3>6. World' /\ Sound(todo[t])'
        BY <2>0, <2>1, <2>3, <3>2, <3>3, <3>4, StepSound
      <3>7. QED
        BY <3>3, <3>4, <3>5, <3>6 DEF OneSound
    <2>4. ASSUME NEW t \in Threads,
                 \/ t = "UI" /\ (PressUmount \/ PressMount \/ PressNothing)
                 \/ t = "UI" /\ \E m \in Media : Share(m)
                 \/ Unshare(t)
          PROVE  World' /\ OneSound'
      <3>0. /\ \E s : Begin(t, s)
            /\ todo[t] = <<>> /\ UNCHANGED <<redirect, mounted, present, mishaps>>
            /\ \A v \in Threads \ {t} : todo'[v] = todo[v]
        BY <2>4 DEF PressUmount, PressMount, PressNothing, Share, Unshare, Begin, TypeOK, mountVars
      <3>1. Fine
        BY <3>0 DEF Fine
      <3>2. World /\ World'
        BY <2>0, <2>1, <3>0, <3>1 DEF World
      <3>3. PICK u \in Threads : Sound(todo[u]) /\ \A v \in Threads \ {u} : todo[v] = <<>>
        BY <2>1, <3>1
      <3>4. CASE todo[u] = <<>>
        <4>1. Sound(<<>>) /\ \A v \in Threads : todo[v] = <<>>
          BY <3>3, <3>4
        <4>2. Sound(todo[t])'
          BY <2>0, <2>4, <3>0, <3>2, <4>1, HandlersSound
        <4>3. \A v \in Threads \ {t} : todo'[v] = <<>>
          BY <3>0, <4>1
        <4>4. QED
          BY <3>2, <4>2, <4>3 DEF OneSound
      <3>5. CASE todo[u] # <<>>
        <4>1. u # t /\ todo'[u] = todo[u]
          BY <3>0, <3>5
        <4>2. todo'[t] = <<>>
          BY <2>0, <3>5, <4>1 DEF Threads
        <4>3. \A v \in Threads \ {u} : todo'[v] = <<>>
          BY <3>0, <3>3, <4>2
        <4>4. PICK s : s = todo[u]
          OBVIOUS
        <4>5. notice' \in {notice, 0, 11}
          BY <2>4 DEF PressUmount, PressMount, PressNothing, Share, Unshare
        <4>6. Sound(s)'
          BY <2>0, <3>0, <3>2, <3>3, <4>4, <4>5, WorldSound
        <4>7. QED
          BY <3>2, <4>1, <4>3, <4>4, <4>6 DEF OneSound
      <3>6. QED
        BY <3>4, <3>5
    <2>5. QED
      BY <2>0, <2>2, <2>3, <2>4 DEF SystemNext, Threads
  <1>3. QED
    BY <1>1, <1>2

LEMMA InitUx0 == Init => Ux0Inv
  <1> SUFFICES ASSUME Init PROVE World /\ OneSound
    BY DEF Ux0Inv
  <1>1. PICK u \in present \cap {"gcd", "xmc", "int"} : \E v \in {"usb", "gcd"} \ {u} :
           /\ redirect = [ux0 |-> u, uma0 |-> v, xmc0 |-> "xmc", imc0 |-> "int", ur0 |-> "ur0"]
           /\ mounted = [ux0  |-> u, uma0 |-> IF v \in present THEN v ELSE None,
                         xmc0 |-> None, imc0 |-> None, ur0 |-> "ur0"]
    BY DEF Init
  <1>2. PICK v \in {"usb", "gcd"} \ {u} :
           /\ redirect = [ux0 |-> u, uma0 |-> v, xmc0 |-> "xmc", imc0 |-> "int", ur0 |-> "ur0"]
           /\ mounted = [ux0  |-> u, uma0 |-> IF v \in present THEN v ELSE None,
                         xmc0 |-> None, imc0 |-> None, ur0 |-> "ur0"]
    BY <1>1
  <1>3. /\ redirect["ux0"] = u /\ redirect["uma0"] = v /\ redirect["xmc0"] = "xmc"
        /\ redirect["imc0"] = "int" /\ redirect["ur0"] = "ur0"
        /\ mounted["ux0"] = u /\ mounted["uma0"] = IF v \in present THEN v ELSE None
        /\ mounted["xmc0"] = None /\ mounted["imc0"] = None /\ mounted["ur0"] = "ur0"
    BY <1>2
  <1>4. World
    <2>1. u \in Own /\ u \in present /\ u \in {"gcd", "xmc", "int"} /\ v # u
      BY DEF Own
    <2>2. \A p \in Points : mounted[p] \in present \cup {"ur0", None}
      BY <1>3, <2>1 DEF Points
    <2>3. \A p, q \in Points : p # q /\ mounted[p] # None => mounted[p] # mounted[q]
      BY <1>3, <2>1 DEF Points, None
    <2>4. QED
      BY <1>3, <2>1, <2>2, <2>3 DEF World
  <1>5. Sound(<<>>)
    <2>1. Planned(<<>>) = {} /\ notice = 0 /\ u # "usb" /\ u \in Own
      BY PlannedFew DEF Init, Own
    <2>2. Steady(<<>>, u) /\ Says(<<>>, u)
      BY <1>3, <2>1 DEF Steady, Says
    <2>3. QED
      BY <2>1, <2>2 DEF Sound, SoundOn
  <1>6. OneSound
    <2>1. "UI" \in Threads /\ \A t \in Threads : todo[t] = <<>>
      BY DEF Init, Threads
    <2>2. QED
      BY <1>5, <2>1 DEF OneSound
  <1>7. QED
    BY <1>4, <1>6

\* When the threads are done, ux0: is on the medium its device names, and what was
\* said of the press is true of it.
LEMMA QuietUx0 ==
    Ux0Inv /\ Quiet /\ Untroubled =>
       \E m \in Own : /\ mounted["ux0"] = m /\ m \in present
                      /\ notice = 1 => m = "usb"
                      /\ notice = 3 => m # "usb"
  <1> SUFFICES ASSUME Ux0Inv, Quiet, Untroubled
               PROVE  \E m \in Own : /\ mounted["ux0"] = m /\ m \in present
                                     /\ notice = 1 => m = "usb"
                                     /\ notice = 3 => m # "usb"
    OBVIOUS
  <1>1. World /\ Sound(<<>>)
    BY DEF Ux0Inv, OneSound, Quiet
  <1>2. PICK m \in Own : /\ mounted["ux0"] = m
                         /\ notice = 1 => m = "usb"
                         /\ notice = 3 => m # "usb"
    BY <1>1, QuietSound
  <1>3. m \in present
    BY <1>1, <1>2 DEF World, Own, Points, None
  <1>4. QED
    BY <1>2, <1>3

LEMMA Ux0Always == Spec => []Ux0Inv
  BY InitUx0, StepUx0, TypeCorrect, PTL DEF Spec

\* However often the button is pressed and media are shared and put in, ux0: ends up
\* on a medium that is there, unless a umount is refused, a medium is unreadable or
\* taken out, or the threads were at it at once.
THEOREM Ux0KeepsItsMedium == Spec => []Ux0HasMedium
  <1>1. Ux0Inv => Ux0HasMedium
    BY QuietUx0 DEF Ux0HasMedium, Untroubled, Folder
  <1>2. QED
    BY <1>1, Ux0Always, PTL

\* What the button says of ux0: when it is done is so, with the same proviso.
THEOREM NoticesAreTrue == Spec => []NoticeIsTrue
  <1>1. Ux0Inv => NoticeIsTrue
    BY QuietUx0 DEF NoticeIsTrue, Untroubled, Own
  <1>2. QED
    BY <1>1, Ux0Always, PTL
=============================================================================
