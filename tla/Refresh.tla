------------------------------- MODULE Refresh -------------------------------
(***************************************************************************)
(* refresh_thread: every application, patch and PSM game that the system   *)
(* does not know is moved to a temporary directory and promoted from       *)
(* there, or moved back if that fails.  Renames, removals and promotions   *)
(* may fail, the power may go at any moment, and nothing but a flag that   *)
(* the thread itself raises keeps a second press from starting a second    *)
(* thread.  What an item's files hold, and the passes that only count, are *)
(* left out.                                                               *)
(***************************************************************************)
EXTENDS Integers, FiniteSets

CONSTANTS
    Apps, Patches, Psms,   \* what is under ux0:app, ux0:patch and ux0:psm
    AppTemp, PatchTemp,    \* APP_TEMP, PATCH_TEMP; a PSM game has its own under PSM_TEMP
    Threads,               \* refresh threads alive at once
    PowerFails,            \* whether the power may go (bound)
    Nothing

Items == Apps \cup Patches \cup Psms
Temps == {AppTemp, PatchTemp} \cup Psms

ASSUME KindsDiffer == Apps \cap Patches = {} /\ Apps \cap Psms = {} /\ Patches \cap Psms = {}
ASSUME TempsDiffer == AppTemp # PatchTemp /\ {AppTemp, PatchTemp} \cap Psms = {}
ASSUME NothingIsNoItem == Nothing \notin Items
ASSUME PowerFailsOrNot == PowerFails \in BOOLEAN
ASSUME ItemsAreFinite == IsFiniteSet(Items)

VARIABLES
    home,            \* the item in each item's own directory
    temp,            \* the item in each temporary directory
    installed,       \* what needs no refresh: known to the system and licensed
    refreshOnOff, nbrRefreshItem,
    \* refresh threads
    pc, kind, cur,
    seen,            \* the directory entries read so far
    refreshed,
    \* history
    done,            \* the items each thread has promoted
    late,            \* whether a call failed that came after a promotion
    stranded,        \* left in a temporary directory by a power loss or a rename that failed
    blocked          \* a removal of a temporary directory has failed

fileVars   == <<home, temp, installed>>
flagVars   == <<refreshOnOff, nbrRefreshItem>>
counts     == <<refreshed, done, late>>
threadVars == <<pc, kind, cur, seen, counts>>
history    == <<stranded, blocked>>
vars == <<fileVars, flagVars, threadVars, history>>

\* The directories in the order they are refreshed.
OfKind(k) == IF k = 1 THEN Apps ELSE IF k = 2 THEN Patches ELSE Psms

TempOf(i) == IF i \in Apps THEN AppTemp ELSE IF i \in Patches THEN PatchTemp ELSE i

TypeOK ==
    /\ home \in [Items -> Items \cup {Nothing}]
    /\ temp \in [Temps -> Items \cup {Nothing}]
    /\ installed \subseteq Items /\ stranded \subseteq Items
    /\ refreshOnOff \in BOOLEAN /\ blocked \in BOOLEAN
    /\ nbrRefreshItem \in Nat
    /\ pc \in [Threads -> {"gone", "reset", "raise", "dir", "clear", "out", "promote",
                           "restore", "report", "lower"}]
    /\ kind \in [Threads -> 1..3]
    /\ cur \in [Threads -> Items \cup {Nothing}]
    /\ seen \in [Threads -> SUBSET Items] /\ done \in [Threads -> SUBSET Items]
    /\ refreshed \in [Threads -> Nat] /\ late \in [Threads -> BOOLEAN]
    /\ \A t \in Threads : pc[t] \in {"clear", "out", "promote", "restore"} => cur[t] \in Items

\* A value for each thread.
All(v) == [t \in Threads |-> v]

Init ==
    /\ home = [i \in Items |-> i] /\ temp = [d \in Temps |-> Nothing]
    /\ installed \in SUBSET Items
    /\ refreshOnOff = FALSE /\ nbrRefreshItem = 0
    /\ pc = All("gone") /\ kind = All(1) /\ cur = All(Nothing)
    /\ seen = All({}) /\ refreshed = All(0) /\ done = All({}) /\ late = All(FALSE)
    /\ stranded = {} /\ blocked = FALSE

-----------------------------------------------------------------------------
Goto(t, from, to) == pc[t] = from /\ pc' = [pc EXCEPT ![t] = to]

\* onPressREFRESH
Press(t) ==
    /\ ~refreshOnOff
    /\ Goto(t, "gone", "reset")
    /\ UNCHANGED <<fileVars, flagVars, kind, cur, seen, counts, history>>

Reset(t) ==
    /\ Goto(t, "reset", "raise")
    /\ nbrRefreshItem' = 0
    /\ kind' = [kind EXCEPT ![t] = 1] /\ refreshed' = [refreshed EXCEPT ![t] = 0]
    /\ seen' = [seen EXCEPT ![t] = {}] /\ done' = [done EXCEPT ![t] = {}]
    /\ late' = [late EXCEPT ![t] = FALSE]
    /\ UNCHANGED <<fileVars, refreshOnOff, cur, history>>

Raise(t) ==
    /\ Goto(t, "raise", "dir")
    /\ refreshOnOff' = TRUE
    /\ UNCHANGED <<fileVars, nbrRefreshItem, kind, cur, seen, counts, history>>

\* parse_dir_with_callback finds a directory, and refreshNeeded looks into it: any
\* may turn out unreadable, and a patch whose application's data is, is refreshed.
Entry(t) ==
    /\ \E i \in OfKind(kind[t]) \ seen[t] :
          /\ home[i] # Nothing
          /\ cur' = [cur EXCEPT ![t] = i] /\ seen' = [seen EXCEPT ![t] = @ \cup {i}]
          /\ \/ Goto(t, "dir", "dir")
             \/ (i \notin installed \/ i \in Patches) /\ Goto(t, "dir", "clear")
    /\ UNCHANGED <<fileVars, flagVars, kind, counts, history>>

\* Mutant: one directory too many.
LastEntryOneMore(t) ==
    /\ Goto(t, "dir", IF kind[t] <= 3 THEN "dir" ELSE "report")
    /\ kind' = [kind EXCEPT ![t] = IF @ <= 3 THEN @ + 1 ELSE @]
    /\ UNCHANGED <<fileVars, flagVars, cur, seen, counts, history>>

\* A directory ends with its last entry, or where it cannot be read.
LastEntry(t) ==
    /\ Goto(t, "dir", IF kind[t] < 3 THEN "dir" ELSE "report")
    /\ kind' = [kind EXCEPT ![t] = IF @ < 3 THEN @ + 1 ELSE @]
    /\ UNCHANGED <<fileVars, flagVars, cur, seen, counts, history>>

\* Mutant: what is in the temporary directory stays there.
ClearNot(t) ==
    /\ Goto(t, "clear", "out")
    /\ UNCHANGED <<fileVars, flagVars, kind, cur, seen, counts, history>>

\* removePath, which deletes what an earlier refresh may have left, or part of it.
Clear(t) ==
    /\ Goto(t, "clear", "out")
    /\ \/ temp' = [temp EXCEPT ![TempOf(cur[t])] = Nothing] /\ UNCHANGED blocked
       \/ temp[TempOf(cur[t])] # Nothing /\ blocked' = TRUE /\ UNCHANGED temp
    /\ UNCHANGED <<home, installed, flagVars, kind, cur, seen, counts, stranded>>

\* sceIoRename to the temporary directory; a target that exists is refused.
MoveOut(t) ==
    LET i == cur[t] IN
    /\ Goto(t, "out", "promote")
    /\ \/ /\ home[i] # Nothing /\ temp[TempOf(i)] = Nothing
          /\ temp' = [temp EXCEPT ![TempOf(i)] = home[i]]
          /\ home' = [home EXCEPT ![i] = Nothing]
       \/ UNCHANGED <<home, temp>>
    /\ UNCHANGED <<installed, flagVars, kind, cur, seen, counts, history>>

\* The system installs what is in the temporary directory.
Import(t, d) ==
    /\ temp[d] # Nothing
    /\ home' = [home EXCEPT ![temp[d]] = temp[d]] /\ temp' = [temp EXCEPT ![d] = Nothing]
    /\ installed' = installed \cup {temp[d]}
    /\ done' = [done EXCEPT ![t] = @ \cup ({cur[t]} \cap {temp[d]})]

\* refreshApp, or promoteCma: the import may fail, or a call after it, when the item
\* is promoted and not counted.
Promote(t) ==
    LET d == TempOf(cur[t]) IN
    /\ \/ /\ Goto(t, "promote", "dir") /\ Import(t, d)
          /\ refreshed' = [refreshed EXCEPT ![t] = @ + 1] /\ UNCHANGED late
       \/ /\ Goto(t, "promote", "restore") /\ UNCHANGED refreshed
          /\ \/ Import(t, d) /\ late' = [late EXCEPT ![t] = TRUE]
             \/ UNCHANGED <<fileVars, done, late>>
    /\ UNCHANGED <<flagVars, kind, cur, seen, history>>

\* Mutant: the folder is not moved back.
RestoreNot(t) ==
    /\ Goto(t, "restore", "dir")
    /\ UNCHANGED <<fileVars, flagVars, kind, cur, seen, counts, history>>

\* sceIoRename back; that it fails is not noticed.
Restore(t) ==
    LET i == cur[t]  d == TempOf(i) IN
    /\ Goto(t, "restore", "dir")
    /\ \/ /\ temp[d] # Nothing /\ home[i] = Nothing
          /\ home' = [home EXCEPT ![i] = temp[d]] /\ temp' = [temp EXCEPT ![d] = Nothing]
          /\ UNCHANGED stranded
       \/ /\ stranded' = stranded \cup ({temp[d]} \ {Nothing})
          /\ UNCHANGED <<home, temp>>
    /\ UNCHANGED <<installed, flagVars, kind, cur, seen, counts, blocked>>

Report(t) ==
    /\ Goto(t, "report", "lower")
    /\ nbrRefreshItem' = refreshed[t]
    /\ UNCHANGED <<fileVars, refreshOnOff, kind, cur, seen, counts, history>>

\* Mutant: the flag stays up.
LowerNot(t) ==
    /\ Goto(t, "lower", "gone")
    /\ UNCHANGED <<fileVars, flagVars, kind, cur, seen, counts, history>>

Lower(t) ==
    /\ Goto(t, "lower", "gone")
    /\ refreshOnOff' = FALSE
    /\ UNCHANGED <<fileVars, nbrRefreshItem, kind, cur, seen, counts, history>>

\* The power goes, and comes back: only the files are left.
PowerLoss ==
    /\ PowerFails
    /\ refreshOnOff' = FALSE /\ nbrRefreshItem' = 0
    /\ pc' = All("gone") /\ kind' = All(1) /\ cur' = All(Nothing)
    /\ seen' = All({}) /\ refreshed' = All(0) /\ done' = All({}) /\ late' = All(FALSE)
    /\ stranded' = stranded \cup ({temp[d] : d \in Temps} \ {Nothing})
    /\ UNCHANGED <<fileVars, blocked>>

-----------------------------------------------------------------------------
ThreadNext(t) ==
    \/ Reset(t) \/ Raise(t) \/ Entry(t) \/ LastEntry(t)
    \/ Clear(t) \/ MoveOut(t) \/ Promote(t) \/ Restore(t)
    \/ Report(t) \/ Lower(t)

Next == PowerLoss \/ \E t \in Threads : Press(t) \/ ThreadNext(t)

Spec == Init /\ [][Next]_vars

\* A refresh that has begun goes on.
FairSpec == Spec /\ \A t \in Threads : WF_vars(ThreadNext(t))

-----------------------------------------------------------------------------
(***************************************************************************)
(* Properties                                                              *)
(***************************************************************************)
InHand == {"promote", "restore"}

\* "Restore folder on error": an item is where it belongs, or some thread is about to
\* promote it or to move it back, whatever fails on the way; but for items that a
\* power loss or a failing restore has left in a temporary directory.
RestoresOnError ==
    \A i \in Items \ stranded :
        home[i] = i \/ \E t \in Threads : cur[t] = i /\ pc[t] \in InHand

\* A refresh never reports more items than it promoted, leftovers it came across
\* excluded, unless these could not be removed; and it reports fewer only if a call
\* failed after an item had been promoted, which the code takes for an error.
CountIsTrue ==
    \A t \in Threads : pc[t] = "lower" /\ ~blocked =>
        /\ nbrRefreshItem <= Cardinality(done[t])
        /\ ~late[t] => nbrRefreshItem = Cardinality(done[t])

\* The flag that makes the buttons refuse comes down again.
RefreshEnds == refreshOnOff ~> ~refreshOnOff
=============================================================================
