---------------------------- MODULE RefreshProofs ----------------------------
(***************************************************************************)
(* Proofs about Refresh for any applications, patches and games: types,    *)
(* for any number of threads, and that one thread brings back what it      *)
(* could not promote and counts what it promoted.                          *)
(***************************************************************************)
EXTENDS Refresh, FiniteSetTheorems, TLAPS

LEMMA TempOfType == ASSUME NEW i \in Items PROVE TempOf(i) \in Temps
  BY DEF TempOf, Temps, Items

LEMMA OfKindType == ASSUME NEW k \in 1..3 PROVE OfKind(k) \subseteq Items
  BY DEF OfKind, Items

-----------------------------------------------------------------------------
(***************************************************************************)
(* Types                                                                   *)
(***************************************************************************)
\* The threads when all are gone, at first and after a power loss.
LEMMA GoneTypes ==
    /\ All("gone") \in [Threads -> {"gone", "reset", "raise", "dir", "clear", "out", "promote",
                                    "restore", "report", "lower"}]
    /\ All(1) \in [Threads -> 1..3]
    /\ All(Nothing) \in [Threads -> Items \cup {Nothing}]
    /\ All({}) \in [Threads -> SUBSET Items]
    /\ All(0) \in [Threads -> Nat]
    /\ All(FALSE) \in [Threads -> BOOLEAN]
    /\ \A t \in Threads : All("gone")[t] = "gone"
  BY DEF All

LEMMA InitType == Init => TypeOK
  <1> SUFFICES ASSUME Init PROVE TypeOK
    OBVIOUS
  <1>1. home \in [Items -> Items \cup {Nothing}] /\ temp \in [Temps -> Items \cup {Nothing}]
    BY DEF Init
  <1>2. QED
    BY <1>1, GoneTypes DEF Init, TypeOK

LEMMA MovesType ==
    ASSUME TypeOK, NEW t \in Threads, Clear(t) \/ MoveOut(t) \/ Promote(t) \/ Restore(t)
    PROVE  TypeOK'
  <1>0. cur[t] \in Items /\ TempOf(cur[t]) \in Temps
    <2>1. pc[t] \in {"clear", "out", "promote", "restore"}
      BY DEF Clear, MoveOut, Promote, Restore, Goto
    <2>2. QED
      BY <2>1, TempOfType DEF TypeOK
  <1> USE DEF TypeOK, Goto, fileVars, flagVars, counts, history
  <1>1. CASE Clear(t)
    BY <1>0, <1>1 DEF Clear
  <1>2. CASE MoveOut(t)
    BY <1>0, <1>2 DEF MoveOut
  <1>3. CASE Promote(t)
    <2>1. ASSUME Import(t, TempOf(cur[t]))
          PROVE  /\ home' \in [Items -> Items \cup {Nothing}]
                 /\ temp' \in [Temps -> Items \cup {Nothing}]
                 /\ installed' \subseteq Items
                 /\ done' \in [Threads -> SUBSET Items]
      BY <1>0, <2>1 DEF Import
    <2>2. CASE pc' = [pc EXCEPT ![t] = "dir"] /\ Import(t, TempOf(cur[t]))
      BY <1>0, <1>3, <2>1, <2>2 DEF Promote
    <2>3. CASE pc' = [pc EXCEPT ![t] = "restore"]
      BY <1>0, <1>3, <2>1, <2>3 DEF Promote
    <2>4. QED
      BY <1>3, <2>2, <2>3 DEF Promote
  <1>4. CASE Restore(t)
    BY <1>0, <1>4 DEF Restore
  <1>5. QED
    BY <1>1, <1>2, <1>3, <1>4

LEMMA ThreadType == ASSUME TypeOK, NEW t \in Threads, ThreadNext(t) PROVE TypeOK'
  <1> USE DEF TypeOK, Goto, fileVars, flagVars, counts, history
  <1>1. CASE Reset(t)
    BY <1>1 DEF Reset
  <1>2. CASE Raise(t)
    BY <1>2 DEF Raise
  <1>3. CASE Entry(t)
    <2>1. PICK i \in OfKind(kind[t]) \ seen[t] :
             /\ cur' = [cur EXCEPT ![t] = i] /\ seen' = [seen EXCEPT ![t] = @ \cup {i}]
             /\ Goto(t, "dir", "dir") \/ Goto(t, "dir", "clear")
      BY <1>3 DEF Entry
    <2>2. i \in Items
      BY OfKindType
    <2>3. QED
      BY <1>3, <2>1, <2>2 DEF Entry
  <1>4. CASE LastEntry(t)
    BY <1>4 DEF LastEntry
  <1>5. CASE Clear(t) \/ MoveOut(t) \/ Promote(t) \/ Restore(t)
    BY <1>5, MovesType
  <1>6. CASE Report(t)
    BY <1>6 DEF Report
  <1>7. CASE Lower(t)
    BY <1>7 DEF Lower
  <1>8. QED
    BY <1>1, <1>2, <1>3, <1>4, <1>5, <1>6, <1>7 DEF ThreadNext

LEMMA StepType == TypeOK /\ [Next]_vars => TypeOK'
  <1> SUFFICES ASSUME TypeOK, [Next]_vars PROVE TypeOK'
    OBVIOUS
  <1>1. CASE PowerLoss
    <2>1. {temp[d] : d \in Temps} \ {Nothing} \subseteq Items
      BY DEF TypeOK
    <2>2. QED
      BY <1>1, <2>1, GoneTypes DEF PowerLoss, TypeOK, fileVars
  <1>2. ASSUME NEW t \in Threads, Press(t) PROVE TypeOK'
    BY <1>2 DEF Press, TypeOK, Goto, fileVars, flagVars, counts, history
  <1>3. ASSUME NEW t \in Threads, ThreadNext(t) PROVE TypeOK'
    BY <1>3, ThreadType
  <1>4. CASE UNCHANGED vars
    BY <1>4 DEF TypeOK, vars, fileVars, flagVars, threadVars, counts, history
  <1>5. QED
    BY <1>1, <1>2, <1>3, <1>4 DEF Next

\* Every variable keeps its type, for any number of items and threads, and a thread that
\* handles an item knows which.
THEOREM TypeCorrect == Spec => []TypeOK
  <1>1. QED
    BY InitType, StepType, PTL DEF Spec

-----------------------------------------------------------------------------
(***************************************************************************)
(* One thread                                                              *)
(***************************************************************************)
\* Nobody's directory holds another's item.
HomesOwn == \A i \in Items : home[i] \in {i, Nothing}

\* What is in a temporary directory is in hand, or stranded.
TempsInHand(r) ==
    \A d \in Temps : temp[d] \notin stranded \cup {Nothing} =>
        pc[r] \in InHand /\ temp[d] = cur[r] /\ d = TempOf(cur[r])

\* The item that the thread handles is at home or in its temporary directory.
CurIsThere(r) ==
    /\ pc[r] \in {"clear", "out"} => home[cur[r]] = cur[r]
    /\ pc[r] \in InHand => home[cur[r]] = cur[r] \/ temp[TempOf(cur[r])] = cur[r]

IInv(r) == TypeOK /\ HomesOwn /\ TempsInHand(r) /\ CurIsThere(r) /\ RestoresOnError

LEMMA InitInv == ASSUME NEW r, Threads = {r}, Init PROVE IInv(r)
  <1>1. TypeOK
    BY InitType
  <1>2. QED
    BY <1>1 DEF Init, IInv, HomesOwn, TempsInHand, CurIsThere, RestoresOnError, All, InHand

\* A step that leaves the files alone and takes no item out of a hand.
LEMMA FilesStay ==
    ASSUME NEW r, Threads = {r}, IInv(r), TypeOK',
           UNCHANGED <<home, temp, stranded>>,
           pc[r] \notin InHand, pc'[r] \notin InHand,
           pc'[r] \in {"clear", "out"} => home[cur'[r]] = cur'[r]
    PROVE  IInv(r)'
  BY DEF IInv, HomesOwn, TempsInHand, CurIsThere, RestoresOnError

LEMMA MovesInv ==
    ASSUME NEW r, Threads = {r}, IInv(r), TypeOK',
           Clear(r) \/ MoveOut(r) \/ Promote(r) \/ Restore(r)
    PROVE  IInv(r)'
  <1> DEFINE i == cur[r]
             d == TempOf(i)
  <1>0. i \in Items /\ d \in Temps
    <2>1. pc[r] \in {"clear", "out", "promote", "restore"}
      BY DEF Clear, MoveOut, Promote, Restore, Goto
    <2>2. QED
      BY <2>1, TempOfType DEF IInv, TypeOK
  <1>c. cur' = cur
    BY DEF Clear, MoveOut, Promote, Restore
  <1> USE DEF IInv, TypeOK, HomesOwn, TempsInHand, CurIsThere, RestoresOnError, InHand
  <1>1. CASE Clear(r)
    <2>1. pc[r] = "clear" /\ pc'[r] = "out" /\ home' = home /\ stranded' = stranded
      BY <1>1 DEF Clear, Goto
    <2>2. \A e \in Temps : temp'[e] \in {temp[e], Nothing}
      BY <1>0, <1>1 DEF Clear
    <2>3. QED
      BY <1>0, <1>c, <2>1, <2>2
  <1>2. CASE MoveOut(r)
    <2>1. pc[r] = "out" /\ pc'[r] = "promote" /\ stranded' = stranded
      BY <1>2 DEF MoveOut, Goto, history
    <2>2. CASE UNCHANGED <<home, temp>>
      BY <1>0, <1>c, <2>1, <2>2
    <2>3. CASE /\ temp' = [temp EXCEPT ![d] = home[i]]
               /\ home' = [home EXCEPT ![i] = Nothing]
      BY <1>0, <1>c, <2>1, <2>3
    <2>4. QED
      BY <1>2, <2>2, <2>3 DEF MoveOut
  <1>3. CASE Promote(r)
    <2>1. pc[r] = "promote" /\ pc'[r] \in {"dir", "restore"} /\ stranded' = stranded
      BY <1>3 DEF Promote, Goto, history
    <2>2. CASE Import(r, d)
      <3>1. /\ temp[d] \in Items
            /\ home' = [home EXCEPT ![temp[d]] = temp[d]] /\ temp' = [temp EXCEPT ![d] = Nothing]
        BY <1>0, <2>2 DEF Import
      <3>2. home'[i] = i
        BY <1>0, <2>1, <3>1
      <3>3. QED
        BY <1>0, <1>c, <2>1, <3>1, <3>2
    <2>3. CASE pc'[r] = "restore" /\ UNCHANGED fileVars
      BY <1>0, <1>c, <2>1, <2>3 DEF fileVars
    <2>4. QED
      BY <1>3, <2>2, <2>3 DEF Promote, Goto
  <1>4. CASE Restore(r)
    <2>1. pc[r] = "restore" /\ pc'[r] = "dir"
      BY <1>4 DEF Restore, Goto
    <2>2. CASE /\ home[i] = Nothing /\ UNCHANGED stranded
               /\ home' = [home EXCEPT ![i] = temp[d]] /\ temp' = [temp EXCEPT ![d] = Nothing]
      <3>1. temp[d] = i
        BY <1>0, <2>1, <2>2, NothingIsNoItem
      <3>2. QED
        BY <1>0, <1>c, <2>1, <2>2, <3>1
    <2>3. CASE stranded' = stranded \cup ({temp[d]} \ {Nothing}) /\ UNCHANGED <<home, temp>>
      BY <1>0, <1>c, <2>1, <2>3, NothingIsNoItem
    <2>4. QED
      BY <1>4, <2>2, <2>3 DEF Restore
  <1>5. QED
    BY <1>1, <1>2, <1>3, <1>4

LEMMA StepInv ==
    ASSUME NEW r, Threads = {r}, IInv(r), [Next]_vars
    PROVE  IInv(r)'
  <1>0. TypeOK' /\ r \in Threads
    BY StepType DEF IInv
  <1>1. CASE PowerLoss
    <2>1. /\ pc'[r] = "gone" /\ UNCHANGED <<home, temp>>
          /\ stranded' = stranded \cup ({temp[d] : d \in Temps} \ {Nothing})
      BY <1>0, <1>1 DEF PowerLoss, All, fileVars
    <2>2. \A i \in Items \ stranded' : home[i] = i
      <3> SUFFICES ASSUME NEW i \in Items \ stranded', home[i] # i PROVE FALSE
        OBVIOUS
      <3>1. i \notin stranded /\ cur[r] = i /\ pc[r] \in InHand
        BY <2>1 DEF IInv, RestoresOnError
      <3>2. temp[TempOf(i)] = i /\ TempOf(i) \in Temps
        BY <3>1, TempOfType DEF IInv, CurIsThere
      <3>3. QED
        BY <2>1, <3>2, NothingIsNoItem
    <2>3. QED
      BY <1>0, <2>1, <2>2
      DEF IInv, HomesOwn, TempsInHand, CurIsThere, RestoresOnError, InHand
  <1>2. CASE Press(r) \/ Reset(r) \/ Raise(r) \/ LastEntry(r) \/ Report(r) \/ Lower(r)
    <2>1. /\ UNCHANGED <<home, temp, stranded>>
          /\ pc[r] \notin InHand /\ pc'[r] \notin InHand \cup {"clear", "out"}
      BY <1>0, <1>2
      DEF Press, Reset, Raise, LastEntry, Report, Lower, Goto, InHand, IInv, TypeOK,
          fileVars, history
    <2>2. QED
      BY <1>0, <2>1, FilesStay
  <1>3. CASE Entry(r)
    <2>1. PICK i \in OfKind(kind[r]) :
             home[i] # Nothing /\ cur' = [cur EXCEPT ![r] = i]
      BY <1>3 DEF Entry
    <2>2. i \in Items /\ home[i] = i /\ cur'[r] = i
      BY <1>0, <2>1, OfKindType DEF IInv, TypeOK, HomesOwn
    <2>3. /\ UNCHANGED <<home, temp, stranded>>
          /\ pc[r] \notin InHand /\ pc'[r] \notin InHand
      BY <1>0, <1>3 DEF Entry, Goto, InHand, IInv, TypeOK, fileVars, history
    <2>4. QED
      BY <1>0, <2>2, <2>3, FilesStay
  <1>4. CASE Clear(r) \/ MoveOut(r) \/ Promote(r) \/ Restore(r)
    BY <1>0, <1>4, MovesInv
  <1>5. CASE UNCHANGED vars
    BY <1>0, <1>5
    DEF IInv, TypeOK, HomesOwn, TempsInHand, CurIsThere, RestoresOnError, vars, fileVars,
        threadVars, history
  <1>6. QED
    BY <1>1, <1>2, <1>3, <1>4, <1>5 DEF Next, ThreadNext

\* "Restore folder on error": with one thread at a time, whatever fails, an item that has
\* not been stranded is at home or in the hands of the thread.
THEOREM RestoredOnError ==
    ASSUME NEW r, Threads = {r}
    PROVE  Spec => []RestoresOnError
  <1>1. Init => IInv(r)
    BY InitInv
  <1>2. IInv(r) /\ [Next]_vars => IInv(r)'
    BY StepInv
  <1>3. IInv(r) => RestoresOnError
    BY DEF IInv
  <1>4. QED
    BY <1>1, <1>2, <1>3, PTL DEF Spec

-----------------------------------------------------------------------------
(***************************************************************************)
(* The count.  An item is promoted at most once in a refresh, since its    *)
(* directory entry is read once; and as long as the temporary directories  *)
(* can be cleared, what is promoted from one is what was moved there.      *)
(***************************************************************************)
OnceEach(r) ==
    /\ done[r] \subseteq seen[r]
    /\ pc[r] \in {"clear", "out", "promote"} => cur[r] \in seen[r] \ done[r]

Cleared(r) ==
    ~blocked => /\ pc[r] = "out" => temp[TempOf(cur[r])] = Nothing
                /\ pc[r] = "promote" => temp[TempOf(cur[r])] \in {cur[r], Nothing}

Counted(r) ==
    ~blocked => /\ refreshed[r] <= Cardinality(done[r])
                /\ ~late[r] => refreshed[r] = Cardinality(done[r])

Told(r) == pc[r] = "lower" => nbrRefreshItem = refreshed[r]

CountInv(r) == OnceEach(r) /\ Cleared(r) /\ Counted(r) /\ Told(r)

\* A step that promotes nothing and is not about an item leaves the count.
LEMMA CountStays ==
    ASSUME NEW r, CountInv(r),
           UNCHANGED <<blocked, counts>>, seen[r] \subseteq seen'[r],
           pc'[r] \notin {"clear", "out", "promote", "lower"}
    PROVE  CountInv(r)'
  BY DEF CountInv, OnceEach, Cleared, Counted, Told, counts

LEMMA PromoteCounts ==
    ASSUME NEW r, Threads = {r}, IInv(r), CountInv(r), Promote(r)
    PROVE  CountInv(r)'
  <1> DEFINE i == cur[r]
             d == TempOf(i)
  <1>0. /\ r \in Threads /\ pc[r] = "promote" /\ i \in Items
        /\ UNCHANGED <<blocked, seen, cur>>
    BY DEF Promote, Goto, IInv, TypeOK, history
  <1>1. CASE /\ pc' = [pc EXCEPT ![r] = "restore"]
             /\ UNCHANGED counts
    <2>1. pc'[r] = "restore"
      BY <1>0, <1>1 DEF IInv, TypeOK
    <2>2. QED
      BY <1>0, <1>1, <2>1, CountStays
  <1>2. CASE /\ Import(r, d)
             /\ \/ refreshed' = [refreshed EXCEPT ![r] = @ + 1] /\ UNCHANGED late
                \/ UNCHANGED refreshed /\ late' = [late EXCEPT ![r] = TRUE]
    <2>1. /\ done'[r] = done[r] \cup ({i} \cap {temp[d]})
          /\ done[r] \subseteq Items /\ refreshed[r] \in Nat
          /\ pc'[r] \in {"dir", "restore"}
          /\ \/ refreshed'[r] = refreshed[r] + 1 /\ late'[r] = late[r]
             \/ refreshed'[r] = refreshed[r] /\ late'[r] = TRUE
      <3>1. done'[r] = done[r] \cup ({i} \cap {temp[d]})
        BY <1>0, <1>2 DEF Import, IInv, TypeOK
      <3>2. pc'[r] \in {"dir", "restore"}
        BY <1>0 DEF Promote, Goto, IInv, TypeOK
      <3>3. QED
        BY <1>0, <1>2, <3>1, <3>2 DEF IInv, TypeOK
    <2>2. ASSUME ~blocked
          PROVE  /\ refreshed'[r] <= Cardinality(done'[r])
                 /\ ~late'[r] => refreshed'[r] = Cardinality(done'[r])
      <3>1. temp[d] = i
        BY <1>0, <1>2, <2>2 DEF CountInv, Cleared, Import
      <3>2. done'[r] = done[r] \cup {i} /\ i \notin done[r]
        BY <1>0, <2>1, <3>1 DEF CountInv, OnceEach
      <3>3. IsFiniteSet(done[r]) /\ Cardinality(done[r]) \in Nat
        BY <2>1, ItemsAreFinite, FS_Subset, FS_CardinalityType
      <3>4. Cardinality(done'[r]) = Cardinality(done[r]) + 1
        BY <3>2, <3>3, FS_AddElement
      <3>5. QED
        BY <2>1, <2>2, <3>3, <3>4 DEF CountInv, Counted
    <2>3. done'[r] \subseteq seen'[r]
      BY <1>0, <2>1 DEF CountInv, OnceEach
    <2>4. QED
      BY <1>0, <2>1, <2>2, <2>3 DEF CountInv, OnceEach, Cleared, Counted, Told
  <1>3. QED
    BY <1>1, <1>2 DEF Promote, Goto, counts

\* What leads to a promotion keeps the item's directory entry read, and clears the way.
LEMMA MovesCount ==
    ASSUME NEW r, Threads = {r}, IInv(r), CountInv(r),
           Entry(r) \/ Clear(r) \/ MoveOut(r) \/ Restore(r)
    PROVE  CountInv(r)'
  <1>0. r \in Threads /\ TypeOK
    BY DEF IInv
  <1>1. CASE Entry(r)
    <2>1. PICK i \in OfKind(kind[r]) \ seen[r] :
             cur' = [cur EXCEPT ![r] = i] /\ seen' = [seen EXCEPT ![r] = @ \cup {i}]
      BY <1>1 DEF Entry
    <2>2. cur'[r] = i /\ i \notin seen[r] /\ seen'[r] = seen[r] \cup {i}
      BY <1>0, <2>1 DEF TypeOK
    <2>3. pc'[r] \in {"dir", "clear"} /\ UNCHANGED <<blocked, counts>>
      BY <1>0, <1>1 DEF Entry, Goto, TypeOK, history
    <2>4. QED
      BY <2>2, <2>3 DEF CountInv, OnceEach, Cleared, Counted, Told, counts
  <1>2. CASE Clear(r)
    <2>1. pc[r] = "clear" /\ pc'[r] = "out" /\ UNCHANGED <<cur, seen, counts>>
      BY <1>0, <1>2 DEF Clear, Goto, TypeOK
    <2>2. TempOf(cur[r]) \in Temps
      BY <1>0, <2>1, TempOfType DEF TypeOK
    <2>3. ~blocked' => ~blocked /\ temp'[TempOf(cur[r])] = Nothing
      BY <1>0, <1>2, <2>2 DEF Clear, TypeOK
    <2>4. QED
      BY <2>1, <2>3 DEF CountInv, OnceEach, Cleared, Counted, Told, counts
  <1>3. CASE MoveOut(r)
    <2>1. pc[r] = "out" /\ pc'[r] = "promote" /\ UNCHANGED <<cur, seen, counts, blocked>>
      BY <1>0, <1>3 DEF MoveOut, Goto, TypeOK, history
    <2>2. TempOf(cur[r]) \in Temps /\ home[cur[r]] = cur[r]
      BY <1>0, <2>1, TempOfType DEF TypeOK, IInv, CurIsThere
    <2>3. temp'[TempOf(cur[r])] \in {temp[TempOf(cur[r])], cur[r]}
      BY <1>0, <1>3, <2>2 DEF MoveOut, TypeOK
    <2>4. QED
      BY <2>1, <2>3 DEF CountInv, OnceEach, Cleared, Counted, Told, counts
  <1>4. CASE Restore(r)
    <2>1. pc'[r] = "dir" /\ UNCHANGED <<blocked, counts, seen>>
      BY <1>0, <1>4 DEF Restore, Goto, TypeOK
    <2>2. QED
      BY <2>1, CountStays
  <1>5. QED
    BY <1>1, <1>2, <1>3, <1>4

LEMMA StepCount ==
    ASSUME NEW r, Threads = {r}, IInv(r), CountInv(r), [Next]_vars
    PROVE  CountInv(r)'
  <1>0. r \in Threads /\ TypeOK
    BY DEF IInv
  <1>1. CASE PowerLoss
    <2>1. pc'[r] = "gone" /\ refreshed'[r] = 0 /\ done'[r] = {} /\ seen'[r] = {}
      BY <1>0, <1>1 DEF PowerLoss, All
    <2>2. QED
      BY <2>1, FS_EmptySet DEF CountInv, OnceEach, Cleared, Counted, Told, counts
  <1>2. CASE Reset(r)
    <2>1. pc'[r] = "raise" /\ refreshed'[r] = 0 /\ done'[r] = {} /\ seen'[r] = {}
      BY <1>0, <1>2 DEF Reset, Goto, TypeOK
    <2>2. QED
      BY <2>1, FS_EmptySet DEF CountInv, OnceEach, Cleared, Counted, Told, counts
  <1>3. CASE Press(r) \/ Raise(r) \/ LastEntry(r) \/ Lower(r)
    <2>1. /\ pc'[r] \in {"reset", "dir", "report", "gone"}
          /\ UNCHANGED <<blocked, counts, seen>>
      BY <1>0, <1>3 DEF Press, Raise, LastEntry, Lower, Goto, TypeOK, history
    <2>2. QED
      BY <2>1, CountStays
  <1>4. CASE Report(r)
    <2>1. pc'[r] = "lower" /\ nbrRefreshItem' = refreshed[r]
          /\ UNCHANGED <<blocked, counts, seen>>
      BY <1>0, <1>4 DEF Report, Goto, TypeOK, history
    <2>2. QED
      BY <2>1 DEF CountInv, OnceEach, Cleared, Counted, Told, counts
  <1>5. CASE Entry(r) \/ Clear(r) \/ MoveOut(r) \/ Promote(r) \/ Restore(r)
    BY <1>5, MovesCount, PromoteCounts
  <1>6. CASE UNCHANGED vars
    BY <1>6
    DEF vars, fileVars, flagVars, threadVars, counts, history, CountInv, OnceEach, Cleared, Counted,
        Told
  <1>7. QED
    BY <1>1, <1>2, <1>3, <1>4, <1>5, <1>6 DEF Next, ThreadNext

\* With one thread at a time, a refresh reports no more items than it promoted, and
\* no fewer unless a call failed after a promotion, if nothing left in a temporary
\* directory resisted its removal.
THEOREM CountsTruly ==
    ASSUME NEW r, Threads = {r}
    PROVE  Spec => []CountIsTrue
  <1>1. Init => IInv(r) /\ CountInv(r)
    <2> SUFFICES ASSUME Init PROVE IInv(r) /\ CountInv(r)
      OBVIOUS
    <2>1. pc[r] = "gone" /\ refreshed[r] = 0 /\ done[r] = {}
      BY DEF Init, All
    <2>2. QED
      BY <2>1, InitInv, FS_EmptySet DEF CountInv, OnceEach, Cleared, Counted, Told, counts
  <1>2. IInv(r) /\ CountInv(r) /\ [Next]_vars => (IInv(r) /\ CountInv(r))'
    BY StepInv, StepCount
  <1>3. IInv(r) /\ CountInv(r) => CountIsTrue
    BY DEF CountInv, Counted, Told, CountIsTrue
  <1>4. QED
    BY <1>1, <1>2, <1>3, PTL DEF Spec
=============================================================================
