--------------------------- MODULE FtpPathsProofs ---------------------------
(***************************************************************************)
(* Proofs about FtpPaths, for any clients, devices, names and depth.       *)
(*                                                                         *)
(* cur_path is either where the client takes itself to be or "/", where    *)
(* no relative path leads anywhere (Anchored).  So a command that finds    *)
(* what it is given finds what the client means, and only a directory      *)
(* entered with a slash ever puts the two apart.                           *)
(***************************************************************************)
EXTENDS FtpPaths, SequenceTheorems, TLAPS

(***************************************************************************)
(* Paths                                                                   *)
(***************************************************************************)
Parts == Devices \cup Names

LEMMA PlacesAre ==
    \A p : p \in Places <=> /\ p \in Seq(Parts) /\ Len(p) \in 1..Depth /\ p[1] \in Devices
                            /\ \A i \in 2..Len(p) : p[i] \in Names
<1> TAKE p
<1>1. ASSUME p \in Places
      PROVE  /\ p \in Seq(Parts) /\ Len(p) \in 1..Depth /\ p[1] \in Devices
             /\ \A i \in 2..Len(p) : p[i] \in Names
  <2>1. PICK n \in 1..Depth : p \in [1..n -> Parts]
    BY <1>1 DEF Places, Parts
  <2>2. n \in Nat
    BY DepthIsPositive
  <2>3. p \in Seq(Parts) /\ Len(p) = n
    BY <2>1, <2>2
  <2> QED
    BY <1>1, <2>3 DEF Places
<1>2. ASSUME p \in Seq(Parts), Len(p) \in 1..Depth, p[1] \in Devices,
             \A i \in 2..Len(p) : p[i] \in Names
      PROVE  p \in Places
  <2>1. p \in [1..Len(p) -> Parts]
    BY <1>2, LenProperties
  <2> QED
    BY <1>2, <2>1 DEF Places, Parts
<1> QED
  BY <1>1, <1>2

LEMMA WordsAre ==
    ASSUME NEW a \in Args
    PROVE  /\ a.names \in Seq(Parts) /\ Len(a.names) > 0
           /\ a.full => a.names[1] \in Devices
<1>1. a.names \in Words /\ (a.full => a.names[1] \in Devices)
  BY DEF Args
<1>2. CASE a.names \in Places
  BY <1>1, <1>2, PlacesAre, DepthIsPositive
<1>3. ASSUME NEW n \in 1..(Depth - 1), a.names \in [1..n -> Names]
      PROVE  a.names \in Seq(Parts) /\ Len(a.names) > 0
  <2>1. n \in Nat /\ n > 0
    BY DepthIsPositive
  <2>2. a.names \in [1..n -> Parts]
    BY <1>3 DEF Parts
  <2> QED
    BY <2>1, <2>2
<1> QED
  BY <1>1, <1>2, <1>3 DEF Words

\* Up from a place is a place, or "/".
LEMMA FrontOfPlace ==
    ASSUME NEW p \in Places
    PROVE  /\ Front(p) \in Places \cup {<<>>}
           /\ Front(p) = <<>> <=> Len(p) = 1
           /\ Len(p) > 1 => Len(Front(p)) = Len(p) - 1
<1>1. /\ p \in Seq(Parts) /\ Len(p) \in 1..Depth /\ Len(p) \in Nat /\ Len(p) >= 1
      /\ p[1] \in Devices /\ \A i \in 2..Len(p) : p[i] \in Names
  BY PlacesAre, DepthIsPositive, LenProperties
<1>2. CASE Len(p) = 1
  <2>1. Front(p) = <<>>
    BY <1>2, SubSeqEmpty DEF Front
  <2> QED
    BY <1>2, <2>1
<1>3. CASE Len(p) > 1
  <2>1. \A i \in 1..(Len(p) - 1) : p[i] \in Parts
    BY <1>1, ElementOfSeq
  <2>2. /\ Front(p) \in Seq(Parts) /\ Len(Front(p)) = Len(p) - 1
        /\ \A i \in 1..(Len(p) - 1) : Front(p)[i] = p[i]
    BY <1>1, <1>3, <2>1, SubSeqProperties DEF Front
  <2>3. Front(p) \in Places
    <3>1. Len(Front(p)) \in 1..Depth
      BY <1>1, <1>3, <2>2, DepthIsPositive
    <3>2. Front(p)[1] \in Devices
      BY <1>1, <1>3, <2>2
    <3>3. \A i \in 2..Len(Front(p)) : Front(p)[i] \in Names
      BY <1>1, <2>2
    <3> QED
      BY <2>2, <3>1, <3>2, <3>3, PlacesAre
  <2>4. Front(p) # <<>>
    BY <1>1, <1>3, <2>2, EmptySeq
  <2> QED
    BY <1>3, <2>2, <2>3, <2>4
<1>4. Len(p) = 1 \/ Len(p) > 1
  BY <1>1
<1> QED
  BY <1>2, <1>3, <1>4

\* Below "/" are the devices only, and nowhere else are any.
LEMMA Below ==
    ASSUME NEW p \in Places \cup {<<>>}, NEW n \in Seq(Parts), Len(n) > 0, p \o n \in Places
    PROVE  /\ p = <<>> <=> n[1] \in Devices
           /\ p = <<>> => p \o n = n
<1>1. CASE p = <<>>
  <2>1. p \o n = n
    BY <1>1, ConcatEmptySeq
  <2>2. n \in Places
    BY <2>1
  <2>3. n[1] \in Devices
    BY <2>2, PlacesAre
  <2> QED
    BY <1>1, <2>1, <2>3
<1>2. CASE p \in Places
  <2>1. p \in Seq(Parts) /\ Len(p) \in Nat /\ Len(p) >= 1 /\ Len(n) \in Nat
    BY <1>2, PlacesAre, DepthIsPositive, LenProperties
  <2>2. Len(p \o n) = Len(p) + Len(n) /\ (p \o n)[Len(p) + 1] = n[1]
    BY <2>1, ConcatProperties
  <2>3. (p \o n)[Len(p) + 1] \in Names
    <3>1. Len(p) + 1 \in 2..Len(p \o n)
      BY <2>1, <2>2
    <3>2. \A i \in 2..Len(p \o n) : (p \o n)[i] \in Names
      BY PlacesAre
    <3> QED
      BY <3>1, <3>2
  <2>4. p # <<>>
    BY <2>1, EmptySeq
  <2> QED
    BY <2>2, <2>3, <2>4, DevicesAreNoNames
<1> QED
  BY <1>1, <1>2

(***************************************************************************)
(* The invariant                                                           *)
(***************************************************************************)
Anchored == \A c \in Clients : curPath[c].names \in {<<>>, here[c]}

\* Of what has been entered without a slash, only "/" and a device's root end in one.
NoSlash ==
    \A c \in Clients : "slash" \notin mishaps[c] =>
        /\ curPath[c].names = here[c]
        /\ curPath[c].slash => Len(curPath[c].names) <= 1

Remembered == \A c \in Clients : asked[c] # Nowhere => renamePath[c] = asked[c]

IInv == TypeOK /\ Anchored /\ NoSlash /\ Remembered /\ ChangesWhatItNamed

\* Whatever a command finds is what its client means.
LEMMA FoundIsMeant ==
    ASSUME TypeOK, Anchored, NEW c \in Clients, NEW a \in Args, FullPath(c, a) \in Places
    PROVE  FullPath(c, a) = Meant(c, a)
<1>1. /\ a.names \in Seq(Parts) /\ Len(a.names) > 0
      /\ a.full => a.names[1] \in Devices
  BY WordsAre
<1>2. curPath[c].names \in Places \cup {<<>>}
  BY DEF TypeOK
<1>3. Nowhere \notin Places
  BY PlacesAre, EmptySeq DEF Nowhere
<1>4. CASE a.full \/ WithDevice(a)
  BY <1>4, ShortAreDevices DEF FullPath, Meant, WithDevice
<1>5. CASE ~(a.full \/ WithDevice(a))
  <2>1. curPath[c].names # <<>> /\ FullPath(c, a) = curPath[c].names \o a.names
    BY <1>3, <1>5 DEF FullPath
  <2>2. a.names[1] \notin Devices
    BY <1>1, <1>2, <2>1, Below
  <2>3. curPath[c].names = here[c]
    BY <2>1 DEF Anchored
  <2> QED
    BY <1>5, <2>1, <2>2, <2>3 DEF Meant
<1> QED
  BY <1>4, <1>5

LEMMA TriedIsMeant ==
    ASSUME TypeOK, Anchored, NEW c \in Clients, NEW a \in Args, Tried(c, a).names \in Places
    PROVE  Tried(c, a).names = Meant(c, a)
<1>1. /\ a.names \in Seq(Parts) /\ Len(a.names) > 0
      /\ a.full => a.names[1] \in Devices
  BY WordsAre
<1>2. curPath[c].names \in Places \cup {<<>>}
  BY DEF TypeOK
<1>3. CASE a.full
  BY <1>3 DEF Tried, Meant
<1>4. CASE ~a.full
  <2>1. Tried(c, a).names = curPath[c].names \o a.names
    BY <1>4 DEF Tried
  <2>2. /\ curPath[c].names = <<>> <=> a.names[1] \in Devices
        /\ curPath[c].names = <<>> => curPath[c].names \o a.names = a.names
    BY <1>1, <1>2, <2>1, Below
  <2>3. CASE a.names[1] \in Devices
    BY <1>4, <2>1, <2>2, <2>3 DEF Meant
  <2>4. CASE a.names[1] \notin Devices
    BY <1>4, <2>1, <2>2, <2>4 DEF Meant, Anchored
  <2> QED
    BY <2>3, <2>4
<1> QED
  BY <1>3, <1>4

(***************************************************************************)
(* The file system keeps its devices                                       *)
(***************************************************************************)
TreeOK == tree \in [Places -> Kinds] /\ \A d \in Devices : tree[<<d>>] = "dir"

LEMMA DevicePlace ==
    /\ \A d \in Devices : <<d>> \in Places /\ Len(<<d>>) = 1
    /\ \A p \in Places : Len(p) > 1 \/ \E d \in Devices : p = <<d>>
<1>1. ASSUME NEW d \in Devices
      PROVE  <<d>> \in Places /\ Len(<<d>>) = 1
  <2>1. <<d>> \in Seq(Parts) /\ Len(<<d>>) = 1 /\ <<d>>[1] = d
    BY DEF Parts
  <2>2. Len(<<d>>) \in 1..Depth /\ \A i \in 2..Len(<<d>>) : <<d>>[i] \in Names
    BY <2>1, DepthIsPositive
  <2> QED
    BY <2>1, <2>2, PlacesAre
<1>2. ASSUME NEW p \in Places, ~(Len(p) > 1)
      PROVE  p = <<p[1]>> /\ p[1] \in Devices
  <2>1. p \in Seq(Parts) /\ Len(p) = 1 /\ p[1] \in Devices
    <3>1. p \in Seq(Parts) /\ p[1] \in Devices
      BY PlacesAre
    <3>2. Len(p) \in Nat /\ Len(p) >= 1
      BY PlacesAre, DepthIsPositive, LenProperties
    <3>3. Len(p) = 1 \/ Len(p) > 1
      BY <3>1, <3>2
    <3> QED
      BY <1>2, <3>1, <3>3
  <2>2. <<p[1]>> \in Seq(Parts) /\ Len(<<p[1]>>) = 1 /\ <<p[1]>>[1] = p[1]
    BY <2>1 DEF Parts
  <2>3. \A i \in 1..Len(p) : p[i] = <<p[1]>>[i]
    BY <2>1, <2>2
  <2> QED
    BY <2>1, <2>2, <2>3, SeqEqual
<1> QED
  BY <1>1, <1>2

LEMMA TreeStep ==
    ASSUME TreeOK, NEW p \in Places, Len(p) > 1, NEW k \in Kinds,
           tree' = [tree EXCEPT ![p] = k]
    PROVE  TreeOK'
<1>1. ASSUME NEW d \in Devices, <<d>> = p PROVE FALSE
  <2>1. Len(p) = 1
    BY <1>1, DevicePlace
  <2> QED
    BY <2>1
<1> QED
  BY <1>1, DevicePlace DEF TreeOK

LEMMA FileIsBelow ==
    ASSUME TreeOK, NEW p, Is(p, "file")
    PROVE  Len(p) > 1
BY DevicePlace DEF TreeOK, Is

LEMMA RenameStep ==
    ASSUME TreeOK, NEW s, NEW d, CanRename(s, d), Renamed(s, d)
    PROVE  TreeOK'
<1>1. Len(s) > 1 /\ Len(d) > 1 /\ s \in Places /\ d \in Places
  BY DEF CanRename, CanMake, Exists
<1>2. tree' \in [Places -> Kinds]
  <2> DEFINE Q(p) == s \o SubSeq(p, Len(d) + 1, Len(p))
             T(p) == IF IsPrefix(s, p) THEN "none"
                     ELSE IF IsPrefix(d, p) THEN IF Q(p) \in Places THEN tree[Q(p)] ELSE "none"
                     ELSE tree[p]
  <2>1. tree' = [p \in Places |-> T(p)]
    BY DEF Renamed
  <2>2. \A p \in Places : T(p) \in Kinds
    <3> HIDE DEF Q
    <3> QED
      BY DEF TreeOK, Kinds
  <2> HIDE DEF T
  <2> QED
    BY <2>1, <2>2
<1>3. ASSUME NEW e \in Devices
      PROVE  tree'[<<e>>] = "dir"
  <2>1. <<e>> \in Places /\ Len(<<e>>) = 1
    BY DevicePlace
  <2>2. s \in Seq(Parts) /\ d \in Seq(Parts) /\ Len(s) \in Nat /\ Len(d) \in Nat
    BY <1>1, PlacesAre, LenProperties
  <2>3. ~IsPrefix(s, <<e>>) /\ ~IsPrefix(d, <<e>>)
    BY <1>1, <2>1, <2>2 DEF IsPrefix
  <2>4. tree'[<<e>>] = tree[<<e>>]
    BY <2>1, <2>3 DEF Renamed
  <2> QED
    BY <2>4 DEF TreeOK
<1> QED
  BY <1>2, <1>3 DEF TreeOK

(***************************************************************************)
(* The invariant holds at first, and each command keeps it                 *)
(***************************************************************************)
LEMMA InitIInv == Init => IInv
<1> SUFFICES ASSUME Init PROVE IInv
  OBVIOUS
<1>1. tree \in [Places -> Kinds]
  BY DEF Init, Kinds
<1>2. \A d \in Devices : tree[<<d>>] = "dir"
  BY DevicePlace DEF Init
<1>3. Root \in [names : Places \cup {<<>>}, slash : BOOLEAN] /\ Root.names = <<>> /\ Root.slash
  BY DEF Root
<1>4. TypeOK
  BY <1>1, <1>2, <1>3 DEF Init, TypeOK
<1> QED
  BY <1>3, <1>4, EmptySeq DEF Init, IInv, Anchored, NoSlash, Remembered, ChangesWhatItNamed

LEMMA EnterStep ==
    ASSUME IInv, NEW c \in Clients, NEW a \in Args, Enter(c, a)
    PROVE  IInv'
<1> DEFINE t == Tried(c, a)
<1>1. TypeOK /\ Anchored /\ t.names \in Places /\ t.names = Meant(c, a)
  BY TriedIsMeant DEF IInv, Enter, Is
<1>2. /\ t \in [names : Places \cup {<<>>}, slash : BOOLEAN]
      /\ t.slash <=> a.slash \/ Len(t.names) = 1
  BY <1>1 DEF Tried, Args
<1>3. Len(t.names) = 1 \/ Len(t.names) > 1
  BY <1>1, DevicePlace
<1>4. /\ curPath' = [curPath EXCEPT ![c] = t] /\ here' = [here EXCEPT ![c] = t.names]
      /\ mishaps' = [mishaps EXCEPT ![c] = @ \cup IF a.slash /\ Len(t.names) > 1
                                                    THEN {"slash"} ELSE {}]
      /\ UNCHANGED <<tree, renamePath, asked, astray>>
  BY <1>1 DEF Enter, Mishap
<1> HIDE DEF t
<1>5. TypeOK'
  <2>1. Len(t.names) <= 1 => t.slash
    BY <1>2, <1>3
  <2> QED
    BY <1>1, <1>2, <1>4, <2>1 DEF TypeOK
<1>6. NoSlash'
  <2> SUFFICES ASSUME NEW e \in Clients, "slash" \notin mishaps'[e]
               PROVE  /\ curPath'[e].names = here'[e]
                      /\ curPath'[e].slash => Len(curPath'[e].names) <= 1
    BY DEF NoSlash
  <2>1. CASE e = c
    <3>1. ~(a.slash /\ Len(t.names) > 1)
      BY <1>1, <1>4, <2>1 DEF TypeOK
    <3>2. CASE Len(t.names) > 1
      <4>1. Len(t.names) # 1
        BY <1>1, <3>2, PlacesAre, LenProperties
      <4>2. ~t.slash
        BY <1>2, <3>1, <3>2, <4>1
      <4> QED
        BY <1>1, <1>4, <2>1, <4>2 DEF TypeOK
    <3>3. CASE Len(t.names) = 1
      <4>1. curPath'[e] = t /\ here'[e] = t.names
        BY <1>1, <1>4, <2>1 DEF TypeOK
      <4>2. Len(t.names) <= 1
        BY <3>3
      <4> QED
        BY <4>1, <4>2
    <3> QED
      BY <1>3, <3>2, <3>3
  <2>2. CASE e # c
    BY <1>1, <1>4, <2>2 DEF TypeOK, IInv, NoSlash
  <2> QED
    BY <2>1, <2>2
<1>7. Anchored' /\ Remembered' /\ ChangesWhatItNamed'
  BY <1>1, <1>4 DEF TypeOK, IInv, Anchored, Remembered, ChangesWhatItNamed
<1> QED
  BY <1>5, <1>6, <1>7 DEF IInv

LEMMA GoStep ==
    ASSUME IInv, NEW c \in Clients, GoUp(c) \/ GoRoot(c)
    PROVE  IInv'
<1>1. TypeOK /\ Anchored /\ NoSlash
  BY DEF IInv
<1>2. /\ Root \in [names : Places \cup {<<>>}, slash : BOOLEAN]
      /\ Root.names = <<>> /\ Root.slash /\ Len(Root.names) = 0
  BY DEF Root
<1>3. PICK q \in [names : Places \cup {<<>>}, slash : BOOLEAN], h \in Places \cup {<<>>} :
         /\ curPath' = [curPath EXCEPT ![c] = q] /\ here' = [here EXCEPT ![c] = h]
         /\ Len(q.names) <= 1 => q.slash
         /\ q.names \in {<<>>, h}
         /\ "slash" \notin mishaps[c] => q.names = h /\ (q.slash => Len(q.names) <= 1)
  <2>1. CASE GoRoot(c)
    <3>1. curPath' = [curPath EXCEPT ![c] = Root] /\ here' = [here EXCEPT ![c] = <<>>]
      BY <2>1 DEF GoRoot
    <3> USE <1>2
    <3> WITNESS Root \in [names : Places \cup {<<>>}, slash : BOOLEAN], <<>> \in Places \cup {<<>>}
    <3> QED
      BY <1>2, <3>1
  <2>2. CASE GoUp(c)
    <3> DEFINE n == curPath[c].names
               h == IF here[c] = <<>> THEN <<>> ELSE Front(here[c])
    <3>1. n \in Places \cup {<<>>} /\ here[c] \in Places \cup {<<>>} /\ n \in {<<>>, here[c]}
      BY <1>1 DEF TypeOK, Anchored
    <3>2. curPath' = [curPath EXCEPT ![c] = DirUp(curPath[c])] /\ here' = [here EXCEPT ![c] = h]
      BY <1>1, <2>2 DEF GoUp, TypeOK
    <3>3. h \in Places \cup {<<>>}
      BY <3>1, FrontOfPlace
    <3>4. CASE n = <<>> \/ AtRoot(curPath[c])
      <4>1. DirUp(curPath[c]) = Root
        BY <3>4 DEF DirUp
      <4>2. "slash" \notin mishaps[c] => h = <<>>
        <5> SUFFICES ASSUME "slash" \notin mishaps[c], here[c] # <<>> PROVE h = <<>>
          OBVIOUS
        <5>1. here[c] \in Places /\ n = here[c] /\ Len(n) <= 1
          BY <1>1, <3>1, <3>4 DEF NoSlash, AtRoot
        <5>2. Len(here[c]) = 1
          BY <5>1, DevicePlace
        <5> QED
          BY <5>1, <5>2, FrontOfPlace
      <4>3. curPath' = [curPath EXCEPT ![c] = Root] /\ here' = [here EXCEPT ![c] = h]
        BY <3>2, <4>1
      <4> HIDE DEF h
      <4> USE <1>2, <3>3
      <4> WITNESS Root \in [names : Places \cup {<<>>}, slash : BOOLEAN], h \in Places \cup {<<>>}
      <4> QED
        BY <1>2, <4>2, <4>3
    <3>5. CASE ~(n = <<>> \/ AtRoot(curPath[c]))
      <4>1. n \in Places /\ n = here[c] /\ h = Front(n)
        BY <3>1, <3>5
      <4>2. DirUp(curPath[c]) = [names |-> Front(n), slash |-> Len(n) = 2]
        BY <3>5 DEF DirUp
      <4>3. Len(n) > 1 /\ Len(n) \in Nat
        <5>1. ~(Len(n) <= 1)
          BY <1>1, <3>5 DEF TypeOK, AtRoot
        <5>2. Len(n) = 1 \/ Len(n) > 1
          BY <4>1, DevicePlace
        <5>3. Len(n) \in Nat
          BY <4>1, PlacesAre, LenProperties
        <5> QED
          BY <5>1, <5>2, <5>3
      <4>4. Len(Front(n)) = Len(n) - 1
        BY <4>1, <4>3, FrontOfPlace
      <4>5. (Len(Front(n)) <= 1) <=> (Len(n) = 2)
        <5>1. ASSUME NEW k \in Nat, k > 1, NEW m, m = k - 1
              PROVE  (m <= 1) <=> (k = 2)
          BY <5>1
        <5> QED
          BY <4>3, <4>4, <5>1, Zenon
      <4> DEFINE q == DirUp(curPath[c])
      <4>6. q.names = h /\ (q.slash <=> Len(q.names) <= 1)
        <5>1. q.names = h /\ q.slash = (Len(n) = 2)
          BY <4>1, <4>2
        <5> QED
          BY <4>1, <4>5, <5>1, Zenon
      <4>7. q \in [names : Places \cup {<<>>}, slash : BOOLEAN]
        BY <3>3, <4>1, <4>2
      <4>8. curPath' = [curPath EXCEPT ![c] = q] /\ here' = [here EXCEPT ![c] = h]
        BY <3>2
      <4> HIDE DEF q, h
      <4> USE <3>3, <4>7
      <4> WITNESS q \in [names : Places \cup {<<>>}, slash : BOOLEAN], h \in Places \cup {<<>>}
      <4> QED
        BY <4>6, <4>8
    <3> QED
      BY <3>4, <3>5
  <2> QED
    BY <2>1, <2>2
<1>4. UNCHANGED <<tree, renamePath, asked, mishaps, astray>>
  BY DEF GoUp, GoRoot
<1>5. TypeOK' /\ Anchored' /\ NoSlash'
  BY <1>1, <1>3, <1>4 DEF TypeOK, Anchored, NoSlash
<1> QED
  BY <1>4, <1>5 DEF IInv, Remembered, ChangesWhatItNamed

LEMMA TypeParts == TypeOK => TreeOK
BY DEF TypeOK, TreeOK

LEMMA ChangeKeeps ==
    ASSUME IInv, NEW c \in Clients, NEW p \in Places, Len(p) > 1, NEW k \in Kinds,
           Change(c, p, k, p)
    PROVE  IInv'
<1>1. TreeOK'
  BY TypeParts, TreeStep DEF IInv, Change
<1>2. astray' = astray /\ UNCHANGED <<curPath, renamePath, here, asked, mishaps>>
  BY DEF IInv, TypeOK, Change
<1> QED
  BY <1>1, <1>2 DEF IInv, TypeOK, TreeOK, Anchored, NoSlash, Remembered, ChangesWhatItNamed

LEMMA ChangeStep ==
    ASSUME IInv, NEW c \in Clients, NEW a \in Args, Mkd(c, a) \/ Rmd(c, a) \/ Dele(c, a)
    PROVE  IInv'
<1> DEFINE p == FullPath(c, a)
<1>1. CASE UNCHANGED vars
  BY <1>1 DEF vars, clientVars, IInv, TypeOK, Anchored, NoSlash, Remembered, ChangesWhatItNamed
<1>2. CASE ~UNCHANGED vars
  <2>1. PICK k \in Kinds : p \in Places /\ Len(p) > 1 /\ Change(c, p, k, Meant(c, a))
    BY <1>2, TypeParts, FileIsBelow DEF IInv, Mkd, Rmd, Dele, Refused, CanMake, CanRemove, Is, Kinds
  <2>2. p = Meant(c, a)
    BY <2>1, FoundIsMeant DEF IInv
  <2> HIDE DEF p
  <2> QED
    BY <2>1, <2>2, ChangeKeeps
<1> QED
  BY <1>1, <1>2

LEMMA RnfrStep ==
    ASSUME IInv, NEW c \in Clients, NEW a \in Args, Rnfr(c, a)
    PROVE  IInv'
<1>1. CASE Refused(c)
  BY <1>1 DEF Refused, vars, clientVars, IInv, TypeOK, Anchored, NoSlash, Remembered,
     ChangesWhatItNamed
<1>2. CASE ~Refused(c)
  <2>1. FullPath(c, a) \in Places
    BY <1>2 DEF Rnfr, Exists
  <2>2. FullPath(c, a) = Meant(c, a)
    BY <2>1, FoundIsMeant DEF IInv
  <2>3. /\ renamePath' = [renamePath EXCEPT ![c] = FullPath(c, a)]
        /\ asked' = [asked EXCEPT ![c] = FullPath(c, a)]
        /\ UNCHANGED <<tree, curPath, here, mishaps, astray>>
    BY <1>2, <2>2 DEF Rnfr
  <2> QED
    BY <2>1, <2>3 DEF IInv, TypeOK, Anchored, NoSlash, Remembered, ChangesWhatItNamed
<1> QED
  BY <1>1, <1>2

LEMMA RntoStep ==
    ASSUME IInv, NEW c \in Clients, NEW a \in Args, Rnto(c, a)
    PROVE  IInv'
<1> DEFINE s == renamePath[c]
           d == FullPath(c, a)
           unasked == IF asked[c] = Nowhere THEN {"unasked"} ELSE {}
<1>1. TypeOK /\ TreeOK
  BY TypeParts DEF IInv
<1>2. /\ asked' = [asked EXCEPT ![c] = Nowhere]
      /\ UNCHANGED <<curPath, renamePath, here>>
  BY DEF Rnto
<1>3. PICK m \in SUBSET {"unasked", "failed"} :
        /\ mishaps' = [mishaps EXCEPT ![c] = @ \cup m]
        /\ unasked \subseteq m
  <2>1. Mishap(c, unasked) \/ Mishap(c, unasked \cup {"failed"})
    BY DEF Rnto
  <2>2. /\ unasked \in SUBSET {"unasked", "failed"}
        /\ unasked \cup {"failed"} \in SUBSET {"unasked", "failed"}
    OBVIOUS
  <2> HIDE DEF unasked
  <2> QED
    BY <2>1, <2>2 DEF Mishap
<1>4. TreeOK' /\ (astray' = astray \/ astray' = [astray EXCEPT ![c] = @ \/ s # asked[c]])
  <2>1. CASE CanRename(s, d) /\ Renamed(s, d) /\
             astray' = [astray EXCEPT ![c] = @ \/ s # asked[c] \/ d # Meant(c, a)]
    <3>1. d = Meant(c, a)
      BY <2>1, FoundIsMeant DEF IInv, CanRename, CanMake
    <3>2. TreeOK'
      BY <1>1, <2>1, RenameStep
    <3> QED
      BY <2>1, <3>1, <3>2
  <2>2. CASE UNCHANGED <<tree, astray>>
    BY <1>1, <2>2 DEF TreeOK
  <2> QED
    BY <2>1, <2>2 DEF Rnto
<1>5. TypeOK'
  <2>1. astray' \in [Clients -> BOOLEAN]
    BY <1>1, <1>4, Zenon DEF TypeOK
  <2> QED
    BY <1>1, <1>2, <1>3, <1>4, <2>1 DEF TypeOK, TreeOK
<1>6. ChangesWhatItNamed'
  <2> SUFFICES ASSUME NEW e \in Clients, astray'[e] PROVE "unasked" \in mishaps'[e]
    BY DEF ChangesWhatItNamed
  <2>1. CASE astray[e]
    BY <1>1, <1>3, <2>1 DEF IInv, ChangesWhatItNamed, TypeOK
  <2>2. CASE ~astray[e]
    <3>1. e = c /\ s # asked[c]
      BY <1>1, <1>4, <2>2 DEF TypeOK
    <3>2. asked[c] = Nowhere
      BY <3>1 DEF IInv, Remembered
    <3> QED
      BY <1>1, <1>3, <3>1, <3>2 DEF TypeOK
  <2> QED
    BY <2>1, <2>2
<1>7. Anchored' /\ NoSlash' /\ Remembered'
  BY <1>1, <1>2, <1>3 DEF IInv, TypeOK, Anchored, NoSlash, Remembered
<1> QED
  BY <1>5, <1>6, <1>7 DEF IInv

LEMMA ConnectStep ==
    ASSUME IInv, NEW c \in Clients, Connect(c)
    PROVE  IInv'
<1>1. /\ Root \in [names : Places \cup {<<>>}, slash : BOOLEAN]
      /\ Root.names = <<>> /\ Root.slash /\ Len(Root.names) = 0
  BY DEF Root
<1> QED
  BY <1>1 DEF Connect, IInv, TypeOK, Anchored, NoSlash, Remembered, ChangesWhatItNamed

LEMMA ElsewhereStep ==
    ASSUME IInv, Elsewhere
    PROVE  IInv'
<1>1. PICK p \in Places, k \in Kinds : Len(p) > 1 /\ tree' = [tree EXCEPT ![p] = k]
  BY DEF Elsewhere, CanMake, CanRemove, Kinds
<1>2. TreeOK'
  BY <1>1, TypeParts, TreeStep DEF IInv
<1> QED
  BY <1>2 DEF Elsewhere, clientVars, IInv, TypeOK, TreeOK, Anchored, NoSlash, Remembered,
     ChangesWhatItNamed

LEMMA Step == IInv /\ [Next]_vars => IInv'
<1> SUFFICES ASSUME IInv, [Next]_vars PROVE IInv'
  OBVIOUS
<1>1. CASE UNCHANGED vars
  BY <1>1 DEF vars, clientVars, IInv, TypeOK, Anchored, NoSlash, Remembered, ChangesWhatItNamed
<1>2. ASSUME NEW c \in Clients, Command(c) PROVE IInv'
  <2>1. CASE GoUp(c) \/ GoRoot(c)
    BY <2>1, GoStep
  <2>2. ASSUME NEW a \in Args, Cwd(c, a) PROVE IInv'
    BY <1>1, <2>2, EnterStep DEF Cwd, Refused
  <2>3. ASSUME NEW a \in Args, Mkd(c, a) \/ Rmd(c, a) \/ Dele(c, a) PROVE IInv'
    BY <2>3, ChangeStep
  <2>4. ASSUME NEW a \in Args, Rnfr(c, a) \/ Rnto(c, a) PROVE IInv'
    BY <2>4, RnfrStep, RntoStep
  <2> QED
    BY <1>2, <2>1, <2>2, <2>3, <2>4 DEF Command
<1>3. ASSUME NEW c \in Clients, Connect(c) PROVE IInv'
  BY <1>3, ConnectStep
<1> QED
  BY <1>1, <1>2, <1>3, ElsewhereStep DEF Next

\* The types, and that only "/" and what is in it has to end in a slash.
THEOREM TypeCorrect == Spec => []TypeOK
<1>1. IInv => TypeOK
  BY DEF IInv
<1> QED
  BY <1>1, InitIInv, Step, PTL DEF Spec

\* Whatever others do to the files, and wherever a slash has taken the client,
\* no command changes anything but what its client named.
THEOREM ChangesOnlyWhatItNamed == Spec => []ChangesWhatItNamed
<1>1. IInv => ChangesWhatItNamed
  BY DEF IInv
<1> QED
  BY <1>1, InitIInv, Step, PTL DEF Spec

\* A client that writes no slash at the end is where it takes itself to be.
THEOREM StaysHere == Spec => []CurPathIsHere
<1>1. IInv => CurPathIsHere
  BY DEF IInv, NoSlash, CurPathIsHere
<1> QED
  BY <1>1, InitIInv, Step, PTL DEF Spec
=============================================================================
