---------------------------- MODULE FileTreeProofs ----------------------------
(***************************************************************************)
(* Proofs about FileTree, for file systems of any depth, any calls and any *)
(* number of threads: its types, that the file system stays a tree and no  *)
(* handle stays open; and of a call that nobody disturbs, whatever system  *)
(* calls fail, that it touches nothing outside of what it was called for   *)
(* and loses no file, and, but for the failures the code overlooks, that   *)
(* it leaves no file half copied and that what it returns is true.         *)
(***************************************************************************)
EXTENDS FileTree, TLAPS

(***************************************************************************)
(* Paths                                                                   *)
(***************************************************************************)
LEMMA PathsAreSequences == Paths \subseteq Seq(Names)
  BY DepthIsNat DEF Paths

\* A prefix, name by name.
LEMMA PrefixNames ==
    ASSUME NEW s \in Seq(Names), NEW p \in Seq(Names)
    PROVE  Within(p, s) <=> Len(s) <= Len(p) /\ \A i \in 1..Len(s) : s[i] = p[i]
  <1>1. ASSUME Within(p, s) PROVE Len(s) <= Len(p) /\ \A i \in 1..Len(s) : s[i] = p[i]
    <2>1. Len(s) <= Len(p) /\ SubSeq(s, 1, Len(s)) = SubSeq(p, 1, Len(s))
      BY <1>1 DEF Within, IsPrefix
    <2>2. ASSUME NEW i \in 1..Len(s)
          PROVE  SubSeq(s, 1, Len(s))[i] = s[i] /\ SubSeq(p, 1, Len(s))[i] = p[i]
      BY <2>1
    <2>3. QED
      BY <2>1, <2>2
  <1>2. ASSUME Len(s) <= Len(p), \A i \in 1..Len(s) : s[i] = p[i] PROVE Within(p, s)
    <2>1. SubSeq(s, 1, Len(s)) = SubSeq(p, 1, Len(s))
      BY <1>2
    <2>2. QED
      BY <1>2, <2>1 DEF Within, IsPrefix
  <1>3. QED
    BY <1>1, <1>2

LEMMA WithinItself == ASSUME NEW s \in Seq(Names) PROVE Within(s, s)
  BY PrefixNames

LEMMA WithinWithin ==
    ASSUME NEW c \in Seq(Names), NEW s \in Seq(Names), NEW p \in Seq(Names),
           Within(s, c), Within(p, s)
    PROVE  Within(p, c)
  <1>1. Len(c) <= Len(s) /\ \A i \in 1..Len(c) : c[i] = s[i]
    BY PrefixNames
  <1>2. Len(s) <= Len(p) /\ \A i \in 1..Len(s) : s[i] = p[i]
    BY PrefixNames
  <1>3. Len(c) <= Len(p) /\ \A i \in 1..Len(c) : c[i] = p[i]
    BY <1>1, <1>2
  <1>4. QED
    BY <1>3, PrefixNames

LEMMA ChildWithin ==
    ASSUME NEW c \in Seq(Names), NEW s \in Seq(Names), NEW n \in Names, Within(s, c)
    PROVE  Append(s, n) \in Seq(Names) /\ Within(Append(s, n), c)
  <1>1. Len(c) <= Len(s) /\ \A i \in 1..Len(c) : c[i] = s[i]
    BY PrefixNames
  <1>2. /\ Append(s, n) \in Seq(Names) /\ Len(Append(s, n)) = Len(s) + 1
        /\ \A i \in 1..Len(s) : Append(s, n)[i] = s[i]
    OBVIOUS
  <1>3. Len(c) <= Len(Append(s, n)) /\ \A i \in 1..Len(c) : c[i] = Append(s, n)[i]
    BY <1>1, <1>2
  <1>4. QED
    BY <1>2, <1>3, PrefixNames

LEMMA WithinLengths ==
    ASSUME NEW s \in Seq(Names), NEW p \in Seq(Names), Within(p, s)
    PROVE  Len(s) <= Len(p) /\ (Len(p) = Len(s) => p = s)
  <1>1. Len(s) <= Len(p) /\ \A i \in 1..Len(s) : s[i] = p[i]
    BY PrefixNames
  <1>2. QED
    BY <1>1

LEMMA SameNames ==
    ASSUME NEW S, NEW a \in Seq(S), NEW b \in Seq(S), Len(a) = Len(b),
           \A i \in 1..Len(a) : a[i] = b[i]
    PROVE  a = b
  OBVIOUS

\* Of two that hold the same path, one holds the other.
LEMMA WithinBoth ==
    ASSUME NEW a \in Seq(Names), NEW b \in Seq(Names), NEW p \in Seq(Names),
           Within(p, a), Within(p, b), Len(a) <= Len(b)
    PROVE  Within(b, a)
  <1>1. \A i \in 1..Len(a) : a[i] = p[i]
    BY PrefixNames
  <1>2. \A i \in 1..Len(b) : b[i] = p[i]
    BY PrefixNames
  <1>3. \A i \in 1..Len(a) : a[i] = b[i]
    BY <1>1, <1>2
  <1>4. QED
    BY <1>3, PrefixNames

\* What is below s is within one entry of s, and only one.
LEMMA BelowIsInChild ==
    ASSUME NEW s \in Seq(Names), NEW p \in Seq(Names), Within(p, s), p # s
    PROVE  Len(s) < Len(p) /\ \E n \in Names : Within(p, Append(s, n))
  <1>1. Len(s) <= Len(p) /\ \A i \in 1..Len(s) : s[i] = p[i]
    BY PrefixNames
  <1>2. Len(s) < Len(p)
    BY <1>1, WithinLengths
  <1> DEFINE n == p[Len(s) + 1]
             c == Append(s, n)
  <1>3. n \in Names
    BY <1>2
  <1>4. c \in Seq(Names) /\ Len(c) = Len(s) + 1 /\ c[Len(s) + 1] = n /\ \A i \in 1..Len(s) : c[i] = s[i]
    BY <1>3
  <1>5. Len(c) <= Len(p) /\ \A i \in 1..Len(c) : c[i] = p[i]
    BY <1>1, <1>2, <1>4
  <1>6. Within(p, c)
    BY <1>4, <1>5, PrefixNames
  <1>7. QED
    BY <1>2, <1>3, <1>6

LEMMA ChildrenApart ==
    ASSUME NEW s \in Seq(Names), NEW p \in Seq(Names), NEW m \in Names, NEW n \in Names,
           Within(p, Append(s, m)), Within(p, Append(s, n))
    PROVE  m = n
  <1>1. /\ Append(s, m) \in Seq(Names) /\ Len(Append(s, m)) = Len(s) + 1
        /\ Append(s, m)[Len(s) + 1] = m
        /\ Append(s, n) \in Seq(Names) /\ Len(Append(s, n)) = Len(s) + 1
        /\ Append(s, n)[Len(s) + 1] = n
    OBVIOUS
  <1> DEFINE a == Append(s, m)
             b == Append(s, n)
  <1>2. /\ \A i \in 1..Len(a) : a[i] = p[i]
        /\ \A i \in 1..Len(b) : b[i] = p[i]
    BY <1>1, PrefixNames
  <1>3. QED
    BY <1>1, <1>2

LEMMA PathsAreShort == ASSUME NEW p \in Seq(Names) PROVE p \in Paths <=> Len(p) <= Depth
  <1>1. ASSUME Len(p) <= Depth PROVE p \in Paths
    <2>1. p \in [1..Len(p) -> Names] /\ Len(p) \in 0..Depth
      BY <1>1, DepthIsNat
    <2>2. QED
      BY <2>1 DEF Paths
  <1>2. ASSUME p \in Paths PROVE Len(p) <= Depth
    <2>1. PICK n \in 0..Depth : p \in [1..n -> Names]
      BY <1>2 DEF Paths
    <2>2. n \in Nat
      BY <2>1, DepthIsNat
    <2>3. Len(p) = n
      BY <2>1, <2>2
    <2>4. QED
      BY <2>1, <2>3
  <1>3. QED
    BY <1>1, <1>2

\* The directory that p is in.
LEMMA FrontHolds ==
    ASSUME NEW p \in Seq(Names), p # <<>>
    PROVE  /\ Front(p) \in Seq(Names) /\ Len(Front(p)) = Len(p) - 1 /\ Within(p, Front(p))
           /\ \A q \in Seq(Names) : Within(p, q) /\ q # p => Within(Front(p), q)
  <1>1. Len(p) \in Nat \ {0}
    OBVIOUS
  <1> DEFINE q == SubSeq(p, 1, Len(p) - 1)
  <1>2. q = [i \in 1..(Len(p) - 1) |-> p[i]]
    BY <1>1
  <1> HIDE DEF q
  <1>3. q \in Seq(Names)
    <2>1. Len(p) - 1 \in Nat /\ \A i \in 1..(Len(p) - 1) : p[i] \in Names
      BY <1>1
    <2>2. QED
      BY <1>2, <2>1
  <1>4. Len(q) = Len(p) - 1 /\ \A i \in 1..(Len(p) - 1) : q[i] = p[i]
    BY <1>1, <1>2, <1>3
  <1>5. /\ Front(p) \in Seq(Names) /\ Len(Front(p)) = Len(p) - 1
        /\ \A i \in 1..(Len(p) - 1) : Front(p)[i] = p[i]
    BY <1>3, <1>4 DEF Front, q
  <1>6. Within(p, Front(p))
    BY <1>1, <1>5, PrefixNames
  <1>7. ASSUME NEW r \in Seq(Names), Within(p, r), r # p PROVE Within(Front(p), r)
    <2>1. Len(r) <= Len(p) - 1
      BY <1>5, <1>7, WithinLengths
    <2>2. QED
      BY <1>5, <1>6, <1>7, <2>1, WithinBoth
  <1>8. QED
    BY <1>5, <1>6, <1>7

LEMMA ChildIsAppended ==
    ASSUME NEW s \in Seq(Names), NEW n \in Names
    PROVE  /\ Append(s, n) \in Seq(Names) /\ Len(Append(s, n)) = Len(s) + 1
           /\ Within(Append(s, n), s) /\ Append(s, n) # s /\ Append(s, n) # <<>>
  <1>1. Append(s, n) \in Seq(Names) /\ Len(Append(s, n)) = Len(s) + 1
    OBVIOUS
  <1>2. Within(Append(s, n), s)
    BY WithinItself, ChildWithin
  <1>3. Append(s, n) # s
    BY <1>1
  <1>4. QED
    BY <1>1, <1>2, <1>3

(***************************************************************************)
(* What is at p under s belongs at Rebase(p, s, d) under d.                *)
(***************************************************************************)
LEMMA RebaseNames ==
    ASSUME NEW s \in Seq(Names), NEW d \in Seq(Names), NEW p \in Seq(Names), Within(p, s)
    PROVE  /\ Rebase(p, s, d) \in Seq(Names)
           /\ Len(Rebase(p, s, d)) = Len(d) + Len(p) - Len(s)
           /\ \A i \in 1..Len(d) : Rebase(p, s, d)[i] = d[i]
           /\ \A i \in (Len(d) + 1)..(Len(d) + Len(p) - Len(s)) :
                 Rebase(p, s, d)[i] = p[i - Len(d) + Len(s)]
  <1>0. Len(s) \in Nat /\ Len(p) \in Nat /\ Len(d) \in Nat /\ Len(s) <= Len(p)
    BY WithinLengths
  <1> DEFINE x == SubSeq(p, Len(s) + 1, Len(p))
  <1>1. x \in Seq(Names)
    BY <1>0
  <1>2. Len(x) = Len(p) - Len(s)
    BY <1>0
  <1>3. \A i \in 1..(Len(p) - Len(s)) : x[i] = p[i + Len(s)]
    BY <1>0
  <1>4. Rebase(p, s, d) = d \o x
    BY DEF Rebase
  <1> HIDE DEF x
  <1>5. /\ d \o x \in Seq(Names) /\ Len(d \o x) = Len(d) + Len(x)
        /\ \A i \in 1..Len(d) : (d \o x)[i] = d[i]
        /\ \A i \in (Len(d) + 1)..(Len(d) + Len(x)) : (d \o x)[i] = x[i - Len(d)]
    BY <1>1
  <1>6. ASSUME NEW i \in (Len(d) + 1)..(Len(d) + Len(p) - Len(s))
        PROVE  (d \o x)[i] = p[i - Len(d) + Len(s)]
    <2>1. i - Len(d) \in 1..(Len(p) - Len(s))
      BY <1>0
    <2>2. QED
      BY <1>0, <1>2, <1>3, <1>5, <2>1
  <1>7. QED
    BY <1>0, <1>2, <1>4, <1>5, <1>6

LEMMA RebaseWithin ==
    ASSUME NEW s \in Seq(Names), NEW d \in Seq(Names), NEW p \in Seq(Names), Within(p, s)
    PROVE  /\ Within(Rebase(p, s, d), d)
           /\ Rebase(Rebase(p, s, d), d, s) = p
           /\ (p = s => Rebase(p, s, d) = d)
  <1> DEFINE r == Rebase(p, s, d)
             q == Rebase(r, d, s)
  <1>1. /\ r \in Seq(Names) /\ Len(r) = Len(d) + Len(p) - Len(s)
        /\ \A i \in 1..Len(d) : r[i] = d[i]
        /\ \A i \in (Len(d) + 1)..(Len(d) + Len(p) - Len(s)) : r[i] = p[i - Len(d) + Len(s)]
    BY RebaseNames
  <1>2. Len(s) <= Len(p) /\ \A i \in 1..Len(s) : s[i] = p[i]
    BY PrefixNames
  <1> HIDE DEF r
  <1>3. Within(r, d)
    BY <1>1, <1>2, PrefixNames
  <1>4. /\ q \in Seq(Names) /\ Len(q) = Len(s) + Len(r) - Len(d)
        /\ \A i \in 1..Len(s) : q[i] = s[i]
        /\ \A i \in (Len(s) + 1)..(Len(s) + Len(r) - Len(d)) : q[i] = r[i - Len(s) + Len(d)]
    BY <1>1, <1>3, RebaseNames
  <1> HIDE DEF q
  <1>5. Len(q) = Len(p)
    BY <1>1, <1>4
  <1>6. ASSUME NEW i \in 1..Len(p) PROVE q[i] = p[i]
    <2>1. CASE i <= Len(s)
      BY <1>2, <1>4, <2>1
    <2>2. CASE i > Len(s)
      <3>1. q[i] = r[i - Len(s) + Len(d)]
        BY <1>1, <1>2, <1>4, <2>2
      <3>2. i - Len(s) + Len(d) \in (Len(d) + 1)..(Len(d) + Len(p) - Len(s))
        BY <1>2, <2>2
      <3>3. (i - Len(s) + Len(d)) - Len(d) + Len(s) = i
        OBVIOUS
      <3>4. QED
        BY <1>1, <3>1, <3>2, <3>3
    <2>3. QED
      BY <2>1, <2>2
  <1>7. q = p
    <2> HIDE DEF q
    <2>1. q \in Seq(Names) /\ Len(q) = Len(p)
      BY <1>4, <1>5
    <2>2. QED
      BY <1>6, <2>1
  <1>8. ASSUME p = s PROVE r = d
    <2>1. Len(r) = Len(d)
      BY <1>1, <1>8
    <2>2. QED
      BY <1>1, <1>3, <2>1, WithinLengths
  <1>9. QED
    BY <1>3, <1>7, <1>8 DEF q, r

\* Moving a directory takes what it holds along ...
LEMMA RebaseOfWithin ==
    ASSUME NEW s \in Seq(Names), NEW d \in Seq(Names), NEW p \in Seq(Names), NEW q \in Seq(Names),
           Within(q, s), Within(p, q)
    PROVE  /\ Within(p, s)
           /\ Within(Rebase(p, s, d), Rebase(q, s, d))
           /\ Rebase(p, q, Rebase(q, s, d)) = Rebase(p, s, d)
  <1> DEFINE rp == Rebase(p, s, d)
             rq == Rebase(q, s, d)
             rr == Rebase(p, q, rq)
  <1>0. Within(p, s)
    BY WithinWithin
  <1>1. /\ rp \in Seq(Names) /\ Len(rp) = Len(d) + Len(p) - Len(s)
        /\ \A i \in 1..Len(d) : rp[i] = d[i]
        /\ \A i \in (Len(d) + 1)..(Len(d) + Len(p) - Len(s)) : rp[i] = p[i - Len(d) + Len(s)]
    BY <1>0, RebaseNames
  <1>2. /\ rq \in Seq(Names) /\ Len(rq) = Len(d) + Len(q) - Len(s)
        /\ \A i \in 1..Len(d) : rq[i] = d[i]
        /\ \A i \in (Len(d) + 1)..(Len(d) + Len(q) - Len(s)) : rq[i] = q[i - Len(d) + Len(s)]
    BY RebaseNames
  <1>3. /\ Len(s) <= Len(q) /\ Len(q) <= Len(p)
        /\ \A i \in 1..Len(q) : q[i] = p[i]
    BY WithinLengths, PrefixNames
  <1> HIDE DEF rp, rq
  <1>4. ASSUME NEW i \in 1..Len(rq) PROVE rq[i] = rp[i]
    <2>1. CASE i <= Len(d)
      BY <1>1, <1>2, <2>1
    <2>2. CASE i > Len(d)
      <3>1. /\ i \in (Len(d) + 1)..(Len(d) + Len(q) - Len(s))
            /\ i \in (Len(d) + 1)..(Len(d) + Len(p) - Len(s))
        BY <1>2, <1>3, <2>2
      <3>2. i - Len(d) + Len(s) \in 1..Len(q)
        BY <3>1
      <3>3. QED
        BY <1>1, <1>2, <1>3, <3>1, <3>2
    <2>3. QED
      BY <2>1, <2>2
  <1>5. Within(rp, rq)
    <2>1. Len(rq) <= Len(rp)
      BY <1>1, <1>2, <1>3
    <2>2. rp \in Seq(Names) /\ rq \in Seq(Names)
      BY <1>1, <1>2
    <2>3. QED
      BY <1>4, <2>1, <2>2, PrefixNames
  <1>6. /\ rr \in Seq(Names) /\ Len(rr) = Len(rq) + Len(p) - Len(q)
        /\ \A i \in 1..Len(rq) : rr[i] = rq[i]
        /\ \A i \in (Len(rq) + 1)..(Len(rq) + Len(p) - Len(q)) : rr[i] = p[i - Len(rq) + Len(q)]
    BY <1>2, RebaseNames
  <1> HIDE DEF rr
  <1>7. Len(rr) = Len(rp)
    BY <1>1, <1>2, <1>6
  <1>8. ASSUME NEW i \in 1..Len(rr) PROVE rr[i] = rp[i]
    <2>1. CASE i <= Len(rq)
      BY <1>2, <1>4, <1>6, <2>1
    <2>2. CASE i > Len(rq)
      <3>1. /\ i \in (Len(rq) + 1)..(Len(rq) + Len(p) - Len(q))
            /\ i \in (Len(d) + 1)..(Len(d) + Len(p) - Len(s))
        BY <1>2, <1>3, <1>6, <2>2
      <3>2. i - Len(rq) + Len(q) = i - Len(d) + Len(s)
        BY <1>2
      <3>3. QED
        BY <1>1, <1>6, <3>1, <3>2
    <2>3. QED
      BY <2>1, <2>2
  <1>9. rr = rp
    BY <1>1, <1>6, <1>7, <1>8
  <1>10. QED
    BY <1>0, <1>5, <1>9 DEF rp, rq, rr

\* ... and an entry under its name.
LEMMA RebaseOfChild ==
    ASSUME NEW s \in Seq(Names), NEW d \in Seq(Names), NEW p \in Seq(Names), NEW n \in Names,
           Within(p, s)
    PROVE  Rebase(Append(p, n), s, d) = Append(Rebase(p, s, d), n)
  <1> DEFINE c == Append(p, n)
             r == Rebase(p, s, d)
             rc == Rebase(c, s, d)
  <1>1. /\ c \in Seq(Names) /\ Len(c) = Len(p) + 1 /\ c[Len(p) + 1] = n
        /\ \A i \in 1..Len(p) : c[i] = p[i]
    OBVIOUS
  <1>2. Within(c, s)
    BY ChildWithin
  <1>3. Len(s) <= Len(p)
    BY WithinLengths
  <1>4. /\ r \in Seq(Names) /\ Len(r) = Len(d) + Len(p) - Len(s)
        /\ \A i \in 1..Len(d) : r[i] = d[i]
        /\ \A i \in (Len(d) + 1)..(Len(d) + Len(p) - Len(s)) : r[i] = p[i - Len(d) + Len(s)]
    BY RebaseNames
  <1> HIDE DEF c
  <1>5. /\ rc \in Seq(Names) /\ Len(rc) = Len(d) + Len(c) - Len(s)
        /\ \A i \in 1..Len(d) : rc[i] = d[i]
        /\ \A i \in (Len(d) + 1)..(Len(d) + Len(c) - Len(s)) : rc[i] = c[i - Len(d) + Len(s)]
    BY <1>1, <1>2, RebaseNames
  <1> HIDE DEF r, rc
  <1>6. /\ Append(r, n) \in Seq(Names) /\ Len(Append(r, n)) = Len(r) + 1
        /\ Append(r, n)[Len(r) + 1] = n
        /\ \A i \in 1..Len(r) : Append(r, n)[i] = r[i]
    BY <1>4
  <1>7. ASSUME NEW i \in 1..Len(rc) PROVE rc[i] = Append(r, n)[i]
    <2>1. CASE i <= Len(d)
      BY <1>3, <1>4, <1>5, <1>6, <2>1
    <2>2. CASE i > Len(d) /\ i <= Len(r)
      <3>1. /\ i \in (Len(d) + 1)..(Len(d) + Len(p) - Len(s))
            /\ i \in (Len(d) + 1)..(Len(d) + Len(c) - Len(s))
            /\ i - Len(d) + Len(s) \in 1..Len(p)
        BY <1>1, <1>3, <1>4, <2>2
      <3>2. rc[i] = p[i - Len(d) + Len(s)]
        BY <1>1, <1>5, <3>1
      <3>3. r[i] = p[i - Len(d) + Len(s)] /\ i \in 1..Len(r)
        BY <1>4, <2>2, <3>1
      <3>4. QED
        BY <1>6, <3>2, <3>3
    <2>3. CASE i = Len(r) + 1
      <3>1. i \in (Len(d) + 1)..(Len(d) + Len(c) - Len(s)) /\ i - Len(d) + Len(s) = Len(p) + 1
        BY <1>1, <1>3, <1>4, <2>3
      <3>2. QED
        BY <1>1, <1>5, <1>6, <2>3, <3>1
    <2>4. Len(rc) = Len(r) + 1
      BY <1>1, <1>4, <1>5
    <2>5. QED
      BY <1>4, <2>1, <2>2, <2>3, <2>4
  <1>8. Len(rc) = Len(Append(r, n))
    BY <1>1, <1>4, <1>5, <1>6
  <1>9. rc = Append(r, n)
    <2>1. rc \in Seq(Names) /\ Append(r, n) \in Seq(Names)
      BY <1>5, <1>6
    <2>2. QED
      BY <1>7, <1>8, <2>1, SameNames
  <1>10. QED
    BY <1>9 DEF c, r, rc

-----------------------------------------------------------------------------
(***************************************************************************)
(* A thread's frames are calls that its call leads to: of the same         *)
(* function, on what is within the call's source and destination.          *)
(***************************************************************************)
Steps == {"enter", "list", "end", "single", "mkdir", "opendst", "data", "undo", "again", "merge"}

AnyFrame == [fn : Fns \cup {"copyfile"}, src : Seq(Names), dst : Seq(Names), at : Steps,
             seen : SUBSET Names, res : {Okay, Cancelled, Failed}]

Fits(c, f) ==
    /\ f.fn = c.fn \/ (f.fn = "copyfile" /\ c.fn = "copy")
    /\ Within(f.src, c.src)
    /\ c.fn \in {"copy", "move"} => Within(f.dst, c.dst)

FramesOf(c) == {f \in AnyFrame : Fits(c, f)}

StackInv ==
    /\ call \in [Threads -> CallType \cup {NoCall}]
    /\ DOMAIN stack = Threads /\ stack = [t \in Threads |-> stack[t]]
    /\ \A t \in Threads : /\ stack[t] \in Seq(FramesOf(call[t]))
                          /\ stack[t] # <<>> => call[t] \in CallType

\* What is done to a stack leaves its frames fitting.
LEMMA GoesOn ==
    ASSUME NEW c, NEW s \in Seq(FramesOf(c)), s # <<>>, NEW l \in Steps
    PROVE  [s EXCEPT ![Len(s)].at = l] \in Seq(FramesOf(c))
  <1>1. Len(s) \in 1..Len(s) /\ s[Len(s)] \in FramesOf(c)
    OBVIOUS
  <1>2. [s[Len(s)] EXCEPT !.at = l] \in FramesOf(c)
    BY <1>1 DEF FramesOf, AnyFrame, Fits
  <1>3. QED
    BY <1>1, <1>2

LEMMA GoesToUndo ==
    ASSUME NEW c, NEW s \in Seq(FramesOf(c)), s # <<>>,
           NEW r \in {Okay, Cancelled, Failed}
    PROVE  [s EXCEPT ![Len(s)].at = "undo", ![Len(s)].res = r] \in Seq(FramesOf(c))
  <1> DEFINE g == [s EXCEPT ![Len(s)].at = "undo"]
             h == [g EXCEPT ![Len(s)].res = r]
  <1>1. g \in Seq(FramesOf(c)) /\ Len(g) = Len(s)
    <2>1. "undo" \in Steps
      BY DEF Steps
    <2>2. g \in Seq(FramesOf(c))
      BY <2>1, GoesOn
    <2>3. DOMAIN g = 1..Len(s)
      OBVIOUS
    <2> HIDE DEF g
    <2>4. Len(g) = Len(s)
      BY <2>2, <2>3
    <2>5. QED
      BY <2>2, <2>4
  <1>2. Len(s) \in 1..Len(s) /\ g[Len(s)] \in FramesOf(c)
    BY <1>1
  <1>3. [g[Len(s)] EXCEPT !.res = r] \in FramesOf(c)
    BY <1>2 DEF FramesOf, AnyFrame, Fits
  <1> HIDE DEF g
  <1>4. h \in Seq(FramesOf(c))
    BY <1>1, <1>2, <1>3
  <1>5. QED
    BY <1>4 DEF g

LEMMA MarksSeen ==
    ASSUME NEW c, NEW s \in Seq(FramesOf(c)), s # <<>>, NEW n \in Names
    PROVE  [s EXCEPT ![Len(s)].seen = @ \cup {n}] \in Seq(FramesOf(c))
  <1>1. Len(s) \in 1..Len(s) /\ s[Len(s)] \in FramesOf(c)
    OBVIOUS
  <1>2. [s[Len(s)] EXCEPT !.seen = @ \cup {n}] \in FramesOf(c)
    BY <1>1 DEF FramesOf, AnyFrame, Fits
  <1>3. QED
    BY <1>1, <1>2

LEMMA FrontFits ==
    ASSUME NEW c, NEW s \in Seq(FramesOf(c)), s # <<>>
    PROVE  Front(s) \in Seq(FramesOf(c)) /\ Last(s) \in FramesOf(c)
  <1>1. Len(s) \in Nat \ {0}
    OBVIOUS
  <1>2. QED
    BY <1>1 DEF Front, Last

\* t's stack becomes one whose frames fit t's call, and no other stack changes.
KeepsFitting(t) ==
    \E s \in Seq(FramesOf(call[t])) : stack' = [stack EXCEPT ![t] = s]

LEMMA MovesFit ==
    ASSUME StackInv, NEW t \in Threads, stack[t] # <<>>
    PROVE  /\ \A r : Return(t, r) => KeepsFitting(t)
           /\ \A l \in Steps : GoTo(t, l) => KeepsFitting(t)
           /\ \A r \in {Cancelled, Failed} : GoUndo(t, r) => KeepsFitting(t)
           /\ \A s \in Seq(FramesOf(call[t])), f \in FramesOf(call[t]) :
                 Push(t, s, f) => KeepsFitting(t)
           /\ \A n \in Names : Seen(t, n) \in Seq(FramesOf(call[t]))
  <1>0. stack[t] \in Seq(FramesOf(call[t]))
    BY DEF StackInv
  <1>1. ASSUME NEW r, Return(t, r) PROVE KeepsFitting(t)
    BY <1>0, <1>1, FrontFits DEF Return, KeepsFitting
  <1>2. ASSUME NEW l \in Steps, GoTo(t, l) PROVE KeepsFitting(t)
    <2>1. [stack[t] EXCEPT ![Len(stack[t])].at = l] \in Seq(FramesOf(call[t]))
      BY <1>0, GoesOn
    <2>2. stack' = [stack EXCEPT ![t] = [stack[t] EXCEPT ![Len(stack[t])].at = l]]
      BY <1>2 DEF GoTo
    <2>3. QED
      BY <2>1, <2>2 DEF KeepsFitting
  <1>3. ASSUME NEW r \in {Cancelled, Failed}, GoUndo(t, r) PROVE KeepsFitting(t)
    <2> DEFINE s == [stack[t] EXCEPT ![Len(stack[t])].at = "undo", ![Len(stack[t])].res = r]
    <2>1. s \in Seq(FramesOf(call[t]))
      BY <1>0, GoesToUndo
    <2>2. stack' = [stack EXCEPT ![t] = s]
      BY <1>3 DEF GoUndo, StackInv
    <2>3. QED
      BY <2>1, <2>2 DEF KeepsFitting
  <1>4. ASSUME NEW s \in Seq(FramesOf(call[t])), NEW f \in FramesOf(call[t]), Push(t, s, f)
        PROVE  KeepsFitting(t)
    <2>1. Append(s, f) \in Seq(FramesOf(call[t]))
      OBVIOUS
    <2>2. QED
      BY <1>4, <2>1 DEF Push, KeepsFitting
  <1>5. ASSUME NEW n \in Names PROVE Seen(t, n) \in Seq(FramesOf(call[t]))
    BY <1>0, MarksSeen DEF Seen
  <1>6. QED
    BY <1>1, <1>2, <1>3, <1>4, <1>5

\* A call on what is within the source and the destination.
LEMMA FrameFits ==
    ASSUME NEW c \in CallType, NEW fn \in Fns \cup {"copyfile"},
           NEW s \in Seq(Names), NEW d \in Seq(Names),
           fn = c.fn \/ (fn = "copyfile" /\ c.fn = "copy"),
           Within(s, c.src), c.fn \in {"copy", "move"} => Within(d, c.dst)
    PROVE  Frame(fn, s, d) \in FramesOf(c)
  BY DEF Frame, FramesOf, AnyFrame, Fits, Steps

\* The innermost frame.
LEMMA TopFits ==
    ASSUME StackInv, NEW t \in Threads, stack[t] # <<>>
    PROVE  /\ call[t] \in CallType /\ call[t].src \in Seq(Names) /\ call[t].dst \in Seq(Names)
           /\ Top(t) \in AnyFrame /\ Fits(call[t], Top(t))
           /\ Front(stack[t]) \in Seq(FramesOf(call[t]))
  BY FrontFits, PathsAreSequences DEF StackInv, Top, FramesOf, CallType

LEMMA RecurseFits ==
    ASSUME StackInv, NEW t \in Threads, Recurse(t)
    PROVE  KeepsFitting(t)
  <1> DEFINE f == Top(t)
             c == call[t]
  <1>0. stack[t] # <<>> /\ f.fn \in Fns
    BY DEF Recurse, In
  <1>1. /\ c \in CallType /\ c.src \in Seq(Names) /\ c.dst \in Seq(Names)
        /\ f \in AnyFrame /\ Fits(c, f)
    BY <1>0, TopFits
  <1>2. PICK n \in Unseen(t) :
           LET s == Append(f.src, n)
               d == IF f.fn \in {"copy", "move"} THEN Append(f.dst, n) ELSE <<>>
           IN  \/ f.fn = "copy" /\ Push(t, Seen(t, n), Frame("copyfile", s, d))
               \/ Push(t, Seen(t, n), Frame(f.fn, s, d))
    BY DEF Recurse
  <1> DEFINE s == Append(f.src, n)
             d == IF f.fn \in {"copy", "move"} THEN Append(f.dst, n) ELSE <<>>
  <1>3. n \in Names
    BY DEF Unseen, Children
  <1>4. f.src \in Seq(Names) /\ f.dst \in Seq(Names) /\ f.fn = c.fn /\ Within(f.src, c.src)
    BY <1>0, <1>1 DEF AnyFrame, Fits, Fns
  <1>5. s \in Seq(Names) /\ Within(s, c.src)
    BY <1>1, <1>3, <1>4, ChildWithin
  <1>6. d \in Seq(Names) /\ (c.fn \in {"copy", "move"} => Within(d, c.dst))
    BY <1>1, <1>3, <1>4, ChildWithin DEF Fits
  <1>7. Frame(f.fn, s, d) \in FramesOf(c)
    BY <1>0, <1>1, <1>4, <1>5, <1>6, FrameFits
  <1>8. f.fn = "copy" => Frame("copyfile", s, d) \in FramesOf(c)
    BY <1>1, <1>4, <1>5, <1>6, FrameFits
  <1>9. QED
    BY <1>0, <1>2, <1>3, <1>7, <1>8, MovesFit

LEMMA OpenDirectoryFits ==
    ASSUME StackInv, NEW t \in Threads, OpenDirectory(t)
    PROVE  KeepsFitting(t)
  <1> DEFINE f == Top(t)
             c == call[t]
  <1>0. stack[t] # <<>> /\ f.fn \in {"info", "remove", "copy"}
    BY DEF OpenDirectory, In
  <1>1. /\ c \in CallType /\ Front(stack[t]) \in Seq(FramesOf(c))
        /\ f \in AnyFrame /\ Fits(c, f)
    BY <1>0, TopFits
  <1>2. f.fn = "copy" => Frame("copyfile", f.src, f.dst) \in FramesOf(c)
    BY <1>1, FrameFits DEF AnyFrame, Fits
  <1>3. \/ GoTo(t, "mkdir") \/ GoTo(t, "list") \/ GoTo(t, "single")
        \/ f.fn = "copy" /\ Push(t, Front(stack[t]), Frame("copyfile", f.src, f.dst))
    BY DEF OpenDirectory
  <1>4. {"mkdir", "list", "single"} \subseteq Steps
    BY DEF Steps
  <1>5. QED
    BY <1>0, <1>1, <1>2, <1>3, <1>4, MovesFit

LEMMA StepFits ==
    ASSUME StackInv, NEW t \in Threads, Step(t)
    PROVE  /\ stack[t] # <<>> /\ KeepsFitting(t)
           /\ UNCHANGED <<call, before, alone>>
  <1>1. stack[t] # <<>> /\ UNCHANGED <<call, before, alone>>
    BY DEF Step, Resume, Refuse, OpenDirectory, EndOfList, Recurse, CountFile, CountSingle,
           RemoveFile, RemoveDirectory, RemoveSingle, RemoveLast, MakeDirectory, OpenSource,
           OpenDestination, CopyData, UndoCopy, Rename, RenameAgain, OpenMerge, CloseMerge, In,
           Unchanged
  <1>2. CASE Recurse(t) \/ OpenDirectory(t)
    BY <1>1, <1>2, RecurseFits, OpenDirectoryFits
  <1>3. CASE Resume(t)
    <2>1. CASE UNCHANGED stack
      BY <1>1, <2>1 DEF StackInv, KeepsFitting
    <2>2. QED
      BY <1>1, <1>3, <2>1, MovesFit DEF Resume
  <1>4. CASE CountFile(t) \/ RemoveFile(t)
    <2>1. CASE \E n \in Unseen(t) : stack' = [stack EXCEPT ![t] = Seen(t, n)]
      <3>1. PICK n \in Unseen(t) : stack' = [stack EXCEPT ![t] = Seen(t, n)]
        BY <2>1
      <3>2. n \in Names
        BY DEF Unseen, Children
      <3>3. Seen(t, n) \in Seq(FramesOf(call[t]))
        BY <1>1, <3>2, MovesFit
      <3>4. QED
        BY <1>1, <3>1, <3>3 DEF KeepsFitting
    <2>2. CASE Return(t, Cancelled) \/ Return(t, Failed)
      BY <1>1, <2>2, MovesFit
    <2>3. QED
      BY <1>4, <2>1, <2>2 DEF CountFile, RemoveFile
  <1>5. CASE \/ Refuse(t) \/ EndOfList(t) \/ CountSingle(t) \/ RemoveDirectory(t)
             \/ RemoveSingle(t) \/ MakeDirectory(t) \/ OpenSource(t) \/ OpenDestination(t)
             \/ UndoCopy(t) \/ Rename(t) \/ RenameAgain(t) \/ OpenMerge(t) \/ CloseMerge(t)
    <2>1. {"list", "end", "opendst", "data", "again", "merge"} \subseteq Steps
      BY DEF Steps
    <2>2. \/ \E r : Return(t, r)
          \/ \E l \in {"list", "end", "opendst", "data", "again", "merge"} : GoTo(t, l)
      <3>1. CASE Refuse(t) \/ EndOfList(t) \/ CountSingle(t)
        BY <3>1 DEF Refuse, EndOfList, CountSingle
      <3>2. CASE RemoveDirectory(t) \/ RemoveSingle(t)
        BY <3>2 DEF RemoveDirectory, RemoveSingle, RemoveLast
      <3>3. CASE MakeDirectory(t) \/ OpenSource(t) \/ OpenDestination(t) \/ UndoCopy(t)
        BY <3>3 DEF MakeDirectory, OpenSource, OpenDestination, UndoCopy
      <3>4. CASE Rename(t) \/ RenameAgain(t) \/ OpenMerge(t) \/ CloseMerge(t)
        BY <3>4 DEF Rename, RenameAgain, OpenMerge, CloseMerge
      <3>5. QED
        BY <1>5, <3>1, <3>2, <3>3, <3>4
    <2>3. QED
      BY <1>1, <2>1, <2>2, MovesFit
  <1>6. CASE CopyData(t)
    <2>1. Return(t, Okay) \/ GoUndo(t, Cancelled) \/ GoUndo(t, Failed)
      BY <1>6 DEF CopyData
    <2>2. QED
      BY <1>1, <2>1, MovesFit
  <1>7. QED
    BY <1>1, <1>2, <1>3, <1>4, <1>5, <1>6 DEF Step

LEMMA StartFits ==
    ASSUME StackInv, NEW t \in Threads, NEW c \in Calls[t], Start(t, c)
    PROVE  /\ StackInv'
           /\ \A u \in Threads \ {t} : stack'[u] = stack[u]
  <1>1. c \in CallType /\ c.src \in Seq(Names) /\ c.dst \in Seq(Names) /\ c.fn \in Fns
    BY CallsAreCalls, PathsAreSequences DEF CallType
  <1>2. Frame(c.fn, c.src, c.dst) \in FramesOf(c)
    BY <1>1, FrameFits, WithinItself
  <1>3. stack[t] = <<>>
    <2>1. \A d \in CallType : d.fn # NoCall.fn
      BY DEF NoCall, CallType, Fns
    <2>2. call[t] = NoCall
      BY DEF Start
    <2>3. QED
      BY <2>1, <2>2 DEF StackInv
  <1>4. Append(stack[t], Frame(c.fn, c.src, c.dst)) \in Seq(FramesOf(c))
    <2>1. <<>> \in Seq(FramesOf(c))
      OBVIOUS
    <2>2. QED
      BY <1>2, <1>3, <2>1
  <1>5. /\ call' = [call EXCEPT ![t] = c]
        /\ stack' = [stack EXCEPT ![t] = Append(stack[t], Frame(c.fn, c.src, c.dst))]
    BY DEF Start, Push
  <1>6. call' \in [Threads -> CallType \cup {NoCall}]
    BY <1>1, <1>5 DEF StackInv
  <1>7. DOMAIN stack' = Threads /\ stack' = [u \in Threads |-> stack'[u]]
    BY <1>5 DEF StackInv
  <1>8. /\ call'[t] = c /\ stack'[t] \in Seq(FramesOf(c))
        /\ \A u \in Threads \ {t} : call'[u] = call[u] /\ stack'[u] = stack[u]
    BY <1>4, <1>5 DEF StackInv
  <1>9. ASSUME NEW u \in Threads
        PROVE  stack'[u] \in Seq(FramesOf(call'[u])) /\ (stack'[u] # <<>> => call'[u] \in CallType)
    BY <1>1, <1>8 DEF StackInv
  <1>10. QED
    BY <1>6, <1>7, <1>8, <1>9 DEF StackInv

LEMMA FitsOn ==
    ASSUME StackInv, NEW t \in Threads, stack[t] # <<>>, KeepsFitting(t), UNCHANGED call
    PROVE  /\ StackInv'
           /\ \A u \in Threads \ {t} : stack'[u] = stack[u]
  <1>1. PICK s \in Seq(FramesOf(call[t])) : stack' = [stack EXCEPT ![t] = s]
    BY DEF KeepsFitting
  <1>2. /\ stack'[t] = s
        /\ \A u \in Threads \ {t} : stack'[u] = stack[u]
        /\ DOMAIN stack' = Threads /\ stack' = [u \in Threads |-> stack'[u]]
    BY <1>1 DEF StackInv
  <1>3. call[t] \in CallType
    BY DEF StackInv
  <1>4. ASSUME NEW u \in Threads
        PROVE  stack'[u] \in Seq(FramesOf(call'[u])) /\ (stack'[u] # <<>> => call'[u] \in CallType)
    BY <1>2, <1>3 DEF StackInv
  <1>5. QED
    BY <1>2, <1>4 DEF StackInv

-----------------------------------------------------------------------------
(***************************************************************************)
(* The frames below the innermost one wait in their loops, each for the    *)
(* entry that the next one is for; so a thread has one handle open for     *)
(* each of them.                                                           *)
(***************************************************************************)
Held(at) == IF at \in {"list", "mkdir", "opendst"} THEN 1 ELSE IF at \in {"data", "undo"} THEN 2 ELSE 0

Places(fn) ==
    CASE fn = "info"   -> {"enter", "list", "single"}
      [] fn = "remove" -> {"enter", "list", "single", "end"}
      [] fn = "copy"   -> {"enter", "mkdir", "list"}
      [] fn = "move"   -> {"enter", "again", "merge", "list", "end"}
      [] OTHER         -> {"enter", "opendst", "data", "undo"}

\* Frame f, the i-th of a call c.
Placed(c, f, i) ==
    /\ f.src \in Paths /\ Len(f.src) = Len(c.src) + i - 1
    /\ c.fn \in {"copy", "move"} => f.dst = Rebase(f.src, c.src, c.dst)
    /\ f.at \in Places(f.fn) /\ (f.at = "undo" => f.res # Okay)
    /\ f.at \notin {"list", "end"} => f.seen = {}

StackShape(c, s) ==
    /\ \A i \in 1..Len(s) : Placed(c, s[i], i) /\ (i < Len(s) => s[i].at = "list")
    /\ \A i, j \in 1..Len(s) : i < j => \E n \in s[i].seen : Within(s[j].src, Append(s[i].src, n))

FramesOK(t) ==
    /\ StackShape(call[t], stack[t])
    /\ ret[t] # Running /\ stack[t] # <<>> => Top(t).at = "list"
    /\ handles[t] = IF stack[t] = <<>> THEN 0 ELSE Len(stack[t]) - 1 + Held(Top(t).at)
    /\ call[t] = NoCall => ret[t] = Running

FrameInv ==
    /\ ret \in [Threads -> {Okay, Cancelled, Failed, Running}]
    /\ handles \in [Threads -> Int]
    /\ \A t \in Threads : FramesOK(t)

LEMMA LastIs ==
    ASSUME NEW S, NEW s \in Seq(S), s # <<>>
    PROVE  Len(s) \in Nat \ {0} /\ Last(s) = s[Len(s)] /\ Last(s) \in S
  <1>1. Len(s) \in Nat \ {0}
    OBVIOUS
  <1>2. QED
    BY <1>1 DEF Last

LEMMA FrontIs ==
    ASSUME NEW S, NEW s \in Seq(S), s # <<>>
    PROVE  /\ Front(s) \in Seq(S) /\ Len(Front(s)) = Len(s) - 1
           /\ \A i \in 1..(Len(s) - 1) : Front(s)[i] = s[i]
           /\ Front(s) = <<>> <=> Len(s) = 1
  <1>1. Len(s) \in Nat \ {0}
    OBVIOUS
  <1> DEFINE q == SubSeq(s, 1, Len(s) - 1)
  <1>2. q = [i \in 1..(Len(s) - 1) |-> s[i]]
    BY <1>1
  <1> HIDE DEF q
  <1>3. q \in Seq(S)
    <2>1. Len(s) - 1 \in Nat /\ \A i \in 1..(Len(s) - 1) : s[i] \in S
      BY <1>1
    <2>2. QED
      BY <1>2, <2>1
  <1>4. Len(q) = Len(s) - 1 /\ \A i \in 1..(Len(s) - 1) : q[i] = s[i]
    BY <1>1, <1>2, <1>3
  <1>5. q = <<>> <=> Len(s) = 1
    <2>1. q = <<>> <=> Len(q) = 0
      BY <1>3
    <2>2. QED
      BY <1>1, <1>4, <2>1
  <1>6. QED
    BY <1>3, <1>4, <1>5 DEF Front, q

\* The three ways a stack changes.
LEMMA ShapePopped ==
    ASSUME NEW c, NEW s \in Seq(AnyFrame), s # <<>>, StackShape(c, s)
    PROVE  /\ StackShape(c, Front(s))
           /\ Front(s) # <<>> => Last(Front(s)).at = "list"
  <1> DEFINE q == Front(s)
  <1>1. /\ q \in Seq(AnyFrame) /\ Len(q) = Len(s) - 1 /\ Len(s) \in Nat \ {0}
        /\ \A i \in 1..Len(q) : q[i] = s[i]
    BY FrontIs, LastIs
  <1> HIDE DEF q
  <1>2. ASSUME NEW i \in 1..Len(q) PROVE Placed(c, q[i], i) /\ q[i].at = "list"
    <2>1. i \in 1..Len(s) /\ i < Len(s) /\ q[i] = s[i]
      BY <1>1
    <2>2. QED
      BY <2>1 DEF StackShape
  <1>3. ASSUME NEW i \in 1..Len(q), NEW j \in 1..Len(q), i < j
        PROVE  \E n \in q[i].seen : Within(q[j].src, Append(q[i].src, n))
    <2>1. i \in 1..Len(s) /\ j \in 1..Len(s) /\ q[i] = s[i] /\ q[j] = s[j]
      BY <1>1
    <2>2. QED
      BY <1>3, <2>1 DEF StackShape
  <1>4. StackShape(c, q)
    BY <1>2, <1>3 DEF StackShape
  <1>5. ASSUME q # <<>> PROVE Last(q).at = "list"
    <2>1. Len(q) \in Nat \ {0} /\ Last(q) = q[Len(q)]
      BY <1>1, <1>5, LastIs
    <2>2. Len(q) \in 1..Len(q)
      BY <2>1
    <2>3. QED
      BY <1>2, <2>1, <2>2
  <1>6. QED
    BY <1>4, <1>5 DEF q

LEMMA ShapeReplaced ==
    ASSUME NEW c, NEW s \in Seq(AnyFrame), s # <<>>, StackShape(c, s), NEW g \in AnyFrame,
           g.src = Last(s).src, g.dst = Last(s).dst, g.at \in Places(g.fn),
           g.at = "undo" => g.res # Okay, g.at \notin {"list", "end"} => g.seen = {}
    PROVE  /\ StackShape(c, [s EXCEPT ![Len(s)] = g])
           /\ [s EXCEPT ![Len(s)] = g] # <<>> /\ Last([s EXCEPT ![Len(s)] = g]) = g
           /\ Len([s EXCEPT ![Len(s)] = g]) = Len(s)
  <1> DEFINE q == [s EXCEPT ![Len(s)] = g]
             k == Len(s)
  <1>1. k \in Nat \ {0} /\ Last(s) = s[k] /\ k \in 1..k
    BY LastIs
  <1>2. q \in Seq(AnyFrame) /\ Len(q) = k /\ q[k] = g /\ \A i \in 1..(k - 1) : q[i] = s[i]
    BY <1>1
  <1> HIDE DEF q, k
  <1>3. q # <<>> /\ Last(q) = g
    <2>1. q # <<>>
      BY <1>1, <1>2
    <2>2. Last(q) = q[k]
      BY <1>2, <2>1, LastIs
    <2>3. QED
      BY <1>2, <2>1, <2>2
  <1>4. \A i \in 1..k : q[i].src = s[i].src
    <2>1. \A i \in 1..(k - 1) : q[i].src = s[i].src
      BY <1>2
    <2>2. q[k].src = s[k].src
      BY <1>1, <1>2
    <2>3. \A i \in 1..k : i = k \/ i \in 1..(k - 1)
      BY <1>1
    <2>4. QED
      BY <2>1, <2>2, <2>3
  <1>5. ASSUME NEW i \in 1..k PROVE Placed(c, q[i], i) /\ (i < k => q[i].at = "list")
    <2>1. CASE i = k
      <3>1. Placed(c, s[k], k)
        BY <1>1 DEF StackShape, k
      <3>2. Placed(c, g, k)
        BY <1>1, <3>1 DEF Placed
      <3>3. QED
        BY <1>1, <1>2, <2>1, <3>2
    <2>2. CASE i # k
      <3>1. i \in 1..(k - 1) /\ q[i] = s[i]
        BY <1>1, <1>2, <2>2
      <3>2. QED
        BY <3>1 DEF StackShape, k
    <2>3. QED
      BY <2>1, <2>2
  <1>6. ASSUME NEW i \in 1..k, NEW j \in 1..k, i < j
        PROVE  \E n \in q[i].seen : Within(q[j].src, Append(q[i].src, n))
    <2>1. i \in 1..(k - 1) /\ q[i] = s[i] /\ q[j].src = s[j].src
      BY <1>1, <1>2, <1>4, <1>6
    <2>2. \E n \in s[i].seen : Within(s[j].src, Append(s[i].src, n))
      BY <1>6 DEF StackShape, k
    <2>3. QED
      BY <2>1, <2>2
  <1>7. StackShape(c, q)
    BY <1>2, <1>5, <1>6 DEF StackShape
  <1>8. QED
    BY <1>2, <1>3, <1>7 DEF q, k

LEMMA ShapeRecursed ==
    ASSUME NEW c, NEW s \in Seq(AnyFrame), s # <<>>, StackShape(c, s), Last(s).at = "list",
           NEW n \in Names, NEW h \in AnyFrame, Placed(c, h, Len(s) + 1),
           h.src = Append(Last(s).src, n)
    PROVE  LET q == Append([s EXCEPT ![Len(s)].seen = @ \cup {n}], h)
           IN  /\ StackShape(c, q) /\ q # <<>> /\ Last(q) = h /\ Len(q) = Len(s) + 1
               /\ q \in Seq(AnyFrame)
               /\ \A i \in 1..Len(s) : i < Len(s) => q[i] = s[i]
               /\ q[Len(s)] = [s[Len(s)] EXCEPT !.seen = @ \cup {n}]
  <1> DEFINE k == Len(s)
             g == [s[k] EXCEPT !.seen = @ \cup {n}]
             m == [s EXCEPT ![k] = g]
             q == Append(m, h)
  <1>1. k \in Nat \ {0} /\ Last(s) = s[k] /\ k \in 1..k /\ s[k] \in AnyFrame
    BY LastIs
  <1>2. /\ g \in AnyFrame /\ g.src = s[k].src /\ g.at = s[k].at /\ g.dst = s[k].dst
        /\ g.fn = s[k].fn /\ g.res = s[k].res /\ g.seen = s[k].seen \cup {n}
    BY <1>1 DEF AnyFrame
  <1>3. m \in Seq(AnyFrame) /\ Len(m) = k /\ m[k] = g /\ \A i \in 1..(k - 1) : m[i] = s[i]
    <2> HIDE DEF g
    <2>1. QED
      BY <1>1, <1>2
  <1>4. m = [s EXCEPT ![Len(s)].seen = @ \cup {n}]
    BY <1>1
  <1> HIDE DEF k, g, m
  <1>5. /\ q \in Seq(AnyFrame) /\ Len(q) = k + 1 /\ q[k + 1] = h
        /\ \A i \in 1..k : q[i] = m[i]
    BY <1>3
  <1> HIDE DEF q
  <1>6. q # <<>> /\ Last(q) = h
    <2>1. q # <<>>
      BY <1>1, <1>5
    <2>2. QED
      BY <1>5, <2>1, LastIs
  <1>7. /\ \A i \in 1..(k - 1) : q[i] = s[i]
        /\ q[k] = g /\ q[k + 1] = h
        /\ \A i \in 1..(k + 1) : i \in 1..(k - 1) \/ i = k \/ i = k + 1
    BY <1>1, <1>3, <1>5
  <1>8. ASSUME NEW i \in 1..(k + 1) PROVE Placed(c, q[i], i) /\ (i < k + 1 => q[i].at = "list")
    <2>1. CASE i \in 1..(k - 1)
      BY <1>1, <1>7, <2>1 DEF StackShape, k
    <2>2. CASE i = k
      <3>1. Placed(c, s[k], k) /\ s[k].at = "list"
        BY <1>1 DEF StackShape, k
      <3>2. Placed(c, g, k)
        BY <1>2, <3>1 DEF Placed
      <3>3. QED
        BY <1>2, <1>7, <2>2, <3>1, <3>2
    <2>3. CASE i = k + 1
      BY <1>1, <1>7, <2>3 DEF k
    <2>4. QED
      BY <1>7, <2>1, <2>2, <2>3
  <1>9. \A i \in 1..k : s[i].src \in Seq(Names) /\ q[i].src = s[i].src /\ s[i].seen \subseteq q[i].seen
    <2>1. \A i \in 1..k : s[i] \in AnyFrame
      BY DEF k
    <2>2. \A i \in 1..(k - 1) : q[i].src = s[i].src /\ s[i].seen \subseteq q[i].seen
      BY <1>7
    <2>3. q[k].src = s[k].src /\ s[k].seen \subseteq q[k].seen
      BY <1>2, <1>7
    <2>4. \A i \in 1..k : i = k \/ i \in 1..(k - 1)
      BY <1>1
    <2>5. QED
      BY <2>1, <2>2, <2>3, <2>4 DEF AnyFrame
  <1>10. ASSUME NEW i \in 1..(k + 1), NEW j \in 1..(k + 1), i < j
         PROVE  \E x \in q[i].seen : Within(q[j].src, Append(q[i].src, x))
    <2>0. i \in 1..k
      BY <1>1, <1>10
    <2>1. CASE j \in 1..k
      <3>1. PICK x \in s[i].seen : Within(s[j].src, Append(s[i].src, x))
        BY <1>10, <2>0, <2>1 DEF StackShape, k
      <3>2. QED
        BY <1>9, <2>0, <2>1, <3>1
    <2>2. CASE j = k + 1
      <3>0. q[j].src = Append(s[k].src, n) /\ s[k].src \in Seq(Names)
        BY <1>1, <1>7, <1>9, <2>2
      <3>1. CASE i = k
        <4>1. n \in q[k].seen /\ q[k].src = s[k].src
          BY <1>2, <1>7
        <4>2. Within(Append(s[k].src, n), Append(s[k].src, n))
          BY <3>0, ChildIsAppended, WithinItself
        <4>3. QED
          BY <3>0, <3>1, <4>1, <4>2
      <3>2. CASE i < k
        <4>1. PICK x \in s[i].seen : Within(s[k].src, Append(s[i].src, x))
          BY <1>1, <2>0, <3>2 DEF StackShape, k
        <4>2. x \in Names
          <5>1. s[i] \in AnyFrame
            BY <2>0 DEF k
          <5>2. QED
            BY <4>1, <5>1 DEF AnyFrame
        <4>3. Append(s[i].src, x) \in Seq(Names)
          BY <1>9, <2>0, <4>2
        <4>4. Within(Append(s[k].src, n), Append(s[i].src, x))
          BY <3>0, <4>1, <4>3, ChildWithin
        <4>5. QED
          BY <1>9, <2>0, <3>0, <4>1, <4>4
      <3>3. QED
        BY <1>1, <2>0, <3>1, <3>2
    <2>3. QED
      BY <1>1, <2>1, <2>2
  <1>11. StackShape(c, q)
    BY <1>5, <1>8, <1>10 DEF StackShape
  <1>12. QED
    BY <1>1, <1>4, <1>5, <1>6, <1>7, <1>11 DEF q, k, g

(***************************************************************************)
(* What the helpers that change a stack leave behind.                      *)
(***************************************************************************)
\* t's innermost frame becomes g.
Turns(t, g) == stack' = [stack EXCEPT ![t] = [stack[t] EXCEPT ![Len(stack[t])] = g]]

\* ... and calls h.
Enters(t, g, h) == stack' = [stack EXCEPT ![t] = Append([stack[t] EXCEPT ![Len(stack[t])] = g], h)]

Pops(t) == stack' = [stack EXCEPT ![t] = Front(@)]

AtPlace(f, l)  == [f EXCEPT !.at = l]
HasSeen(f, n)  == [f EXCEPT !.seen = @ \cup {n}]
Undoing(f, r)  == [f EXCEPT !.at = "undo", !.res = r]

LEMMA TopIs ==
    ASSUME StackInv, NEW t \in Threads, stack[t] # <<>>
    PROVE  /\ stack[t] \in Seq(AnyFrame) /\ Len(stack[t]) \in Nat \ {0}
           /\ Top(t) = stack[t][Len(stack[t])] /\ Top(t) \in AnyFrame
           /\ Len(stack[t]) \in 1..Len(stack[t])
  <1>1. FramesOf(call[t]) \subseteq AnyFrame
    BY DEF FramesOf
  <1>2. stack[t] \in Seq(AnyFrame)
    <2>1. stack[t] \in Seq(FramesOf(call[t]))
      BY DEF StackInv
    <2>2. QED
      BY <1>1, <2>1
  <1>3. QED
    BY <1>2, LastIs DEF Top

LEMMA HelpersTurn ==
    ASSUME StackInv, NEW t \in Threads, stack[t] # <<>>
    PROVE  /\ \A l : GoTo(t, l) => Turns(t, AtPlace(Top(t), l))
           /\ \A r : GoUndo(t, r) => Turns(t, Undoing(Top(t), r))
           /\ \A n : Seen(t, n) = [stack[t] EXCEPT ![Len(stack[t])] = HasSeen(Top(t), n)]
           /\ \A f : Push(t, Front(stack[t]), f) /\ f \in AnyFrame => Turns(t, f)
  <1>0. /\ stack[t] \in Seq(AnyFrame) /\ Len(stack[t]) \in Nat \ {0}
        /\ Top(t) = stack[t][Len(stack[t])] /\ Top(t) \in AnyFrame
        /\ Len(stack[t]) \in 1..Len(stack[t])
    BY TopIs
  <1>1. ASSUME NEW l, GoTo(t, l) PROVE Turns(t, AtPlace(Top(t), l))
    BY <1>0, <1>1 DEF GoTo, Turns, AtPlace
  <1>2. ASSUME NEW r, GoUndo(t, r) PROVE Turns(t, Undoing(Top(t), r))
    <2> DEFINE s == stack[t]
               a == [s EXCEPT ![Len(s)].at = "undo"]
               b == [s EXCEPT ![Len(s)].at = "undo", ![Len(s)].res = r]
    <2>1. stack' = [stack EXCEPT ![t] = b]
      BY <1>2 DEF GoUndo, StackInv
    <2>2. b = [s EXCEPT ![Len(s)] = Undoing(Top(t), r)]
      BY <1>0 DEF Undoing
    <2>3. QED
      BY <2>1, <2>2 DEF Turns
  <1>3. ASSUME NEW n PROVE Seen(t, n) = [stack[t] EXCEPT ![Len(stack[t])] = HasSeen(Top(t), n)]
    BY <1>0 DEF Seen, HasSeen
  <1>4. ASSUME NEW f \in AnyFrame, Push(t, Front(stack[t]), f) PROVE Turns(t, f)
    <2> DEFINE s == stack[t]
               a == Append(Front(s), f)
               b == [s EXCEPT ![Len(s)] = f]
    <2>1. /\ Front(s) \in Seq(AnyFrame) /\ Len(Front(s)) = Len(s) - 1
          /\ \A i \in 1..(Len(s) - 1) : Front(s)[i] = s[i]
      BY <1>0, FrontIs
    <2>2. /\ a \in Seq(AnyFrame) /\ Len(a) = Len(s) /\ a[Len(s)] = f
          /\ \A i \in 1..(Len(s) - 1) : a[i] = Front(s)[i]
      BY <1>0, <2>1
    <2>3. /\ b \in Seq(AnyFrame) /\ Len(b) = Len(s) /\ b[Len(s)] = f
          /\ \A i \in 1..(Len(s) - 1) : b[i] = s[i]
      BY <1>0
    <2> HIDE DEF a, b
    <2>4. \A i \in 1..Len(s) : i = Len(s) \/ i \in 1..(Len(s) - 1)
      BY <1>0
    <2>5. \A i \in 1..Len(a) : a[i] = b[i]
      BY <2>1, <2>2, <2>3, <2>4
    <2>6. a = b
      BY <2>2, <2>3, <2>5, SameNames
    <2>7. stack' = [stack EXCEPT ![t] = a]
      BY <1>4 DEF Push, a
    <2>8. QED
      BY <2>6, <2>7 DEF Turns, b
  <1>5. QED
    BY <1>1, <1>2, <1>3, <1>4

\* The stack of t, frame by frame.
Below(t, k) == \A i \in 1..k : stack'[t][i] = stack[t][i]

LEMMA AfterTurn ==
    ASSUME StackInv, NEW t \in Threads, stack[t] # <<>>, NEW g \in AnyFrame, Turns(t, g)
    PROVE  LET k == Len(stack[t])
           IN  /\ stack'[t] # <<>> /\ Len(stack'[t]) = k /\ stack'[t][k] = g /\ Top(t)' = g
               /\ Below(t, k - 1)
               /\ stack'[t] = [stack[t] EXCEPT ![k] = g]
               /\ \A u \in Threads \ {t} : stack'[u] = stack[u]
  <1>0. /\ stack[t] \in Seq(AnyFrame) /\ Len(stack[t]) \in Nat \ {0}
        /\ Len(stack[t]) \in 1..Len(stack[t])
    BY TopIs
  <1> DEFINE s == stack[t]
             k == Len(s)
             q == [s EXCEPT ![k] = g]
  <1>1. stack'[t] = q /\ \A u \in Threads \ {t} : stack'[u] = stack[u]
    BY DEF Turns, StackInv
  <1>2. q \in Seq(AnyFrame) /\ Len(q) = k /\ q[k] = g /\ \A i \in 1..(k - 1) : q[i] = s[i]
    BY <1>0
  <1> HIDE DEF q
  <1>3. q # <<>>
    BY <1>0, <1>2
  <1>4. Last(q) = g
    BY <1>2, <1>3, LastIs
  <1>5. Top(t)' = g
    BY <1>1, <1>4 DEF Top
  <1>6. QED
    BY <1>1, <1>2, <1>3, <1>5 DEF Below, q

LEMMA AfterPop ==
    ASSUME StackInv, NEW t \in Threads, stack[t] # <<>>, Pops(t)
    PROVE  /\ stack'[t] = Front(stack[t]) /\ Len(stack'[t]) = Len(stack[t]) - 1
           /\ Below(t, Len(stack[t]) - 1)
           /\ stack'[t] = <<>> <=> Len(stack[t]) = 1
           /\ \A u \in Threads \ {t} : stack'[u] = stack[u]
  <1>0. stack[t] \in Seq(AnyFrame)
    BY TopIs
  <1>1. stack'[t] = Front(stack[t]) /\ \A u \in Threads \ {t} : stack'[u] = stack[u]
    BY DEF Pops, StackInv
  <1>2. QED
    BY <1>0, <1>1, FrontIs DEF Below

LEMMA AfterEnter ==
    ASSUME StackInv, NEW t \in Threads, stack[t] # <<>>, NEW g \in AnyFrame, NEW h \in AnyFrame,
           Enters(t, g, h)
    PROVE  LET k == Len(stack[t])
           IN  /\ stack'[t] # <<>> /\ Len(stack'[t]) = k + 1
               /\ stack'[t][k] = g /\ stack'[t][k + 1] = h /\ Top(t)' = h
               /\ Below(t, k - 1)
               /\ stack'[t] = Append([stack[t] EXCEPT ![k] = g], h)
               /\ \A u \in Threads \ {t} : stack'[u] = stack[u]
  <1>0. /\ stack[t] \in Seq(AnyFrame) /\ Len(stack[t]) \in Nat \ {0}
        /\ Len(stack[t]) \in 1..Len(stack[t])
    BY TopIs
  <1> DEFINE s == stack[t]
             k == Len(s)
             m == [s EXCEPT ![k] = g]
             q == Append(m, h)
  <1>1. stack'[t] = q /\ \A u \in Threads \ {t} : stack'[u] = stack[u]
    BY DEF Enters, StackInv
  <1>2. m \in Seq(AnyFrame) /\ Len(m) = k /\ m[k] = g /\ \A i \in 1..(k - 1) : m[i] = s[i]
    BY <1>0
  <1> HIDE DEF m
  <1>3. /\ q \in Seq(AnyFrame) /\ Len(q) = k + 1 /\ q[k + 1] = h /\ \A i \in 1..k : q[i] = m[i]
    BY <1>2
  <1> HIDE DEF q
  <1>4. q[k] = g /\ \A i \in 1..(k - 1) : q[i] = s[i]
    BY <1>0, <1>2, <1>3
  <1>5. q # <<>>
    BY <1>0, <1>3
  <1>6. Last(q) = h
    BY <1>3, <1>5, LastIs
  <1>7. Top(t)' = h
    BY <1>1, <1>6 DEF Top
  <1>8. QED
    BY <1>1, <1>3, <1>4, <1>5, <1>7 DEF Below, q, m

(***************************************************************************)
(* Every step of a thread returns, turns its innermost frame into another  *)
(* for the same paths, calls a function for an entry, or goes on.          *)
(***************************************************************************)
Returned(t) ==
    /\ Pops(t) /\ \E r \in {Okay, Cancelled, Failed} : ret' = [ret EXCEPT ![t] = r]
    /\ Closes(t, Held(Top(t).at))

Turned(t, g) ==
    /\ Turns(t, g) /\ UNCHANGED ret /\ ret[t] = Running
    /\ Opens(t, Held(g.at) - Held(Top(t).at))
    /\ g.src = Top(t).src /\ g.dst = Top(t).dst /\ g.at \in Places(g.fn)
    /\ g.at = "undo" => g.res # Okay
    /\ g.at \notin {"list", "end"} => g.seen = {}

Entered(t, n, h) ==
    /\ Enters(t, HasSeen(Top(t), n), h) /\ UNCHANGED <<ret, handles>> /\ ret[t] = Running
    /\ Top(t).at = "list" /\ Len(Top(t).src) < Depth
    /\ h.src = Append(Top(t).src, n) /\ h.at = "enter" /\ h.seen = {}
    /\ h.fn = Top(t).fn \/ (h.fn = "copyfile" /\ Top(t).fn = "copy")
    /\ Top(t).fn \in {"copy", "move"} => h.dst = Append(Top(t).dst, n)

WentOn(t) == ret' = [ret EXCEPT ![t] = Running] /\ UNCHANGED <<stack, handles>>

LEMMA NoHandles ==
    ASSUME handles \in [Threads -> Int], NEW t \in Threads, UNCHANGED handles
    PROVE  Opens(t, 0) /\ Closes(t, 0)
  BY DEF Opens, Closes

LEMMA HeldIs ==
    /\ Held("enter") = 0 /\ Held("end") = 0 /\ Held("single") = 0 /\ Held("again") = 0
    /\ Held("merge") = 0 /\ Held("list") = 1 /\ Held("mkdir") = 1 /\ Held("opendst") = 1
    /\ Held("data") = 2 /\ Held("undo") = 2
  BY DEF Held

LEMMA ReturnIs ==
    ASSUME NEW t \in Threads, NEW r \in {Okay, Cancelled, Failed}, Return(t, r),
           Closes(t, Held(Top(t).at))
    PROVE  Returned(t)
  BY DEF Return, Returned, Pops

LEMMA GoToIs ==
    ASSUME StackInv, NEW t \in Threads, stack[t] # <<>>, ret[t] = Running,
           NEW l \in Places(Top(t).fn), l \in Steps, l # "undo", GoTo(t, l),
           l \notin {"list", "end"} => Top(t).seen = {},
           Opens(t, Held(l) - Held(Top(t).at))
    PROVE  \E g \in AnyFrame : Turned(t, g)
  <1>1. Top(t) \in AnyFrame
    BY TopIs
  <1>2. Turns(t, AtPlace(Top(t), l))
    BY HelpersTurn
  <1>3. /\ AtPlace(Top(t), l) \in AnyFrame /\ AtPlace(Top(t), l).src = Top(t).src
        /\ AtPlace(Top(t), l).dst = Top(t).dst /\ AtPlace(Top(t), l).fn = Top(t).fn
        /\ AtPlace(Top(t), l).at = l /\ AtPlace(Top(t), l).seen = Top(t).seen
    BY <1>1 DEF AtPlace, AnyFrame
  <1>4. UNCHANGED ret
    BY DEF GoTo
  <1>5. Turned(t, AtPlace(Top(t), l))
    BY <1>2, <1>3, <1>4 DEF Turned
  <1>6. QED
    BY <1>3, <1>5

LEMMA UndoingIs ==
    ASSUME NEW f \in AnyFrame, NEW r \in {Cancelled, Failed}
    PROVE  /\ Undoing(f, r) \in AnyFrame /\ Undoing(f, r).fn = f.fn /\ Undoing(f, r).src = f.src
           /\ Undoing(f, r).dst = f.dst /\ Undoing(f, r).at = "undo" /\ Undoing(f, r).seen = f.seen
           /\ Undoing(f, r).res = r
  <1> DEFINE a == [f EXCEPT !.at = "undo"]
  <1>1. /\ a \in AnyFrame /\ a.src = f.src /\ a.dst = f.dst /\ a.at = "undo" /\ a.fn = f.fn
        /\ a.seen = f.seen
    BY DEF AnyFrame, Steps
  <1>2. Undoing(f, r) = [a EXCEPT !.res = r]
    BY DEF Undoing
  <1> HIDE DEF a
  <1>3. QED
    BY <1>1, <1>2 DEF AnyFrame

LEMMA SeenIs ==
    ASSUME StackInv, NEW t \in Threads, stack[t] # <<>>, ret[t] = Running, UNCHANGED ret,
           Top(t).at \in Places(Top(t).fn), Top(t).at = "list",
           NEW n \in Names, stack' = [stack EXCEPT ![t] = Seen(t, n)], Opens(t, 0)
    PROVE  \E g \in AnyFrame : Turned(t, g)
  <1>1. Top(t) \in AnyFrame
    BY TopIs
  <1> DEFINE g == HasSeen(Top(t), n)
  <1>2. Turns(t, g)
    BY HelpersTurn DEF Turns
  <1>3. /\ g \in AnyFrame /\ g.src = Top(t).src /\ g.dst = Top(t).dst /\ g.fn = Top(t).fn
        /\ g.at = Top(t).at
    BY <1>1 DEF HasSeen, AnyFrame
  <1> HIDE DEF g
  <1>4. Opens(t, Held(g.at) - Held(Top(t).at))
    <2>1. Held(g.at) - Held(Top(t).at) = 0
      BY <1>3 DEF Held
    <2>2. QED
      BY <2>1
  <1>5. Turned(t, g)
    BY <1>2, <1>3, <1>4 DEF Turned
  <1>6. QED
    BY <1>3, <1>5

LEMMA RecurseEnters ==
    ASSUME StackInv, NEW t \in Threads, Recurse(t)
    PROVE  \E n \in Unseen(t), h \in AnyFrame : Entered(t, n, h)
  <1> DEFINE f == Top(t)
  <1>1. /\ f.at = "list" /\ f.fn \in Fns /\ UNCHANGED handles /\ ret[t] = Running
        /\ f.src \in Seq(Names) /\ f.dst \in Seq(Names) /\ stack[t] # <<>>
    BY TopIs DEF Recurse, In, AnyFrame
  <1>2. PICK n \in Unseen(t) :
           LET s == Append(f.src, n)
               d == IF f.fn \in {"copy", "move"} THEN Append(f.dst, n) ELSE <<>>
           IN  \/ f.fn = "copy" /\ Push(t, Seen(t, n), Frame("copyfile", s, d))
               \/ Push(t, Seen(t, n), Frame(f.fn, s, d))
    BY DEF Recurse
  <1>3. n \in Names /\ Len(f.src) < Depth
    BY DEF Unseen, Children
  <1> DEFINE s == Append(f.src, n)
             d == IF f.fn \in {"copy", "move"} THEN Append(f.dst, n) ELSE <<>>
  <1>4. PICK h \in {Frame("copyfile", s, d), Frame(f.fn, s, d)} :
           /\ Push(t, Seen(t, n), h)
           /\ h.fn = f.fn \/ (h.fn = "copyfile" /\ f.fn = "copy")
    BY <1>2 DEF Frame
  <1>5. h \in AnyFrame /\ h.src = s /\ h.dst = d /\ h.at = "enter" /\ h.seen = {}
    <2>1. s \in Seq(Names) /\ d \in Seq(Names)
      BY <1>1, <1>3
    <2> HIDE DEF s, d
    <2>2. QED
      BY <1>1, <2>1 DEF Frame, AnyFrame, Steps, Fns
  <1>6. Enters(t, HasSeen(f, n), h) /\ UNCHANGED ret
    BY <1>1, <1>4, HelpersTurn DEF Push, Enters
  <1>7. Entered(t, n, h)
    BY <1>1, <1>3, <1>4, <1>5, <1>6 DEF Entered
  <1>8. QED
    BY <1>3, <1>5, <1>7

LEMMA StepMoves ==
    ASSUME StackInv, FrameInv, NEW t \in Threads, Step(t)
    PROVE  /\ stack[t] # <<>>
           /\ \/ Returned(t)
              \/ \E g \in AnyFrame : Turned(t, g)
              \/ \E n \in Names, h \in AnyFrame : Entered(t, n, h)
              \/ WentOn(t)
  <1> DEFINE f == Top(t)
  <1>0. /\ stack[t] # <<>> /\ f \in AnyFrame /\ handles \in [Threads -> Int]
        /\ f.at \in Places(f.fn) /\ (f.at \notin {"list", "end"} => f.seen = {})
        /\ Resume(t) \/ ret[t] = Running
    <2>1. stack[t] # <<>>
      BY StepFits
    <2>2. f \in AnyFrame /\ f.at \in Places(f.fn) /\ (f.at \notin {"list", "end"} => f.seen = {})
      BY <2>1, TopIs DEF FrameInv, FramesOK, StackShape, Placed
    <2>3. Resume(t) \/ ret[t] = Running
      BY DEF Step, Refuse, OpenDirectory, EndOfList, Recurse, CountFile, CountSingle,
           RemoveFile, RemoveDirectory, RemoveSingle, RemoveLast, MakeDirectory, OpenSource,
           OpenDestination, CopyData, UndoCopy, Rename, RenameAgain, OpenMerge, CloseMerge, In
    <2>4. QED
      BY <2>1, <2>2, <2>3 DEF FrameInv
  <1>1. UNCHANGED handles => Opens(t, 0) /\ Closes(t, 0)
    BY <1>0, NoHandles
  <1>2. CASE Resume(t)
    <2>1. CASE ret[t] = Okay
      BY <1>0, <1>2, <2>1 DEF Resume, WentOn
    <2>2. CASE ret[t] # Okay
      <3>1. ret[t] \in {Okay, Cancelled, Failed} /\ f.at = "list"
        BY <1>0, <1>2 DEF Resume, FrameInv, FramesOK
      <3>2. Return(t, ret[t]) /\ Closes(t, 1)
        BY <1>2, <2>2 DEF Resume
      <3>3. Closes(t, Held(f.at))
        BY <3>1, <3>2, HeldIs
      <3>4. QED
        BY <1>0, <3>1, <3>2, <3>3, ReturnIs
    <2>3. QED
      BY <2>1, <2>2
  <1>3. CASE Refuse(t) \/ CountSingle(t) \/ RemoveDirectory(t) \/ RemoveSingle(t) \/ CloseMerge(t)
    <2>1. /\ f.at \in {"enter", "single", "end"} /\ UNCHANGED handles
          /\ Return(t, Okay) \/ Return(t, Cancelled) \/ Return(t, Failed)
      BY <1>3 DEF Refuse, CountSingle, RemoveDirectory, RemoveSingle, RemoveLast, CloseMerge, In
    <2>2. Closes(t, Held(f.at))
      BY <1>1, <2>1, HeldIs
    <2>3. QED
      BY <1>0, <2>1, <2>2, ReturnIs
  <1>4. CASE OpenDirectory(t)
    <2>0. f.at = "enter" /\ f.fn \in {"info", "remove", "copy"}
      BY <1>4 DEF OpenDirectory, In
    <2>1. CASE GoTo(t, IF f.fn = "copy" THEN "mkdir" ELSE "list") /\ Opens(t, 1)
      <3> DEFINE l == IF f.fn = "copy" THEN "mkdir" ELSE "list"
      <3>1. l \in Places(f.fn) /\ l \in Steps /\ l # "undo"
        BY <2>0 DEF Places, Steps
      <3>2. Held(l) - Held(f.at) = 1
        BY <2>0, HeldIs
      <3>3. GoTo(t, l) /\ Opens(t, Held(l) - Held(f.at)) /\ ret[t] = Running
        BY <1>4, <2>1, <3>2 DEF OpenDirectory, In
      <3> HIDE DEF l
      <3>4. QED
        BY <1>0, <2>0, <3>1, <3>3, GoToIs
    <2>2. CASE f.fn # "copy" /\ GoTo(t, "single") /\ UNCHANGED handles
      <3>1. "single" \in Places(f.fn) /\ "single" \in Steps
        BY <2>0, <2>2 DEF Places, Steps
      <3>2. Held("single") - Held(f.at) = 0
        BY <2>0, HeldIs
      <3>3. Opens(t, Held("single") - Held(f.at)) /\ ret[t] = Running
        BY <1>1, <1>4, <2>2, <3>2 DEF OpenDirectory, In
      <3>4. QED
        BY <1>0, <2>0, <2>2, <3>1, <3>3, GoToIs
    <2>3. CASE f.fn = "copy" /\ Push(t, Front(stack[t]), Frame("copyfile", f.src, f.dst))
               /\ UNCHANGED handles
      <3> DEFINE g == Frame("copyfile", f.src, f.dst)
      <3>1. /\ g \in AnyFrame /\ g.src = f.src /\ g.dst = f.dst /\ g.at = "enter"
            /\ g.fn = "copyfile" /\ g.seen = {}
        BY <1>0 DEF Frame, AnyFrame, Steps
      <3>2. Turns(t, g) /\ UNCHANGED ret
        BY <1>0, <2>3, <3>1, HelpersTurn DEF Push
      <3> HIDE DEF g
      <3>3. Held(g.at) - Held(f.at) = 0 /\ g.at \in Places(g.fn)
        BY <2>0, <3>1, HeldIs DEF Places
      <3>4. Turned(t, g)
        BY <1>1, <1>4, <2>3, <3>1, <3>2, <3>3 DEF Turned, OpenDirectory, In
      <3>5. QED
        BY <1>0, <3>1, <3>4
    <2>4. QED
      BY <1>4, <2>1, <2>2, <2>3 DEF OpenDirectory
  <1>5. CASE EndOfList(t)
    <2>0. f.at = "list" /\ Closes(t, 1) /\ f.fn \in Fns /\ ret[t] = Running
      BY <1>5 DEF EndOfList, In
    <2>1. CASE Return(t, Okay)
      BY <1>0, <2>0, <2>1, HeldIs, ReturnIs
    <2>2. CASE f.fn \in {"remove", "move"} /\ GoTo(t, "end")
      <3>1. "end" \in Places(f.fn) /\ "end" \in Steps
        BY <2>0, <2>2 DEF Places, Steps
      <3>2. Held("end") - Held(f.at) = -1
        BY <2>0, HeldIs
      <3>3. Opens(t, Held("end") - Held(f.at))
        BY <1>0, <2>0, <3>2 DEF Opens, Closes
      <3>4. QED
        BY <1>0, <2>0, <2>2, <3>1, <3>3, GoToIs
    <2>3. QED
      BY <1>5, <2>0, <2>1, <2>2 DEF EndOfList, Fns
  <1>6. CASE Recurse(t)
    <2>1. PICK n \in Unseen(t), h \in AnyFrame : Entered(t, n, h)
      BY <1>6, RecurseEnters
    <2>2. n \in Names
      BY DEF Unseen, Children
    <2>3. QED
      BY <1>0, <2>1, <2>2
  <1>7. CASE CountFile(t) \/ RemoveFile(t)
    <2>0. f.at = "list" /\ ret[t] = Running
      BY <1>7 DEF CountFile, RemoveFile, In
    <2>1. CASE (\E n \in Unseen(t) : stack' = [stack EXCEPT ![t] = Seen(t, n)]) /\ UNCHANGED <<ret, handles>>
      <3>1. PICK n \in Unseen(t) : stack' = [stack EXCEPT ![t] = Seen(t, n)]
        BY <2>1
      <3>2. n \in Names
        BY DEF Unseen, Children
      <3>3. QED
        BY <1>0, <1>1, <2>0, <2>1, <3>1, <3>2, SeenIs
    <2>2. CASE (Return(t, Cancelled) \/ Return(t, Failed)) /\ Closes(t, 1)
      BY <1>0, <2>0, <2>2, HeldIs, ReturnIs
    <2>3. QED
      BY <1>7, <2>1, <2>2 DEF CountFile, RemoveFile
  <1>8. CASE MakeDirectory(t)
    <2>0. f.at = "mkdir" /\ f.fn = "copy" /\ ret[t] = Running
      BY <1>8 DEF MakeDirectory, In
    <2>1. CASE GoTo(t, "list") /\ UNCHANGED handles
      <3>1. "list" \in Places(f.fn) /\ "list" \in Steps
        BY <2>0 DEF Places, Steps
      <3>2. Held("list") - Held(f.at) = 0
        BY <2>0, HeldIs
      <3>3. QED
        BY <1>0, <1>1, <2>0, <2>1, <3>1, <3>2, GoToIs
    <2>2. CASE (Return(t, Cancelled) \/ Return(t, Failed)) /\ Closes(t, 1)
      BY <1>0, <2>0, <2>2, HeldIs, ReturnIs
    <2>3. QED
      BY <1>8, <2>1, <2>2 DEF MakeDirectory
  <1>9. CASE OpenSource(t)
    <2>0. f.at = "enter" /\ f.fn = "copyfile" /\ ret[t] = Running
      BY <1>9 DEF OpenSource, In
    <2>1. CASE GoTo(t, "opendst") /\ Opens(t, 1)
      <3>1. "opendst" \in Places(f.fn) /\ "opendst" \in Steps
        BY <2>0 DEF Places, Steps
      <3>2. Held("opendst") - Held(f.at) = 1
        BY <2>0, HeldIs
      <3>3. QED
        BY <1>0, <2>0, <2>1, <3>1, <3>2, GoToIs
    <2>2. CASE Return(t, Failed) /\ UNCHANGED handles
      BY <1>0, <1>1, <2>0, <2>2, HeldIs, ReturnIs
    <2>3. QED
      BY <1>9, <2>1, <2>2 DEF OpenSource
  <1>10. CASE OpenDestination(t)
    <2>0. f.at = "opendst" /\ f.fn = "copyfile" /\ ret[t] = Running
      BY <1>10 DEF OpenDestination, In
    <2>1. CASE GoTo(t, "data") /\ Opens(t, 1)
      <3>1. "data" \in Places(f.fn) /\ "data" \in Steps
        BY <2>0 DEF Places, Steps
      <3>2. Held("data") - Held(f.at) = 1
        BY <2>0, HeldIs
      <3>3. QED
        BY <1>0, <2>0, <2>1, <3>1, <3>2, GoToIs
    <2>2. CASE Return(t, Failed) /\ Closes(t, 1)
      BY <1>0, <2>0, <2>2, HeldIs, ReturnIs
    <2>3. QED
      BY <1>10, <2>1, <2>2 DEF OpenDestination
  <1>11. CASE CopyData(t)
    <2>0. f.at = "data" /\ f.fn = "copyfile" /\ ret[t] = Running
      BY <1>11 DEF CopyData, In
    <2>1. CASE Return(t, Okay) /\ Closes(t, 2)
      BY <1>0, <2>0, <2>1, HeldIs, ReturnIs
    <2>2. ASSUME NEW r \in {Cancelled, Failed}, GoUndo(t, r), UNCHANGED handles
          PROVE  \E g \in AnyFrame : Turned(t, g)
      <3> DEFINE g == Undoing(f, r)
      <3>1. /\ g \in AnyFrame /\ g.src = f.src /\ g.dst = f.dst /\ g.at = "undo" /\ g.fn = "copyfile"
            /\ g.res # Okay /\ g.seen = {}
        <4>1. r # Okay /\ f.seen = {}
          BY <1>0, <2>0 DEF Okay, Cancelled, Failed
        <4>2. QED
          BY <1>0, <2>0, <4>1, UndoingIs
      <3>2. Turns(t, g) /\ UNCHANGED ret
        BY <1>0, <2>2, HelpersTurn DEF GoUndo
      <3> HIDE DEF g
      <3>3. Held(g.at) - Held(f.at) = 0 /\ g.at \in Places(g.fn)
        BY <2>0, <3>1, HeldIs DEF Places
      <3>4. Turned(t, g)
        BY <1>1, <2>0, <2>2, <3>1, <3>2, <3>3 DEF Turned
      <3>5. QED
        BY <3>1, <3>4
    <2>3. QED
      BY <1>0, <1>11, <2>1, <2>2 DEF CopyData
  <1>12. CASE UndoCopy(t)
    <2>0. f.at = "undo" /\ Return(t, f.res) /\ Closes(t, 2)
      BY <1>12 DEF UndoCopy, In
    <2>1. f.res \in {Okay, Cancelled, Failed}
      BY <1>0 DEF AnyFrame
    <2>2. QED
      BY <1>0, <2>0, <2>1, HeldIs, ReturnIs
  <1>13. CASE Rename(t) \/ RenameAgain(t)
    <2>0. f.at \in {"enter", "again"} /\ f.fn = "move" /\ ret[t] = Running /\ UNCHANGED handles
      BY <1>13 DEF Rename, RenameAgain, In
    <2>1. CASE Return(t, Okay) \/ Return(t, Failed)
      BY <1>0, <1>1, <2>0, <2>1, HeldIs, ReturnIs
    <2>2. ASSUME NEW l \in {"again", "merge"}, GoTo(t, l) PROVE \E g \in AnyFrame : Turned(t, g)
      <3>1. l \in Places(f.fn) /\ l \in Steps /\ l # "undo"
        BY <2>0 DEF Places, Steps
      <3>2. Held(l) - Held(f.at) = 0
        BY <2>0, HeldIs
      <3>3. QED
        BY <1>0, <1>1, <2>0, <2>2, <3>1, <3>2, GoToIs
    <2>3. QED
      BY <1>0, <1>13, <2>1, <2>2 DEF Rename, RenameAgain
  <1>14. CASE OpenMerge(t)
    <2>0. f.at = "merge" /\ f.fn = "move" /\ ret[t] = Running
      BY <1>14 DEF OpenMerge, In
    <2>1. CASE GoTo(t, "list") /\ Opens(t, 1)
      <3>1. "list" \in Places(f.fn) /\ "list" \in Steps
        BY <2>0 DEF Places, Steps
      <3>2. Held("list") - Held(f.at) = 1
        BY <2>0, HeldIs
      <3>3. QED
        BY <1>0, <2>0, <2>1, <3>1, <3>2, GoToIs
    <2>2. CASE Return(t, Failed) /\ UNCHANGED handles
      BY <1>0, <1>1, <2>0, <2>2, HeldIs, ReturnIs
    <2>3. QED
      BY <1>14, <2>1, <2>2 DEF OpenMerge
  <1>15. QED
    BY <1>2, <1>3, <1>4, <1>5, <1>6, <1>7, <1>8, <1>9, <1>10, <1>11, <1>12, <1>13, <1>14 DEF Step

-----------------------------------------------------------------------------
(***************************************************************************)
(* What a step changes                                                     *)
(***************************************************************************)
\* t's call is for what is at p.
Owns(t, p) ==
    \/ call[t].fn \in {"remove", "move"} /\ Within(p, call[t].src)
    \/ call[t].fn \in {"copy", "move"} /\ Within(p, call[t].dst)

FilesOK == DOMAIN fs = Paths /\ fs = [p \in Paths |-> fs[p]]

\* Only what is owned changes.
Touches(t) == \A p \in Paths : fs'[p] # fs[p] => Owns(t, p)

LEMMA PutTouches ==
    ASSUME FilesOK, NEW t, NEW q, NEW v, Put(q, v), Owns(t, q)
    PROVE  FilesOK' /\ Touches(t)
  BY DEF FilesOK, Put, Touches

LEMMA StaysTouches == ASSUME FilesOK, NEW t, UNCHANGED fs PROVE FilesOK' /\ Touches(t)
  BY DEF FilesOK, Touches

LEMMA RenamedTouches ==
    ASSUME FilesOK, NEW t, NEW s \in Seq(Names), NEW d \in Seq(Names), fs' = Renamed(s, d),
           call[t].fn = "move", Within(s, call[t].src), Within(d, call[t].dst),
           call[t].src \in Seq(Names), call[t].dst \in Seq(Names)
    PROVE  FilesOK' /\ Touches(t)
  <1>1. FilesOK'
    BY DEF FilesOK, Renamed
  <1>2. ASSUME NEW p \in Paths, fs'[p] # fs[p] PROVE Owns(t, p)
    <2>1. p \in Seq(Names)
      BY PathsAreSequences
    <2>2. Within(p, s) \/ Within(p, d)
      BY <1>2 DEF Renamed
    <2>3. CASE Within(p, s)
      BY <2>1, <2>3, WithinWithin DEF Owns
    <2>4. CASE Within(p, d)
      BY <2>1, <2>4, WithinWithin DEF Owns
    <2>5. QED
      BY <2>2, <2>3, <2>4
  <1>3. QED
    BY <1>1, <1>2 DEF Touches

LEMMA StepTouches ==
    ASSUME StackInv, FilesOK, NEW t \in Threads, Step(t)
    PROVE  FilesOK' /\ Touches(t)
  <1> DEFINE f == Top(t)
             c == call[t]
  <1>0. stack[t] # <<>>
    BY StepFits
  <1>1. /\ c \in CallType /\ c.src \in Seq(Names) /\ c.dst \in Seq(Names)
        /\ f.src \in Seq(Names) /\ f.dst \in Seq(Names)
        /\ Within(f.src, c.src)
        /\ f.fn = "remove" => c.fn = "remove"
        /\ f.fn = "move" => c.fn = "move" /\ Within(f.dst, c.dst)
        /\ f.fn \in {"copy", "copyfile"} => c.fn = "copy" /\ Within(f.dst, c.dst)
    BY <1>0, TopFits DEF AnyFrame, Fits, CallType, Fns
  <1>2. CASE UNCHANGED fs
    BY <1>2, StaysTouches
  <1>3. CASE RemoveFile(t)
    <2>1. f.fn = "remove"
      BY <1>3 DEF RemoveFile, In
    <2>2. CASE \E n \in Unseen(t) : Put(Append(f.src, n), Absent)
      <3>1. PICK n \in Unseen(t) : Put(Append(f.src, n), Absent)
        BY <2>2
      <3>2. n \in Names
        BY DEF Unseen, Children
      <3>3. Owns(t, Append(f.src, n))
        BY <1>1, <2>1, <3>2, ChildWithin DEF Owns
      <3>4. QED
        BY <3>1, <3>3, PutTouches
    <2>3. QED
      BY <1>2, <1>3, <2>2 DEF RemoveFile
  <1>4. CASE RemoveDirectory(t) \/ RemoveSingle(t)
    <2>1. f.fn = "remove"
      BY <1>4 DEF RemoveDirectory, RemoveSingle, RemoveLast, In
    <2>2. Owns(t, f.src)
      BY <1>1, <2>1 DEF Owns
    <2>3. Put(f.src, Absent) \/ UNCHANGED fs
      BY <1>4 DEF RemoveDirectory, RemoveSingle, RemoveLast
    <2>4. QED
      BY <1>2, <2>2, <2>3, PutTouches
  <1>5. CASE MakeDirectory(t) \/ OpenDestination(t) \/ CopyData(t) \/ UndoCopy(t)
    <2>1. f.fn \in {"copy", "copyfile"}
      BY <1>5 DEF MakeDirectory, OpenDestination, CopyData, UndoCopy, In
    <2>2. Owns(t, f.dst)
      BY <1>1, <2>1 DEF Owns
    <2>3. (\E v : Put(f.dst, v)) \/ UNCHANGED fs
      BY <1>5 DEF MakeDirectory, OpenDestination, CopyData, UndoCopy, Stays
    <2>4. QED
      BY <1>2, <2>2, <2>3, PutTouches
  <1>6. CASE Rename(t) \/ RenameAgain(t) \/ CloseMerge(t)
    <2>1. f.fn = "move"
      BY <1>6 DEF Rename, RenameAgain, CloseMerge, In
    <2>2. Owns(t, f.src) /\ Owns(t, f.dst)
      BY <1>1, <2>1 DEF Owns
    <2>3. \/ fs' = Renamed(f.src, f.dst)
          \/ Put(f.src, Absent) \/ Put(f.dst, Absent)
          \/ UNCHANGED fs
      BY <1>6 DEF Rename, RenameAgain, CloseMerge, Stays
    <2>4. QED
      BY <1>1, <1>2, <2>1, <2>2, <2>3, PutTouches, RenamedTouches
  <1>7. QED
    BY <1>2, <1>3, <1>4, <1>5, <1>6
    DEF Step, Resume, Refuse, OpenDirectory, EndOfList, Recurse, CountFile, CountSingle, OpenSource,
        OpenMerge, Stays

-----------------------------------------------------------------------------
(***************************************************************************)
(* Nobody else has been at it as long as alone says so.                    *)
(***************************************************************************)
AloneInv ==
    /\ alone \in [Threads -> BOOLEAN]
    /\ DOMAIN before = Threads /\ before = [t \in Threads |-> before[t]]
    /\ \A t \in Threads : alone[t] => \A u \in Threads \ {t} : stack[u] = <<>>

TouchInv == StackInv /\ FilesOK /\ AloneInv /\ OnlyItsOwn

LEMMA InitTouch == Init => TouchInv
  <1> SUFFICES ASSUME Init PROVE TouchInv
    OBVIOUS
  <1>1. FilesOK
    BY TreesAreTrees DEF Init, FilesOK
  <1>2. StackInv
    <2>1. \A c : <<>> \in Seq(FramesOf(c))
      OBVIOUS
    <2>2. QED
      BY <2>1 DEF Init, StackInv
  <1>3. AloneInv
    BY DEF Init, AloneInv
  <1>4. OnlyItsOwn
    BY DEF Init, OnlyItsOwn, Alone, NoCall, Fns
  <1>5. QED
    BY <1>1, <1>2, <1>3, <1>4 DEF TouchInv

\* A step of one thread: others are not alone, and it touches what it owns.
LEMMA StepTouch == ASSUME TouchInv, NEW t \in Threads, Step(t) PROVE TouchInv'
  <1>0. /\ stack[t] # <<>> /\ KeepsFitting(t) /\ UNCHANGED <<call, before, alone>>
        /\ FilesOK' /\ Touches(t)
    BY StepFits, StepTouches DEF TouchInv
  <1>1. StackInv' /\ \A u \in Threads \ {t} : stack'[u] = stack[u]
    BY <1>0, FitsOn DEF TouchInv
  <1>2. \A u \in Threads \ {t} : ~alone[u]
    BY <1>0 DEF TouchInv, AloneInv
  <1>3. AloneInv'
    BY <1>0, <1>1, <1>2 DEF TouchInv, AloneInv
  <1>4. OnlyItsOwn'
    <2> SUFFICES ASSUME NEW u \in Threads, Alone(u, Fns)', NEW p \in Paths, fs'[p] # Was(u, p)'
                 PROVE  Owns(u, p)
      BY <1>0 DEF OnlyItsOwn, Owns
    <2>1. u = t /\ Alone(u, Fns) /\ fs'[p] # Was(u, p)
      BY <1>0, <1>2 DEF Alone, Was
    <2>2. CASE fs'[p] # fs[p]
      BY <1>0, <2>1, <2>2 DEF Touches
    <2>3. CASE fs'[p] = fs[p]
      BY <2>1, <2>3 DEF TouchInv, OnlyItsOwn, Owns
    <2>4. QED
      BY <2>2, <2>3
  <1>5. QED
    BY <1>0, <1>1, <1>3, <1>4 DEF TouchInv

\* A call begins with nothing changed, and ends that others are alone.
LEMMA StartTouch ==
    ASSUME TouchInv, NEW t \in Threads, NEW c \in Calls[t], Start(t, c)
    PROVE  TouchInv'
  <1>0. StackInv' /\ \A u \in Threads \ {t} : stack'[u] = stack[u]
    BY StartFits DEF TouchInv
  <1>1. /\ fs' = fs /\ before' = [before EXCEPT ![t] = fs]
        /\ alone' = [u \in Threads |-> u = t /\ \A v \in Threads \ {t} : stack[v] = <<>>]
    BY DEF Start
  <1>2. /\ before'[t] = fs /\ DOMAIN before' = Threads
        /\ before' = [u \in Threads |-> before'[u]]
    BY <1>1 DEF TouchInv, AloneInv
  <1>3. AloneInv'
    <2>1. alone' \in [Threads -> BOOLEAN]
      BY <1>1
    <2>2. ASSUME NEW u \in Threads, alone'[u] PROVE \A v \in Threads \ {u} : stack'[v] = <<>>
      <3>1. u = t /\ \A v \in Threads \ {t} : stack[v] = <<>>
        BY <1>1, <2>2
      <3>2. QED
        BY <1>0, <3>1
    <2>3. QED
      BY <1>2, <2>1, <2>2 DEF AloneInv
  <1>4. OnlyItsOwn'
    BY <1>1, <1>2 DEF OnlyItsOwn, Alone, Was
  <1>5. FilesOK'
    BY <1>1 DEF TouchInv, FilesOK
  <1>6. QED
    BY <1>0, <1>3, <1>4, <1>5 DEF TouchInv

\* For any file system and whatever call fails at any point, removePath touches
\* nothing outside of its path, copyPath nothing outside of its destination, and
\* movePath nothing outside of its two.
THEOREM TouchesOnlyItsOwn == Spec => []OnlyItsOwn
  <1>1. TouchInv /\ [Next]_vars => TouchInv'
    <2>1. CASE UNCHANGED vars
      BY <2>1
      DEF vars, TouchInv, StackInv, FilesOK, AloneInv, OnlyItsOwn, Alone, Was
    <2>2. QED
      BY <2>1, StepTouch, StartTouch DEF Next
  <1>2. TouchInv => OnlyItsOwn
    BY DEF TouchInv
  <1>3. QED
    BY <1>1, <1>2, InitTouch, PTL DEF Spec

LEMMA InitFrames == Init => FrameInv
  <1> SUFFICES ASSUME Init PROVE FrameInv
    OBVIOUS
  <1>1. /\ ret = [t \in Threads |-> Running] /\ handles = [t \in Threads |-> 0]
        /\ stack = [t \in Threads |-> <<>>]
    BY DEF Init
  <1>2. ASSUME NEW t \in Threads PROVE FramesOK(t)
    <2>1. stack[t] = <<>> /\ handles[t] = 0 /\ ret[t] = Running
      BY <1>1
    <2>2. StackShape(call[t], stack[t])
      BY <2>1 DEF StackShape
    <2>3. QED
      BY <2>1, <2>2 DEF FramesOK
  <1>3. QED
    BY <1>1, <1>2 DEF FrameInv, Running

LEMMA StepFrames ==
    ASSUME StackInv, FrameInv, NEW t \in Threads, Step(t)
    PROVE  FrameInv'
  <1> DEFINE s == stack[t]
             f == Top(t)
             c == call[t]
             k == Len(s)
  <1>0. /\ s # <<>> /\ s \in Seq(AnyFrame) /\ k \in Nat \ {0} /\ k \in 1..k
        /\ f = s[k] /\ f = Last(s) /\ f \in AnyFrame
        /\ Fits(c, f) /\ c \in CallType /\ c.src \in Seq(Names) /\ c.dst \in Seq(Names)
        /\ UNCHANGED call /\ c # NoCall
    <2>1. s # <<>> /\ UNCHANGED call
      BY StepFits
    <2>2. \A d \in CallType : d # NoCall
      BY DEF CallType, NoCall
    <2>3. QED
      BY <2>1, <2>2, TopIs, TopFits DEF Top
  <1>1. /\ StackShape(c, s) /\ Placed(c, f, k) /\ handles[t] = k - 1 + Held(f.at)
        /\ ret \in [Threads -> {Okay, Cancelled, Failed, Running}] /\ handles \in [Threads -> Int]
    BY <1>0 DEF FrameInv, FramesOK, StackShape
  <1>2. \A l : Held(l) \in Nat
    BY DEF Held
  <1>3. ASSUME NEW u \in Threads \ {t}, stack'[u] = stack[u], ret'[u] = ret[u], handles'[u] = handles[u]
        PROVE  FramesOK(u)'
    BY <1>0, <1>3 DEF FrameInv, FramesOK, Top
  <1>4. CASE Returned(t)
    <2>1. PICK r \in {Okay, Cancelled, Failed} : ret' = [ret EXCEPT ![t] = r]
      BY <1>4 DEF Returned
    <2>2. /\ stack'[t] = Front(s) /\ Len(stack'[t]) = k - 1
          /\ stack'[t] = <<>> <=> k = 1
          /\ \A u \in Threads \ {t} : stack'[u] = stack[u]
      BY <1>0, <1>4, AfterPop DEF Returned
    <2>3. StackShape(c, stack'[t]) /\ (stack'[t] # <<>> => Top(t)'.at = "list")
      BY <1>0, <1>1, <2>2, ShapePopped DEF Top
    <2>4. handles' = [handles EXCEPT ![t] = @ - Held(f.at)]
      BY <1>4 DEF Returned, Closes
    <2>5. handles' \in [Threads -> Int] /\ handles'[t] = k - 1
      BY <1>0, <1>1, <1>2, <2>4
    <2>6. stack'[t] # <<>> => Held(Top(t)'.at) = 1
      BY <2>3, HeldIs
    <2>7. FramesOK(t)'
      BY <1>0, <2>2, <2>3, <2>5, <2>6 DEF FramesOK
    <2>8. \A u \in Threads \ {t} : FramesOK(u)'
      BY <1>3, <2>1, <2>2, <2>4
    <2>9. QED
      BY <1>1, <2>1, <2>5, <2>7, <2>8 DEF FrameInv
  <1>5. ASSUME NEW g \in AnyFrame, Turned(t, g) PROVE FrameInv'
    <2>1. /\ stack'[t] = [s EXCEPT ![k] = g] /\ Top(t)' = g /\ Len(stack'[t]) = k /\ stack'[t] # <<>>
          /\ \A u \in Threads \ {t} : stack'[u] = stack[u]
      BY <1>0, <1>5, AfterTurn DEF Turned
    <2>2. StackShape(c, stack'[t])
      BY <1>0, <1>1, <1>5, <2>1, ShapeReplaced DEF Turned
    <2>3. handles' = [handles EXCEPT ![t] = @ + (Held(g.at) - Held(f.at))]
      BY <1>5 DEF Turned, Opens
    <2>4. handles' \in [Threads -> Int] /\ handles'[t] = k - 1 + Held(g.at)
      BY <1>0, <1>1, <1>2, <2>3
    <2>5. UNCHANGED ret /\ ret'[t] = Running
      BY <1>5 DEF Turned
    <2>6. FramesOK(t)'
      BY <1>0, <2>1, <2>2, <2>4, <2>5 DEF FramesOK
    <2>7. \A u \in Threads \ {t} : FramesOK(u)'
      BY <1>3, <2>1, <2>3, <2>5
    <2>8. QED
      BY <1>1, <2>4, <2>5, <2>6, <2>7 DEF FrameInv
  <1>6. ASSUME NEW n \in Names, NEW h \in AnyFrame, Entered(t, n, h) PROVE FrameInv'
    <2> DEFINE g == HasSeen(f, n)
    <2>1. g \in AnyFrame /\ g.at = f.at
      BY <1>0 DEF HasSeen, AnyFrame
    <2>2. /\ stack'[t] = Append([s EXCEPT ![k] = g], h) /\ Top(t)' = h /\ Len(stack'[t]) = k + 1
          /\ stack'[t] # <<>> /\ \A u \in Threads \ {t} : stack'[u] = stack[u]
      BY <1>0, <1>6, <2>1, AfterEnter DEF Entered
    <2>3. Placed(c, h, k + 1)
      <3>1. h.src \in Seq(Names) /\ h.src = Append(f.src, n) /\ f.src \in Seq(Names)
            /\ Len(h.src) = Len(f.src) + 1 /\ Len(f.src) < Depth /\ Len(f.src) \in Nat
        BY <1>0, <1>6, ChildIsAppended DEF Entered, AnyFrame
      <3>2. h.src \in Paths /\ Len(h.src) = Len(c.src) + (k + 1) - 1
        <4>1. Len(f.src) = Len(c.src) + k - 1 /\ Len(c.src) \in Nat
          BY <1>0, <1>1 DEF Placed
        <4>2. Len(h.src) <= Depth
          BY <3>1, DepthIsNat
        <4>3. QED
          <5>1. h.src \in Paths
            BY <3>1, <4>2, PathsAreShort
          <5>2. Len(h.src) = Len(c.src) + (k + 1) - 1
            BY <1>0, <3>1, <4>1
          <5>3. QED
            BY <5>1, <5>2
      <3>3. h.at = "enter" /\ h.at \in Places(h.fn) /\ h.seen = {}
        BY <1>0, <1>6 DEF Entered, Places, AnyFrame, Fns
      <3>4. f.fn = c.fn
        BY <1>0, <1>1, <1>6 DEF Entered, Placed, Places, Fits
      <3>5. ASSUME c.fn \in {"copy", "move"} PROVE h.dst = Rebase(h.src, c.src, c.dst)
        <4>1. h.dst = Append(f.dst, n) /\ f.dst = Rebase(f.src, c.src, c.dst)
          BY <1>1, <1>6, <3>4, <3>5 DEF Entered, Placed
        <4>2. Within(f.src, c.src)
          BY <1>0 DEF Fits
        <4>3. QED
          <5>1. Rebase(Append(f.src, n), c.src, c.dst) = Append(Rebase(f.src, c.src, c.dst), n)
            BY <1>0, <3>1, <4>2, RebaseOfChild
          <5>2. QED
            BY <3>1, <4>1, <5>1
      <3>6. QED
        BY <3>2, <3>3, <3>5 DEF Placed
    <2>4. [s EXCEPT ![k] = g] = [s EXCEPT ![k].seen = @ \cup {n}]
      BY <1>0 DEF HasSeen
    <2>5. StackShape(c, stack'[t])
      <3>1. f.at = "list" /\ h.src = Append(f.src, n)
        BY <1>6 DEF Entered
      <3>2. Last(s).at = "list" /\ h.src = Append(Last(s).src, n)
        BY <1>0, <3>1
      <3>3. StackShape(c, Append([s EXCEPT ![k].seen = @ \cup {n}], h))
        BY <1>0, <1>1, <2>3, <3>2, ShapeRecursed
      <3>4. QED
        BY <2>2, <2>4, <3>3
    <2>6. UNCHANGED <<ret, handles>> /\ ret[t] = Running /\ h.at = "enter" /\ f.at = "list"
      BY <1>6 DEF Entered
    <2>7. handles'[t] = k /\ Held(h.at) = 0
      BY <1>0, <1>1, <2>6, HeldIs
    <2>8. FramesOK(t)'
      BY <1>0, <2>2, <2>5, <2>6, <2>7 DEF FramesOK
    <2>9. \A u \in Threads \ {t} : FramesOK(u)'
      BY <1>3, <2>2, <2>6
    <2>10. QED
      BY <1>1, <2>6, <2>8, <2>9 DEF FrameInv
  <1>7. CASE WentOn(t)
    <2>1. UNCHANGED <<stack, handles>> /\ ret' = [ret EXCEPT ![t] = Running]
      BY <1>7 DEF WentOn
    <2>2. ret' \in [Threads -> {Okay, Cancelled, Failed, Running}] /\ ret'[t] = Running
          /\ \A u \in Threads \ {t} : ret'[u] = ret[u]
      BY <1>1, <2>1
    <2>3. FramesOK(t)'
      BY <1>0, <1>1, <2>1, <2>2 DEF FramesOK, Top
    <2>4. QED
      BY <1>1, <1>3, <2>1, <2>2, <2>3 DEF FrameInv
  <1>8. QED
    BY <1>4, <1>5, <1>6, <1>7, StepMoves

LEMMA StartFrames ==
    ASSUME StackInv, FrameInv, NEW t \in Threads, NEW c \in Calls[t], Start(t, c)
    PROVE  FrameInv'
  <1> DEFINE f == Frame(c.fn, c.src, c.dst)
  <1>1. c \in CallType /\ c.src \in Seq(Names) /\ c.src \in Paths /\ c.dst \in Seq(Names) /\ c.fn \in Fns
    BY CallsAreCalls, PathsAreSequences DEF CallType
  <1>2. /\ call[t] = NoCall /\ stack[t] = <<>> /\ ret[t] = Running /\ handles[t] = 0
    <2>1. call[t] = NoCall
      BY DEF Start
    <2>2. \A d \in CallType : d # NoCall
      BY DEF CallType, NoCall
    <2>3. QED
      BY <2>1, <2>2 DEF StackInv, FrameInv, FramesOK
  <1>3. /\ f \in AnyFrame /\ f.src = c.src /\ f.dst = c.dst /\ f.fn = c.fn /\ f.at = "enter"
        /\ f.seen = {}
    BY <1>1 DEF Frame, AnyFrame, Steps
  <1>4. /\ stack' = [stack EXCEPT ![t] = Append(<<>>, f)] /\ UNCHANGED <<ret, handles>>
        /\ call' = [call EXCEPT ![t] = c]
    BY <1>2 DEF Start, Push
  <1> HIDE DEF f
  <1>5. stack'[t] = <<f>> /\ call'[t] = c
    BY <1>4 DEF StackInv
  <1>6. \A u \in Threads \ {t} : FramesOK(u)'
    BY <1>4 DEF FrameInv, FramesOK, Top
  <1>7. Placed(c, f, 1)
    <2>1. Within(c.src, c.src) /\ Rebase(c.src, c.src, c.dst) = c.dst
      BY <1>1, WithinItself, RebaseWithin
    <2>2. "enter" \in Places(f.fn)
      BY <1>1, <1>3 DEF Places, Fns
    <2>3. Len(f.src) = Len(c.src) + 1 - 1
      BY <1>1, <1>3
    <2>4. QED
      BY <1>1, <1>3, <2>1, <2>2, <2>3 DEF Placed
  <1>8. /\ Len(stack'[t]) = 1 /\ stack'[t][1] = f /\ Last(stack'[t]) = f /\ stack'[t] # <<>>
    BY <1>5 DEF Last
  <1>9. StackShape(c, stack'[t])
    <2>1. \A i \in 1..Len(stack'[t]) : i = 1
      BY <1>8
    <2>2. QED
      BY <1>7, <1>8, <2>1 DEF StackShape
  <1>10. FramesOK(t)'
    <2>1. Held(f.at) = 0
      BY <1>3, HeldIs
    <2>2. c # NoCall
      BY <1>1 DEF CallType, NoCall
    <2>3. QED
      BY <1>2, <1>3, <1>4, <1>5, <1>8, <1>9, <2>1, <2>2 DEF FramesOK, Top
  <1>11. QED
    BY <1>4, <1>6, <1>10 DEF FrameInv

\* However a call ends, and whatever fails at any depth, all that the thread has
\* opened is closed when the function that was called at first returns.
THEOREM ClosesWhatItOpens == Spec => []HandlesClosed
  <1> DEFINE Inv == StackInv /\ FrameInv
  <1>1. Init => Inv
    BY InitTouch, InitFrames DEF TouchInv
  <1>2. Inv /\ [Next]_vars => Inv'
    <2> SUFFICES ASSUME Inv, [Next]_vars PROVE Inv'
      OBVIOUS
    <2>1. CASE UNCHANGED vars
      BY <2>1 DEF vars, StackInv, FrameInv, FramesOK, Top
    <2>2. ASSUME NEW t \in Threads, Step(t) PROVE Inv'
      BY <2>2, StepFits, FitsOn, StepFrames
    <2>3. ASSUME NEW t \in Threads, NEW c \in Calls[t], Start(t, c) PROVE Inv'
      BY <2>3, StartFits, StartFrames
    <2>4. QED
      BY <2>1, <2>2, <2>3 DEF Next
  <1>3. Inv => HandlesClosed
    BY DEF FrameInv, FramesOK, HandlesClosed
  <1>4. QED
    BY <1>1, <1>2, <1>3, PTL DEF Spec

-----------------------------------------------------------------------------
(***************************************************************************)
(* The file system is a tree: what there is, is in a directory.            *)
(***************************************************************************)
FilesInv ==
    /\ fs \in [Paths -> Nodes] /\ fs[<<>>] = Directory
    /\ \A p \in Paths : fs[p] \in {Absent, Directory} \/ IsFile(p)
    /\ \A p, q \in Paths : Within(p, q) /\ p # q /\ Kind(p) # "none" => Kind(q) = "dir"

LEMMA NodesAre ==
    /\ Absent \in Nodes /\ Directory \in Nodes /\ Absent.kind = "none" /\ Directory.kind = "dir"
    /\ \A k \in Kinds, o \in Paths : Node(k, o) \in Nodes /\ Node(k, o).kind = k /\ Node(k, o).of = o
    /\ <<>> \in Paths /\ <<>> \in Seq(Names)
  <1>1. <<>> \in Paths /\ <<>> \in Seq(Names)
    <2>1. \A e \in Seq(Names) : Len(e) <= 0 => e \in Paths
      BY PathsAreShort, DepthIsNat
    <2>2. <<>> \in Seq(Names) /\ Len(<<>>) <= 0
      OBVIOUS
    <2>3. QED
      BY <2>1, <2>2, Zenon
  <1>2. QED
    BY <1>1 DEF Node, Nodes, Kinds, Absent, Directory

LEMMA AllIsInRoot ==
    ASSUME NEW p \in Seq(Names)
    PROVE  Within(p, <<>>) /\ (Within(<<>>, p) => p = <<>>)
  <1>1. \A e \in Seq(Names) : Len(e) <= 0 => Within(p, e) /\ (Within(e, p) => p = e)
    <2> SUFFICES ASSUME NEW e \in Seq(Names), Len(e) <= 0
                 PROVE  Within(p, e) /\ (Within(e, p) => p = e)
      OBVIOUS
    <2>1. Len(p) \in Nat /\ \A i \in 1..Len(e) : e[i] = p[i]
      OBVIOUS
    <2>2. Within(p, e)
      BY <2>1, PrefixNames
    <2>3. ASSUME Within(e, p) PROVE p = e
      BY <2>1, <2>3, WithinLengths
    <2>4. QED
      BY <2>2, <2>3
  <1>2. <<>> \in Seq(Names) /\ Len(<<>>) <= 0
    OBVIOUS
  <1>3. QED
    BY <1>1, <1>2, Zenon

LEMMA PutIs ==
    ASSUME fs \in [Paths -> Nodes], NEW q, NEW v, Put(q, v)
    PROVE  /\ q \notin Paths => fs' = fs
           /\ q \in Paths => fs'[q] = v
           /\ \A p \in Paths : p # q => fs'[p] = fs[p]
           /\ v \in Nodes => fs' \in [Paths -> Nodes]
  BY DEF Put

\* What is above something is a directory, and so on upwards.
LEMMA AboveRoom ==
    ASSUME FilesInv, NEW q \in Paths, HasRoom(q), NEW r \in Paths, Within(q, r), r # q
    PROVE  Kind(r) = "dir"
  <1>1. q \in Seq(Names) /\ r \in Seq(Names) /\ q # <<>>
    BY PathsAreSequences DEF HasRoom
  <1>2. Front(q) \in Seq(Names) /\ Len(Front(q)) = Len(q) - 1 /\ Within(Front(q), r)
    BY <1>1, FrontHolds
  <1>3. Front(q) \in Paths
    <2>1. Len(q) <= Depth /\ Len(q) \in Nat
      BY <1>1, PathsAreShort
    <2>2. Len(Front(q)) <= Depth
      BY <1>2, <2>1, DepthIsNat
    <2>3. QED
      BY <1>2, <2>2, PathsAreShort
  <1>4. Kind(Front(q)) = "dir"
    BY DEF HasRoom
  <1>5. QED
    BY <1>2, <1>3, <1>4 DEF FilesInv

LEMMA FilesHaveRoom ==
    ASSUME FilesInv, NEW q \in Paths, q # <<>>, Kind(q) # "none"
    PROVE  HasRoom(q)
  <1>1. q \in Seq(Names)
    BY PathsAreSequences
  <1>2. Front(q) \in Seq(Names) /\ Len(Front(q)) = Len(q) - 1 /\ Within(q, Front(q))
    BY <1>1, FrontHolds
  <1>3. Front(q) \in Paths /\ Front(q) # q
    <2>1. Len(q) <= Depth /\ Len(q) \in Nat
      BY <1>1, PathsAreShort
    <2>2. Len(Front(q)) <= Depth /\ Len(Front(q)) # Len(q)
      BY <1>2, <2>1, DepthIsNat
    <2>3. QED
      BY <1>2, <2>2, PathsAreShort
  <1>4. QED
    BY <1>2, <1>3 DEF FilesInv, HasRoom

LEMMA NothingInFiles ==
    ASSUME FilesInv, NEW p \in Paths, NEW q \in Paths, Within(p, q), p # q, Kind(q) # "dir"
    PROVE  Kind(p) = "none"
  BY DEF FilesInv

LEMMA NothingInEmpty ==
    ASSUME FilesInv, NEW p \in Paths, NEW q \in Paths, Within(p, q), p # q, Children(q) = {}
    PROVE  Kind(p) = "none"
  <1>1. p \in Seq(Names) /\ q \in Seq(Names) /\ Len(p) <= Depth
    BY PathsAreSequences, PathsAreShort
  <1>2. Len(q) < Len(p)
    BY <1>1, BelowIsInChild
  <1>3. PICK n \in Names : Within(p, Append(q, n))
    BY <1>1, BelowIsInChild
  <1>4. Append(q, n) \in Seq(Names) /\ Len(Append(q, n)) = Len(q) + 1
    BY <1>1, ChildIsAppended
  <1>5. Len(Append(q, n)) <= Depth /\ Len(q) < Depth
    BY <1>1, <1>2, <1>4, DepthIsNat
  <1>6. Append(q, n) \in Paths
    BY <1>4, <1>5, PathsAreShort
  <1>7. Kind(Append(q, n)) = "none"
    BY <1>5 DEF Children
  <1>8. QED
    BY <1>3, <1>6, <1>7, NothingInFiles

LEMMA TreeLessOne ==
    ASSUME FilesInv, NEW q, IsFile(q) \/ IsEmptyDirectory(q), Put(q, Absent)
    PROVE  FilesInv'
  <1>1. CASE q \notin Paths
    BY <1>1, PutIs DEF FilesInv, Kind, IsFile
  <1>2. CASE q \in Paths
    <2>1. q # <<>>
      BY NodesAre DEF FilesInv, IsFile, IsEmptyDirectory, Kind
    <2>2. /\ fs' \in [Paths -> Nodes] /\ fs'[q] = Absent
          /\ \A p \in Paths : p # q => fs'[p] = fs[p]
      BY <1>2, PutIs, NodesAre DEF FilesInv
    <2>3. \A p \in Paths : Within(p, q) /\ p # q => Kind(p) = "none"
      BY <1>2, NothingInFiles, NothingInEmpty DEF IsFile, IsEmptyDirectory
    <2>4. fs'[<<>>] = Directory
      BY <2>1, <2>2, NodesAre DEF FilesInv
    <2>5. ASSUME NEW p \in Paths PROVE fs'[p] \in {Absent, Directory} \/ IsFile(p)'
      BY <2>2 DEF FilesInv, IsFile, Kind
    <2>6. ASSUME NEW p \in Paths, NEW r \in Paths, Within(p, r), p # r, fs'[p].kind # "none"
          PROVE  fs'[r].kind = "dir"
      <3>1. p # q /\ Kind(p) # "none"
        BY <2>2, <2>6, NodesAre DEF Kind
      <3>2. r # q
        BY <2>3, <2>6, <3>1
      <3>3. QED
        BY <2>2, <2>6, <3>1, <3>2 DEF FilesInv, Kind
    <2>7. QED
      BY <2>2, <2>4, <2>5, <2>6 DEF FilesInv, Kind
  <1>3. QED
    BY <1>1, <1>2

LEMMA TreePlusOne ==
    ASSUME FilesInv, NEW q \in Paths, HasRoom(q), Kind(q) # "dir",
           NEW v \in Nodes, v = Directory \/ v.kind \in {"file", "cut"}, Put(q, v)
    PROVE  FilesInv'
  <1>1. q # <<>>
    BY DEF HasRoom
  <1>2. /\ fs' \in [Paths -> Nodes] /\ fs'[q] = v
        /\ \A p \in Paths : p # q => fs'[p] = fs[p]
    BY PutIs DEF FilesInv
  <1>3. fs'[<<>>] = Directory
    BY <1>1, <1>2, NodesAre DEF FilesInv
  <1>4. ASSUME NEW p \in Paths PROVE fs'[p] \in {Absent, Directory} \/ IsFile(p)'
    BY <1>2 DEF FilesInv, IsFile, Kind
  <1>5. ASSUME NEW p \in Paths, NEW r \in Paths, Within(p, r), p # r, fs'[p].kind # "none"
        PROVE  fs'[r].kind = "dir"
    <2>1. CASE p = q
      <3>1. Kind(r) = "dir"
        BY <1>5, <2>1, AboveRoom
      <3>2. QED
        BY <1>2, <1>5, <2>1, <3>1 DEF Kind
    <2>2. CASE p # q
      <3>1. Kind(p) # "none" /\ Kind(r) = "dir"
        BY <1>2, <1>5, <2>2 DEF FilesInv, Kind
      <3>2. r # q
        BY <3>1
      <3>3. QED
        BY <1>2, <3>1, <3>2 DEF Kind
    <2>3. QED
      BY <2>1, <2>2
  <1>6. QED
    BY <1>2, <1>3, <1>4, <1>5 DEF FilesInv, Kind

LEMMA RenamedIs ==
    ASSUME NEW s, NEW d, fs' = Renamed(s, d), NEW p \in Paths
    PROVE  /\ Within(p, s) => fs'[p] = Absent
           /\ ~Within(p, s) /\ Within(p, d) /\ Rebase(p, d, s) \in Paths => fs'[p] = fs[Rebase(p, d, s)]
           /\ ~Within(p, s) /\ ~(Within(p, d) /\ Rebase(p, d, s) \in Paths) => fs'[p] = fs[p]
  BY DEF Renamed

LEMMA TreeRenamed ==
    ASSUME FilesInv, NEW s \in Paths, NEW d \in Seq(Names), CanRename(s, d), fs' = Renamed(s, d)
    PROVE  FilesInv'
  <1>0. /\ s \in Seq(Names) /\ d \in Paths /\ HasRoom(d) /\ d # <<>> /\ Kind(d) = "none" /\ ~Within(d, s)
    BY PathsAreSequences DEF CanRename, CanCreate, HasRoom
  <1>1. s # <<>>
    BY <1>0, AllIsInRoot
  <1>2. fs' \in [Paths -> Nodes]
    BY NodesAre DEF Renamed, FilesInv
  <1>3. fs'[<<>>] = Directory
    <2>1. ASSUME NEW r \in Seq(Names), r # <<>> PROVE ~Within(<<>>, r)
      BY <2>1, AllIsInRoot
    <2>2. QED
      BY <1>0, <1>1, <2>1, NodesAre, RenamedIs DEF FilesInv
  <1>4. ASSUME NEW p \in Paths PROVE fs'[p] \in {Absent, Directory} \/ IsFile(p)'
    <2>1. PICK q \in Paths : fs'[p] = Absent \/ fs'[p] = fs[q]
      BY RenamedIs
    <2>2. QED
      BY <2>1 DEF FilesInv, IsFile, Kind
  <1>5. ASSUME NEW p \in Paths, NEW q \in Paths, Within(p, q), p # q, fs'[p].kind # "none"
        PROVE  fs'[q].kind = "dir"
    <2>0. p \in Seq(Names) /\ q \in Seq(Names) /\ Len(p) <= Depth /\ Len(q) < Len(p)
      BY <1>5, PathsAreSequences, PathsAreShort, BelowIsInChild
    <2>1. ~Within(p, s) /\ ~Within(q, s)
      <3>1. ~Within(p, s)
        BY <1>5, NodesAre, RenamedIs
      <3>2. QED
        BY <1>0, <1>5, <2>0, <3>1, WithinWithin
    <2>2. CASE Within(p, d) /\ Rebase(p, d, s) \in Paths
      <3> DEFINE rp == Rebase(p, d, s)
      <3>1. fs'[p] = fs[rp] /\ Kind(rp) # "none"
        BY <1>5, <2>1, <2>2, RenamedIs DEF Kind
      <3>2. CASE Within(q, d)
        <4> DEFINE rq == Rebase(q, d, s)
        <4>1. Within(rp, rq)
          BY <1>0, <1>5, <2>0, <3>2, RebaseOfWithin
        <4>2. rq \in Seq(Names) /\ rp \in Seq(Names) /\ Len(rq) < Len(rp)
          BY <1>0, <2>0, <2>2, <3>2, RebaseNames
        <4>3. Len(rq) <= Depth
          <5>1. Len(rp) <= Depth
            BY <2>2, <4>2, PathsAreShort
          <5> HIDE DEF rp, rq
          <5>2. QED
            BY <4>2, <5>1, DepthIsNat
        <4>4. rq \in Paths
          BY <4>2, <4>3, PathsAreShort
        <4>5. Kind(rq) = "dir"
          <5> HIDE DEF rp, rq
          <5>1. rq # rp
            BY <4>2
          <5>2. QED
            BY <2>2, <3>1, <4>1, <4>4, <5>1 DEF FilesInv, rp
        <4>6. QED
          BY <2>1, <3>2, <4>4, <4>5, RenamedIs DEF Kind
      <3>3. CASE ~Within(q, d)
        <4>1. Len(q) < Len(d)
          <5>1. ~(Len(d) <= Len(q))
            BY <1>0, <1>5, <2>0, <2>2, <3>3, WithinBoth
          <5>2. QED
            BY <1>0, <2>0, <5>1
        <4>2. Within(d, q) /\ q # d
          BY <1>0, <1>5, <2>0, <2>2, <4>1, WithinBoth
        <4>3. Kind(q) = "dir"
          BY <1>0, <4>2, AboveRoom
        <4>4. QED
          BY <2>1, <3>3, <4>3, RenamedIs DEF Kind
      <3>4. QED
        BY <3>2, <3>3
    <2>3. CASE ~Within(p, d)
      <3>1. fs'[p] = fs[p] /\ Kind(p) # "none"
        BY <1>5, <2>1, <2>3, RenamedIs DEF Kind
      <3>2. ~Within(q, d)
        BY <1>0, <1>5, <2>0, <2>3, WithinWithin
      <3>3. fs'[q] = fs[q]
        BY <2>1, <3>2, RenamedIs
      <3>4. QED
        BY <1>5, <3>1, <3>3 DEF FilesInv, Kind
    <2>4. CASE Within(p, d) /\ Rebase(p, d, s) \notin Paths
      <3>1. p # d
        BY <1>0, <2>4, RebaseWithin
      <3>2. Kind(p) = "none"
        BY <1>0, <2>4, <3>1, NothingInFiles
      <3>3. fs'[p] = fs[p]
        BY <2>1, <2>4, RenamedIs
      <3>4. QED
        BY <1>5, <3>2, <3>3 DEF Kind
    <2>5. QED
      BY <2>2, <2>3, <2>4
  <1>6. QED
    BY <1>2, <1>3, <1>4, <1>5 DEF FilesInv, Kind

\* The innermost call, and where it is.
LEMMA TopIsPlaced ==
    ASSUME StackInv, FrameInv, NEW t \in Threads, stack[t] # <<>>
    PROVE  /\ call[t] \in CallType /\ call[t].src \in Seq(Names) /\ call[t].dst \in Seq(Names)
           /\ Top(t) \in AnyFrame /\ Fits(call[t], Top(t)) /\ Placed(call[t], Top(t), Len(stack[t]))
           /\ Top(t).src \in Paths /\ Top(t).src \in Seq(Names) /\ Top(t).dst \in Seq(Names)
           /\ Top(t).at \in Places(Top(t).fn)
  <1>1. Placed(call[t], Top(t), Len(stack[t]))
    BY TopIs DEF FrameInv, FramesOK, StackShape
  <1>2. QED
    BY <1>1, TopFits, PathsAreSequences DEF Placed, AnyFrame

LEMMA StepFiles ==
    ASSUME StackInv, FrameInv, FilesInv, NEW t \in Threads, Step(t)
    PROVE  FilesInv'
  <1> DEFINE f == Top(t)
  <1>0. f.src \in Paths /\ f.dst \in Seq(Names)
    BY StepFits, TopIsPlaced
  <1>1. CASE UNCHANGED fs
    BY <1>1 DEF FilesInv, Kind, IsFile
  <1>2. CASE RemoveFile(t) \/ RemoveDirectory(t) \/ RemoveSingle(t) \/ UndoCopy(t) \/ CloseMerge(t)
    <2>1. \/ \E q : (IsFile(q) \/ IsEmptyDirectory(q)) /\ Put(q, Absent)
          \/ UNCHANGED fs
      BY <1>2 DEF RemoveFile, RemoveDirectory, RemoveSingle, RemoveLast, UndoCopy, CloseMerge, Stays
    <2>2. QED
      BY <1>1, <2>1, TreeLessOne
  <1>3. CASE MakeDirectory(t)
    <2>1. (CanCreate(f.dst) /\ Put(f.dst, Directory)) \/ UNCHANGED fs
      BY <1>3 DEF MakeDirectory, Stays
    <2>2. QED
      BY <1>1, <2>1, TreePlusOne, NodesAre DEF CanCreate, HasRoom
  <1>4. CASE OpenDestination(t)
    <2>1. (HasRoom(f.dst) /\ Kind(f.dst) # "dir" /\ Put(f.dst, Node("cut", fs[f.src].of))) \/ UNCHANGED fs
      BY <1>4 DEF OpenDestination, Stays
    <2>2. fs[f.src].of \in Paths /\ "cut" \in Kinds
      BY <1>0 DEF FilesInv, Nodes, Kinds
    <2>3. Node("cut", fs[f.src].of) \in Nodes /\ Node("cut", fs[f.src].of).kind = "cut"
      BY <2>2, NodesAre
    <2>4. QED
      BY <1>1, <2>1, <2>3, TreePlusOne DEF HasRoom
  <1>5. CASE CopyData(t)
    <2>1. (Kind(f.dst) = "cut" /\ Put(f.dst, Node("file", fs[f.dst].of))) \/ Put(f.dst, fs[f.dst]) \/ UNCHANGED fs
      BY <1>5 DEF CopyData, Stays
    <2>2. CASE Put(f.dst, fs[f.dst]) \/ f.dst \notin Paths
      <3>1. UNCHANGED fs
        BY <2>1, <2>2 DEF Put, FilesInv
      <3>2. QED
        BY <1>1, <3>1
    <2>3. CASE f.dst \in Paths /\ Kind(f.dst) = "cut" /\ Put(f.dst, Node("file", fs[f.dst].of))
      <3>1. fs[f.dst].of \in Paths /\ "file" \in Kinds
        BY <2>3 DEF FilesInv, Nodes, Kinds
      <3>2. Node("file", fs[f.dst].of) \in Nodes /\ Node("file", fs[f.dst].of).kind = "file"
        BY <3>1, NodesAre
      <3>3. f.dst # <<>>
        BY <2>3, NodesAre DEF FilesInv, Kind
      <3>4. HasRoom(f.dst)
        BY <2>3, <3>3, FilesHaveRoom
      <3>5. QED
        BY <2>3, <3>2, <3>4, TreePlusOne
    <2>4. QED
      BY <1>1, <2>1, <2>2, <2>3
  <1>6. CASE Rename(t) \/ RenameAgain(t)
    <2>1. \/ CanRename(f.src, f.dst) /\ fs' = Renamed(f.src, f.dst)
          \/ IsFile(f.dst) /\ Put(f.dst, Absent)
          \/ UNCHANGED fs
      BY <1>6 DEF Rename, RenameAgain, Stays
    <2>2. QED
      BY <1>0, <1>1, <2>1, TreeRenamed, TreeLessOne
  <1>7. QED
    BY <1>1, <1>2, <1>3, <1>4, <1>5, <1>6
    DEF Step, Resume, Refuse, OpenDirectory, EndOfList, Recurse, CountFile, CountSingle, OpenSource,
        OpenMerge, Stays

LEMMA InitFiles == Init => FilesInv
  <1> SUFFICES ASSUME Init PROVE FilesInv
    OBVIOUS
  <1>1. /\ fs \in [Paths -> Nodes] /\ fs[<<>>] = Directory
        /\ \A p \in Paths : fs[p] \in {Absent, Directory, Node("file", p)}
        /\ \A p, q \in Paths : IsStrictPrefix(q, p) /\ fs[p] # Absent => fs[q] = Directory
    BY TreesAreTrees DEF Init
  <1>2. ASSUME NEW p \in Paths PROVE fs[p] \in {Absent, Directory} \/ IsFile(p)
    <2>1. Node("file", p).kind = "file"
      BY DEF Node
    <2>2. QED
      BY <1>1, <2>1 DEF IsFile, Kind
  <1>3. ASSUME NEW p \in Paths, NEW q \in Paths, Within(p, q), p # q, Kind(p) # "none"
        PROVE  Kind(q) = "dir"
    <2>1. fs[p] # Absent
      BY <1>3, NodesAre DEF Kind
    <2>2. IsStrictPrefix(q, p)
      BY <1>3 DEF IsStrictPrefix, Within
    <2>3. QED
      BY <1>1, <2>1, <2>2, NodesAre DEF Kind
  <1>4. QED
    BY <1>1, <1>2, <1>3 DEF FilesInv

-----------------------------------------------------------------------------
(***************************************************************************)
(* Types                                                                   *)
(***************************************************************************)
HistoryOK ==
    /\ \A t \in Threads : call[t] = NoCall \/ call[t] \in Calls[t]
    /\ value \in [Threads -> Nat]
    /\ before \in [Threads -> [Paths -> Nodes]] /\ alone \in [Threads -> BOOLEAN]
    /\ mishaps \subseteq {"dread", "cleanup", "short", "rename", "other"}

\* All of the above.
TreeInv == StackInv /\ FrameInv /\ FilesInv /\ HistoryOK

LEMMA StepHistory == ASSUME TreeInv, NEW t \in Threads, Step(t) PROVE HistoryOK'
  <1>1. UNCHANGED <<call, before, alone>>
    BY StepFits DEF TreeInv
  <1>2. UNCHANGED value \/ Counts(t)
    <2>1. CASE \/ Resume(t) \/ Refuse(t) \/ OpenDirectory(t) \/ EndOfList(t) \/ Recurse(t)
               \/ CountFile(t) \/ CountSingle(t)
      BY <2>1 DEF Resume, Refuse, OpenDirectory, EndOfList, Recurse, CountFile, CountSingle
    <2>2. CASE RemoveFile(t) \/ RemoveDirectory(t) \/ RemoveSingle(t)
      BY <2>2 DEF RemoveFile, RemoveDirectory, RemoveSingle, RemoveLast, Progress
    <2>3. CASE \/ MakeDirectory(t) \/ OpenSource(t) \/ OpenDestination(t) \/ CopyData(t)
               \/ UndoCopy(t)
      BY <2>3 DEF MakeDirectory, OpenSource, OpenDestination, CopyData, UndoCopy, Progress
    <2>4. CASE Rename(t) \/ RenameAgain(t) \/ OpenMerge(t) \/ CloseMerge(t)
      BY <2>4 DEF Rename, RenameAgain, OpenMerge, CloseMerge
    <2>5. QED
      BY <2>1, <2>2, <2>3, <2>4 DEF Step
  <1>3. UNCHANGED mishaps \/ \E m \in {"dread", "cleanup", "short", "rename", "other"} : Mishap(m)
    <2>1. CASE \/ Resume(t) \/ Refuse(t) \/ OpenDirectory(t) \/ EndOfList(t) \/ Recurse(t)
               \/ CountFile(t) \/ CountSingle(t)
      BY <2>1 DEF Resume, Refuse, OpenDirectory, EndOfList, Recurse, CountFile, CountSingle, Happy
    <2>2. CASE RemoveFile(t) \/ RemoveDirectory(t) \/ RemoveSingle(t)
      BY <2>2 DEF RemoveFile, RemoveDirectory, RemoveSingle, RemoveLast, Happy
    <2>3. CASE \/ MakeDirectory(t) \/ OpenSource(t) \/ OpenDestination(t) \/ CopyData(t)
               \/ UndoCopy(t)
      BY <2>3 DEF MakeDirectory, OpenSource, OpenDestination, CopyData, UndoCopy, Happy
    <2>4. CASE Rename(t) \/ RenameAgain(t) \/ OpenMerge(t) \/ CloseMerge(t)
      BY <2>4 DEF Rename, RenameAgain, OpenMerge, CloseMerge, Happy
    <2>5. QED
      BY <2>1, <2>2, <2>3, <2>4 DEF Step
  <1>4. value' \in [Threads -> Nat]
    BY <1>2 DEF Counts, TreeInv, HistoryOK
  <1>5. mishaps' \subseteq {"dread", "cleanup", "short", "rename", "other"}
    BY <1>3 DEF Mishap, TreeInv, HistoryOK
  <1>6. QED
    BY <1>1, <1>4, <1>5 DEF TreeInv, HistoryOK

LEMMA StepTree == ASSUME TreeInv, NEW t \in Threads, Step(t) PROVE TreeInv'
  <1>1. StackInv'
    BY StepFits, FitsOn DEF TreeInv
  <1>2. QED
    BY <1>1, StepFrames, StepFiles, StepHistory DEF TreeInv

LEMMA StartTree ==
    ASSUME TreeInv, NEW t \in Threads, NEW c \in Calls[t], Start(t, c)
    PROVE  TreeInv'
  <1>1. /\ UNCHANGED <<fs, value, mishaps>> /\ call' = [call EXCEPT ![t] = c]
        /\ before' = [before EXCEPT ![t] = fs]
        /\ alone' = [u \in Threads |-> u = t /\ \A v \in Threads \ {t} : stack[v] = <<>>]
    BY DEF Start
  <1>2. FilesInv'
    BY <1>1 DEF TreeInv, FilesInv, Kind, IsFile
  <1>3. ASSUME NEW u \in Threads PROVE call'[u] = NoCall \/ call'[u] \in Calls[u]
    <2>1. call'[t] = c /\ (u # t => call'[u] = call[u])
      BY <1>1 DEF TreeInv, StackInv
    <2>2. QED
      BY <2>1 DEF TreeInv, HistoryOK
  <1>4. before' \in [Threads -> [Paths -> Nodes]]
    BY <1>1 DEF TreeInv, HistoryOK, FilesInv
  <1>5. alone' \in [Threads -> BOOLEAN]
    BY <1>1
  <1>6. HistoryOK'
    BY <1>1, <1>3, <1>4, <1>5 DEF TreeInv, HistoryOK
  <1>7. QED
    BY <1>2, <1>6, StartFits, StartFrames DEF TreeInv

LEMMA InitTree == Init => TreeInv
  <1> SUFFICES ASSUME Init PROVE TreeInv
    OBVIOUS
  <1>1. StackInv /\ FrameInv /\ FilesInv
    BY InitTouch, InitFrames, InitFiles DEF TouchInv
  <1>2. HistoryOK
    BY <1>1 DEF HistoryOK, Init, FilesInv
  <1>3. QED
    BY <1>1, <1>2 DEF TreeInv

LEMMA TreeAlways == Spec => []TreeInv
  <1>1. TreeInv /\ [Next]_vars => TreeInv'
    <2> SUFFICES ASSUME TreeInv, [Next]_vars PROVE TreeInv'
      OBVIOUS
    <2>1. CASE UNCHANGED vars
      BY <2>1 DEF vars, TreeInv, StackInv, FrameInv, FramesOK, Top, FilesInv, HistoryOK, Kind, IsFile
    <2>2. QED
      BY <2>1, StepTree, StartTree DEF Next
  <1>2. QED
    BY <1>1, InitTree, PTL DEF Spec

\* A call's frames are for ever deeper paths, and a path is of bounded length.
LEMMA StackIsBounded ==
    ASSUME StackInv, FrameInv, NEW t \in Threads
    PROVE  stack[t] \in Seq(Frames) /\ Len(stack[t]) <= Depth + 1
  <1> DEFINE s == stack[t]
             c == call[t]
  <1>1. CASE s = <<>>
    BY <1>1, DepthIsNat
  <1>2. CASE s # <<>>
    <2>1. /\ s \in Seq(AnyFrame) /\ Len(s) \in Nat \ {0} /\ Len(s) \in 1..Len(s)
          /\ c \in CallType /\ c.src \in Seq(Names) /\ StackShape(c, s)
      BY <1>2, TopIs, TopFits DEF FrameInv, FramesOK
    <2> HIDE DEF s, c
    <2>2. ASSUME NEW i \in 1..Len(s) PROVE s[i] \in Frames
      <3>1. s[i] \in AnyFrame /\ s[i].src \in Paths
        BY <2>1 DEF StackShape, Placed
      <3>2. QED
        BY <3>1 DEF AnyFrame, Frames, Steps
    <2>3. s \in Seq(Frames)
      BY <2>1, <2>2
    <2>4. Len(s) <= Depth + 1
      <3>1. s[Len(s)].src \in Paths /\ Len(s[Len(s)].src) = Len(c.src) + Len(s) - 1
        BY <2>1 DEF StackShape, Placed
      <3>2. ASSUME NEW p \in Paths PROVE Len(p) \in Nat /\ Len(p) <= Depth
        <4>1. p \in Seq(Names)
          BY PathsAreSequences
        <4>2. QED
          BY <4>1, PathsAreShort
      <3>3. Len(s[Len(s)].src) <= Depth /\ Len(c.src) \in Nat
        BY <2>1, <3>1, <3>2
      <3>4. QED
        BY <2>1, <3>1, <3>3, DepthIsNat
    <2>5. QED
      BY <2>3, <2>4 DEF s
  <1>3. QED
    BY <1>1, <1>2

\* Nothing that the functions do has the wrong type, for any tree and any depth;
\* no recursion goes deeper than the tree, and no handle is closed that is not open.
THEOREM TypesHold == Spec => []TypeOK
  <1>1. TreeInv => TypeOK
    <2> SUFFICES ASSUME TreeInv PROVE TypeOK
      OBVIOUS
    <2>1. handles \in [Threads -> Nat]
      <3>1. ASSUME NEW t \in Threads PROVE handles[t] \in Nat
        <4>1. stack[t] # <<>> => Len(stack[t]) \in Nat \ {0}
          BY TopIs DEF TreeInv
        <4>2. Held(Top(t).at) \in Nat
          BY DEF Held
        <4>3. QED
          BY <4>1, <4>2 DEF TreeInv, FrameInv, FramesOK
      <3>2. QED
        BY <3>1 DEF TreeInv, FrameInv
    <2>2. \A t \in Threads : stack[t] \in Seq(Frames) /\ Len(stack[t]) <= Depth + 1
      BY StackIsBounded DEF TreeInv
    <2>3. QED
      BY <2>1, <2>2 DEF TreeInv, FrameInv, FilesInv, HistoryOK, TypeOK
  <1>2. QED
    BY <1>1, TreeAlways, PTL

-----------------------------------------------------------------------------
(***************************************************************************)
(* All that holds of whatever the threads do; what the properties of one   *)
(* thread's call, when nobody disturbs it, are proved from.                *)
(***************************************************************************)
CalmInv == TreeInv /\ TouchInv

LEMMA StepCalm ==
    ASSUME CalmInv, NEW t \in Threads, Step(t)
    PROVE  /\ CalmInv' /\ UNCHANGED <<call, before, alone>> /\ stack[t] # <<>>
           /\ call[t] \in CallType /\ call[t].src \in Paths /\ call[t].dst \in Paths
           /\ \A u \in Threads \ {t} : ~alone[u] /\ stack'[u] = stack[u] /\ ret'[u] = ret[u]
  <1>1. CalmInv' /\ UNCHANGED <<call, before, alone>> /\ stack[t] # <<>>
    BY StepTree, StepTouch, StepFits DEF CalmInv, TreeInv
  <1>2. \A u \in Threads \ {t} : ~alone[u]
    BY <1>1 DEF CalmInv, TouchInv, AloneInv
  <1>3. \A u \in Threads \ {t} : stack'[u] = stack[u]
    BY StepFits, FitsOn DEF CalmInv, TreeInv
  <1>4. \A u \in Threads \ {t} : ret'[u] = ret[u]
    <2>1. UNCHANGED ret \/ \E r : ret' = [ret EXCEPT ![t] = r]
      BY StepMoves DEF CalmInv, TreeInv, Returned, Turned, Entered, WentOn
    <2>2. QED
      BY <2>1 DEF CalmInv, TreeInv, FrameInv
  <1>5. call[t] \in CallType /\ call[t].src \in Paths /\ call[t].dst \in Paths
    BY <1>1 DEF CalmInv, TreeInv, StackInv, CallType
  <1>6. QED
    BY <1>1, <1>2, <1>3, <1>4, <1>5

LEMMA StartCalm ==
    ASSUME CalmInv, NEW t \in Threads, NEW c \in Calls[t], Start(t, c)
    PROVE  /\ CalmInv' /\ UNCHANGED <<fs, ret, mishaps>>
           /\ c \in CallType /\ c.src \in Paths /\ c.dst \in Paths
           /\ call[t] = NoCall /\ call'[t] = c /\ before'[t] = fs /\ ret[t] = Running
           /\ stack'[t] # <<>> /\ Len(stack'[t]) = 1 /\ stack'[t][1] = Frame(c.fn, c.src, c.dst)
           /\ Top(t)' = Frame(c.fn, c.src, c.dst)
           /\ \A u \in Threads \ {t} :
                 /\ ~alone'[u] /\ stack'[u] = stack[u] /\ call'[u] = call[u] /\ before'[u] = before[u]
  <1> DEFINE f == Frame(c.fn, c.src, c.dst)
  <1>1. CalmInv'
    BY StartTree, StartTouch DEF CalmInv
  <1>2. /\ UNCHANGED <<fs, ret, mishaps>> /\ call[t] = NoCall
        /\ call' = [call EXCEPT ![t] = c] /\ before' = [before EXCEPT ![t] = fs]
        /\ alone' = [u \in Threads |-> u = t /\ \A v \in Threads \ {t} : stack[v] = <<>>]
        /\ stack' = [stack EXCEPT ![t] = Append(stack[t], f)]
    BY DEF Start, Push
  <1>3. stack[t] = <<>> /\ ret[t] = Running
    <2>1. \A d \in CallType : d # NoCall
      BY DEF CallType, NoCall
    <2>2. QED
      BY <1>2, <2>1 DEF CalmInv, TreeInv, StackInv, FrameInv, FramesOK
  <1>4. c \in CallType /\ c.src \in Paths /\ c.dst \in Paths
    BY CallsAreCalls DEF CallType
  <1> HIDE DEF f
  <1>5. stack'[t] = <<f>>
    BY <1>2, <1>3 DEF CalmInv, TreeInv, StackInv
  <1>6. stack'[t] # <<>> /\ Len(stack'[t]) = 1 /\ stack'[t][1] = f /\ Top(t)' = f
    BY <1>5 DEF Top, Last
  <1>7. call'[t] = c /\ before'[t] = fs
    BY <1>2 DEF CalmInv, TreeInv, StackInv, HistoryOK
  <1>8. ASSUME NEW u \in Threads \ {t}
        PROVE  ~alone'[u] /\ stack'[u] = stack[u] /\ call'[u] = call[u] /\ before'[u] = before[u]
    BY <1>2 DEF CalmInv, TreeInv, StackInv, HistoryOK
  <1>9. QED
    BY <1>1, <1>2, <1>3, <1>4, <1>6, <1>7, <1>8 DEF f

LEMMA InitCalm == Init => CalmInv
  BY InitTree, InitTouch DEF CalmInv

LEMMA CalmStutters == CalmInv /\ UNCHANGED vars => CalmInv'
  BY DEF vars, CalmInv, TreeInv, StackInv, FrameInv, FramesOK, Top, FilesInv, HistoryOK, Kind, IsFile,
         TouchInv, FilesOK, AloneInv, OnlyItsOwn, Alone, Was

\* A thread that has not made a call is none that a property is about.
LEMMA NotCalled == NoCall.fn \notin Fns
  BY DEF NoCall, Fns

\* Which step a thread takes, from where it is.
LEMMA StepIsAt ==
    ASSUME NEW t \in Threads, Step(t)
    PROVE  /\ stack[t] # <<>>
           /\ ret[t] # Running => Resume(t)
           /\ ret[t] = Running =>
                 /\ ~Resume(t)
                 /\ Top(t).at = "enter" =>
                       Refuse(t) \/ OpenDirectory(t) \/ OpenSource(t) \/ Rename(t)
                 /\ Top(t).at = "list" => EndOfList(t) \/ Recurse(t) \/ CountFile(t) \/ RemoveFile(t)
                 /\ Top(t).at = "end" => RemoveDirectory(t) \/ CloseMerge(t)
                 /\ Top(t).at = "single" => CountSingle(t) \/ RemoveSingle(t)
                 /\ Top(t).at = "mkdir" => MakeDirectory(t)
                 /\ Top(t).at = "opendst" => OpenDestination(t)
                 /\ Top(t).at = "data" => CopyData(t)
                 /\ Top(t).at = "undo" => UndoCopy(t)
                 /\ Top(t).at = "again" => RenameAgain(t)
                 /\ Top(t).at = "merge" => OpenMerge(t)
  BY DEF Step, Resume, Refuse, OpenDirectory, EndOfList, Recurse, CountFile, CountSingle,
         RemoveFile, RemoveDirectory, RemoveSingle, RemoveLast, MakeDirectory, OpenSource,
         OpenDestination, CopyData, UndoCopy, Rename, RenameAgain, OpenMerge, CloseMerge, In

\* What has failed once has failed.
LEMMA MishapsStay ==
    ASSUME NEW t \in Threads, Step(t)
    PROVE  mishaps \subseteq mishaps'
  BY DEF Step, Resume, Refuse, OpenDirectory, EndOfList, Recurse, CountFile, CountSingle,
         RemoveFile, RemoveDirectory, RemoveSingle, RemoveLast, MakeDirectory, OpenSource,
         OpenDestination, CopyData, UndoCopy, Rename, RenameAgain, OpenMerge, CloseMerge, Mishap, Happy

(***************************************************************************)
(* Halves                                                                  *)
(***************************************************************************)
\* A file that is incomplete is the one that is written, unless it is known why not.
Excused == mishaps \cap {"cleanup", "short"} # {}

HalfInv ==
    \A t \in Threads : Alone(t, {"copy"}) =>
        \A p \in Paths : Kind(p) = "cut" /\ Was(t, p).kind # "cut" =>
            \/ Excused
            \/ /\ stack[t] # <<>> /\ Top(t).fn = "copyfile" /\ Top(t).at \in {"data", "undo"}
               /\ Top(t).dst = p

LEMMA StepHalf == ASSUME CalmInv, HalfInv, NEW t \in Threads, Step(t) PROVE HalfInv'
  <1> DEFINE f == Top(t)
  <1>0. /\ stack[t] # <<>> /\ UNCHANGED <<call, before, alone>>
        /\ \A u \in Threads \ {t} : ~alone[u]
        /\ StackInv /\ FrameInv /\ fs \in [Paths -> Nodes]
    BY StepCalm DEF CalmInv, TreeInv, FilesInv
  <1> SUFFICES ASSUME Alone(t, {"copy"}), NEW p \in Paths, Kind(p)' = "cut", Was(t, p).kind # "cut"
               PROVE  \/ Excused'
                      \/ /\ stack'[t] # <<>> /\ Top(t)'.fn = "copyfile"
                         /\ Top(t)'.at \in {"data", "undo"} /\ Top(t)'.dst = p
    BY <1>0 DEF HalfInv, Alone, Was
  <1>1. /\ f \in AnyFrame /\ f.fn \in {"copy", "copyfile"} /\ f.dst \in Seq(Names)
        /\ ret[t] # Running => f.at = "list"
    BY <1>0, TopIsPlaced DEF Alone, Fits, FrameInv, FramesOK
  <1>2. Excused => Excused'
    <2>1. mishaps \subseteq mishaps'
      BY MishapsStay
    <2>2. QED
      BY <2>1 DEF Excused
  <1>3. Kind(p) = "cut" => \/ Excused
                           \/ f.fn = "copyfile" /\ f.at \in {"data", "undo"} /\ f.dst = p
    BY DEF HalfInv
  <1>4. CASE f.at \notin {"data", "undo"} /\ ~OpenDestination(t)
    <2>1. UNCHANGED fs \/ Put(f.dst, Directory)
      BY <1>1, <1>4
      DEF Step, Resume, Refuse, OpenDirectory, EndOfList, Recurse, CountFile, CountSingle,
          RemoveFile, RemoveDirectory, RemoveSingle, RemoveLast, MakeDirectory, OpenSource,
          CopyData, UndoCopy, Rename, RenameAgain, OpenMerge, CloseMerge, In, Stays
    <2>2. Kind(p) = "cut"
      BY <1>0, <2>1, PutIs, NodesAre DEF Kind
    <2>3. QED
      BY <1>2, <1>3, <1>4, <2>2
  <1>5. CASE OpenDestination(t)
    <2>0. f.at = "opendst" /\ f.fn = "copyfile"
      BY <1>5 DEF OpenDestination, In
    <2>1. CASE UNCHANGED fs
      BY <1>2, <1>3, <2>0, <2>1 DEF Kind
    <2>2. CASE (\E v : Put(f.dst, v)) /\ GoTo(t, "data")
      <3>1. CASE p # f.dst
        <4>1. Kind(p) = "cut"
          BY <1>0, <2>2, <3>1, PutIs DEF Kind
        <4>2. QED
          BY <1>2, <1>3, <2>0, <4>1
      <3>2. CASE p = f.dst
        <4> DEFINE g == AtPlace(f, "data")
        <4>1. g \in AnyFrame /\ g.fn = f.fn /\ g.dst = f.dst /\ g.at = "data"
          BY <1>1 DEF AtPlace, AnyFrame, Steps
        <4>2. Turns(t, g)
          BY <1>0, <2>2, HelpersTurn
        <4> HIDE DEF g
        <4>3. stack'[t] # <<>> /\ Top(t)' = g
          BY <1>0, <4>1, <4>2, AfterTurn
        <4>4. QED
          BY <2>0, <3>2, <4>1, <4>3
      <3>3. QED
        BY <3>1, <3>2
    <2>3. QED
      BY <1>5, <2>1, <2>2 DEF OpenDestination, Stays
  <1>6. CASE f.at = "data"
    <2>0. CopyData(t)
      BY <1>1, <1>6, StepIsAt DEF Running
    <2>1. CASE Put(f.dst, IF Kind(f.dst) = "cut" THEN Node("file", fs[f.dst].of) ELSE fs[f.dst])
      <3>1. p # f.dst
        BY <1>0, <2>1, PutIs DEF Node, Kind
      <3>2. Kind(p) = "cut"
        BY <1>0, <2>1, <3>1, PutIs DEF Kind
      <3>3. QED
        BY <1>2, <1>3, <3>1, <3>2
    <2>2. ASSUME NEW r \in {Cancelled, Failed}, GoUndo(t, r), UNCHANGED fs
          PROVE  \/ Excused'
                 \/ /\ stack'[t] # <<>> /\ Top(t)'.fn = "copyfile"
                    /\ Top(t)'.at \in {"data", "undo"} /\ Top(t)'.dst = p
      <3> DEFINE g == Undoing(f, r)
      <3>1. g \in AnyFrame /\ g.fn = f.fn /\ g.dst = f.dst /\ g.at = "undo"
        BY <1>1, UndoingIs
      <3>2. Turns(t, g)
        BY <1>0, <2>2, HelpersTurn
      <3> HIDE DEF g
      <3>3. stack'[t] # <<>> /\ Top(t)' = g
        BY <1>0, <3>1, <3>2, AfterTurn
      <3>4. QED
        BY <1>2, <1>3, <2>2, <3>1, <3>3 DEF Kind
    <2>3. CASE Mishap("short")
      BY <2>3 DEF Mishap, Excused
    <2>4. QED
      BY <2>0, <2>1, <2>2, <2>3 DEF CopyData
  <1>7. CASE f.at = "undo"
    <2>0. UndoCopy(t)
      BY <1>1, <1>7, StepIsAt DEF Running
    <2>1. CASE Put(f.dst, Absent)
      <3>1. p # f.dst
        BY <1>0, <2>1, PutIs, NodesAre DEF Kind
      <3>2. Kind(p) = "cut"
        BY <1>0, <2>1, <3>1, PutIs DEF Kind
      <3>3. QED
        BY <1>2, <1>3, <3>1, <3>2
    <2>2. CASE Mishap("cleanup")
      BY <2>2 DEF Mishap, Excused
    <2>3. QED
      BY <2>0, <2>1, <2>2 DEF UndoCopy
  <1>8. QED
    BY <1>4, <1>5, <1>6, <1>7

\* copyPath, whether it fails, is cancelled or succeeds, leaves no file half copied that
\* was not so before; unless the removal of the incomplete copy fails or a write is
\* short.
THEOREM NothingIsLeftHalfCopied == Spec => []NoHalves
  <1> DEFINE Inv == CalmInv /\ HalfInv
  <1>1. Init => Inv
    BY InitCalm DEF Init, HalfInv, Alone, NoCall
  <1>2. Inv /\ [Next]_vars => Inv'
    <2> SUFFICES ASSUME Inv, [Next]_vars PROVE Inv'
      OBVIOUS
    <2>1. CASE UNCHANGED vars
      BY <2>1, CalmStutters DEF vars, HalfInv, Alone, Kind, Was, Top, Excused
    <2>2. ASSUME NEW t \in Threads, Step(t) PROVE Inv'
      BY <2>2, StepCalm, StepHalf
    <2>3. ASSUME NEW t \in Threads, NEW c \in Calls[t], Start(t, c) PROVE Inv'
      BY <2>3, StartCalm DEF HalfInv, Alone, Kind, Was, Excused
    <2>4. QED
      BY <2>1, <2>2, <2>3 DEF Next
  <1>3. Inv => NoHalves
    BY DEF HalfInv, NoHalves, Done, Excused
  <1>4. QED
    BY <1>1, <1>2, <1>3, PTL DEF Spec

(***************************************************************************)
(* Removal                                                                 *)
(***************************************************************************)
\* Until the last step, what is to be removed is there.
UntouchedInv ==
    \A t \in Threads : Alone(t, {"remove"}) /\ (stack[t] # <<>> \/ ret[t] = Failed) =>
        fs[call[t].src] = Was(t, call[t].src)

\* All of it is gone once removePath has said so, if nobody makes anything.
GoneInv ==
    \A t \in Threads :
        /\ Done(t) /\ call[t].fn = "remove" /\ ret[t] = Okay
        /\ \A u \in Threads : call[u].fn \in {"none", "info", "remove"}
        => \A p \in Paths : Within(p, call[t].src) => Kind(p) = "none"

LEMMA ReturnsAre ==
    ASSUME TreeInv, NEW t \in Threads, stack[t] # <<>>, NEW r, Return(t, r)
    PROVE  ret'[t] = r /\ stack'[t] = Front(stack[t]) /\ (stack'[t] = <<>> <=> Len(stack[t]) = 1)
  <1>1. Pops(t) /\ ret' = [ret EXCEPT ![t] = r]
    BY DEF Return, Pops
  <1>2. QED
    BY <1>1, AfterPop DEF TreeInv, FrameInv

LEMMA TopIsDeep ==
    ASSUME TreeInv, NEW t \in Threads, stack[t] # <<>>
    PROVE  /\ Len(Top(t).src) = Len(call[t].src) + Len(stack[t]) - 1 /\ Within(Top(t).src, call[t].src)
           /\ Top(t).src = call[t].src <=> Len(stack[t]) = 1
  <1> DEFINE a == Len(Top(t).src)
             b == Len(call[t].src)
             k == Len(stack[t])
  <1>1. call[t].src \in Seq(Names) /\ Top(t).src \in Seq(Names) /\ Within(Top(t).src, call[t].src)
    BY TopIsPlaced DEF TreeInv, Fits
  <1>2. a \in Nat /\ b \in Nat /\ (a = b <=> Top(t).src = call[t].src)
    BY <1>1, WithinLengths
  <1>3. k \in Nat /\ a = b + k - 1
    BY TopIsPlaced, TopIs DEF TreeInv, Placed
  <1> HIDE DEF a, b, k
  <1>4. k = 1 <=> a = b
    BY <1>2, <1>3
  <1>5. QED
    BY <1>1, <1>2, <1>3, <1>4 DEF a, b, k

\* A step of removePath or getPathInfo.
LEMMA RemoveChanges ==
    ASSUME TreeInv, NEW t \in Threads, Step(t), call[t].fn \in {"info", "remove"}
    PROVE  \/ UNCHANGED fs
           \/ call[t].fn = "remove" /\ \E n \in Names : Put(Append(Top(t).src, n), Absent)
           \/ /\ call[t].fn = "remove" /\ Put(Top(t).src, Absent)
              /\ Return(t, Okay) \/ Return(t, Cancelled)
  <1>1. stack[t] # <<>> /\ Fits(call[t], Top(t))
    BY StepFits, TopFits DEF TreeInv
  <1>2. Top(t).fn = call[t].fn
    BY <1>1 DEF Fits
  <1>3. CASE RemoveFile(t)
    <2>1. \A n \in Unseen(t) : n \in Names
      BY DEF Unseen, Children
    <2>2. QED
      BY <1>2, <1>3, <2>1 DEF RemoveFile, In
  <1>4. CASE RemoveDirectory(t) \/ RemoveSingle(t)
    BY <1>2, <1>4 DEF RemoveDirectory, RemoveSingle, RemoveLast, In
  <1>5. QED
    BY <1>2, <1>3, <1>4
    DEF Step, Resume, Refuse, OpenDirectory, EndOfList, Recurse, CountFile, CountSingle,
        MakeDirectory, OpenSource, OpenDestination, CopyData, UndoCopy, Rename, RenameAgain,
        OpenMerge, CloseMerge, In, Stays

LEMMA RemoveSaysSo ==
    ASSUME TreeInv, NEW t \in Threads, Step(t), call[t].fn = "remove", ret'[t] = Okay
    PROVE  Put(Top(t).src, Absent) /\ Return(t, Okay)
  <1>1. stack[t] # <<>> /\ Fits(call[t], Top(t)) /\ ret \in [Threads -> {Okay, Cancelled, Failed, Running}]
    BY StepFits, TopFits DEF TreeInv, FrameInv
  <1>2. Top(t).fn = "remove" /\ Okay # Running /\ Okay # Failed /\ Okay # Cancelled
    BY <1>1 DEF Fits, Okay, Running, Failed, Cancelled
  <1>3. ASSUME NEW r, Return(t, r) PROVE r = Okay
    BY <1>1, <1>3, ReturnsAre
  <1>4. ~Resume(t)
    BY <1>1, <1>2, <1>3 DEF Resume
  <1>5. ret[t] = Running /\ ~UNCHANGED ret
    BY <1>2, <1>4, StepIsAt
  <1>6. CASE RemoveFile(t)
    BY <1>2, <1>3, <1>5, <1>6 DEF RemoveFile
  <1>7. CASE RemoveDirectory(t) \/ RemoveSingle(t)
    BY <1>2, <1>3, <1>7 DEF RemoveDirectory, RemoveSingle, RemoveLast
  <1>8. QED
    BY <1>2, <1>4, <1>5, <1>6, <1>7
    DEF Step, Refuse, OpenDirectory, EndOfList, Recurse, CountFile, CountSingle,
        MakeDirectory, OpenSource, OpenDestination, CopyData, UndoCopy, Rename, RenameAgain,
        OpenMerge, CloseMerge, In, GoTo, Push

LEMMA StepUntouched ==
    ASSUME CalmInv, UntouchedInv, NEW t \in Threads, Step(t)
    PROVE  UntouchedInv'
  <1> DEFINE f == Top(t)
             c == call[t]
  <1>0. /\ TreeInv /\ stack[t] # <<>> /\ UNCHANGED <<call, before, alone>>
        /\ \A u \in Threads \ {t} : ~alone[u]
        /\ c.src \in Paths /\ c.src \in Seq(Names) /\ fs \in [Paths -> Nodes]
    BY StepCalm, PathsAreSequences DEF CalmInv, TreeInv, FilesInv
  <1> SUFFICES ASSUME Alone(t, {"remove"}), stack'[t] # <<>> \/ ret'[t] = Failed
               PROVE  fs'[c.src] = Was(t, c.src)
    BY <1>0 DEF UntouchedInv, Alone, Was
  <1>1. fs[c.src] = Was(t, c.src)
    BY <1>0 DEF UntouchedInv
  <1>2. CASE UNCHANGED fs
    BY <1>1, <1>2
  <1>3. ASSUME NEW n \in Names, Put(Append(f.src, n), Absent) PROVE fs'[c.src] = Was(t, c.src)
    <2>1. f.src \in Seq(Names) /\ Within(f.src, c.src)
      BY <1>0, TopIsPlaced DEF TreeInv, Fits
    <2>2. Len(Append(f.src, n)) = Len(f.src) + 1 /\ Len(c.src) <= Len(f.src)
      BY <1>0, <2>1, ChildIsAppended, WithinLengths
    <2>3. Append(f.src, n) # c.src
      <3>1. Len(f.src) \in Nat /\ Len(c.src) \in Nat
        BY <1>0, <2>1
      <3>2. Len(Append(f.src, n)) # Len(c.src)
        BY <2>2, <3>1
      <3>3. QED
        BY <3>2
    <2>4. QED
      BY <1>0, <1>1, <1>3, <2>3, PutIs
  <1>4. CASE Put(f.src, Absent) /\ (Return(t, Okay) \/ Return(t, Cancelled))
    <2>1. f.src # c.src
      <3>1. ret'[t] # Failed
        BY <1>0, <1>4, ReturnsAre DEF Okay, Cancelled, Failed
      <3>2. Len(stack[t]) # 1
        BY <1>0, <1>4, <3>1, ReturnsAre
      <3>3. QED
        BY <1>0, <3>2, TopIsDeep
    <2>2. QED
      BY <1>0, <1>1, <1>4, <2>1, PutIs
  <1>5. QED
    BY <1>0, <1>2, <1>3, <1>4, RemoveChanges DEF Alone

LEMMA StepGone ==
    ASSUME CalmInv, GoneInv, NEW u \in Threads, Step(u)
    PROVE  GoneInv'
  <1>0. /\ TreeInv /\ stack[u] # <<>> /\ UNCHANGED call /\ CalmInv' /\ fs \in [Paths -> Nodes]
        /\ call[u] \in CallType /\ call[u].fn \in Fns
        /\ \A t \in Threads \ {u} : stack'[t] = stack[t] /\ ret'[t] = ret[t]
    BY StepCalm DEF CalmInv, TreeInv, FilesInv, CallType
  <1> SUFFICES ASSUME NEW t \in Threads, Done(t)', call[t].fn = "remove", ret'[t] = Okay,
                      \A v \in Threads : call[v].fn \in {"none", "info", "remove"},
                      NEW p \in Paths, Within(p, call[t].src)
               PROVE  Kind(p)' = "none"
    BY <1>0 DEF GoneInv
  <1>1. call[u].fn \in {"info", "remove"}
    BY <1>0 DEF Fns
  <1>2. CASE t # u
    <2>1. Kind(p) = "none"
      BY <1>0, <1>2 DEF GoneInv, Done
    <2>2. UNCHANGED fs \/ \E q : Put(q, Absent)
      BY <1>0, <1>1, RemoveChanges
    <2>3. QED
      BY <1>0, <2>1, <2>2, PutIs, NodesAre DEF Kind
  <1>3. CASE t = u
    <2>1. Put(Top(t).src, Absent) /\ Return(t, Okay)
      BY <1>0, <1>3, RemoveSaysSo
    <2>2. Len(stack[t]) = 1
      BY <1>0, <1>3, <2>1, ReturnsAre DEF Done
    <2>3. Top(t).src = call[t].src /\ Top(t).src \in Paths
      BY <1>0, <1>3, <2>2, TopIsDeep, TopIsPlaced DEF TreeInv
    <2>4. fs'[call[t].src] = Absent
      BY <1>0, <2>1, <2>3, PutIs
    <2>5. FilesInv'
      BY <1>0 DEF CalmInv, TreeInv
    <2>6. QED
      BY <2>3, <2>4, <2>5, NodesAre DEF FilesInv, Kind
  <1>4. QED
    BY <1>2, <1>3

\* removePath returns 1 only if nothing is left, even if others remove the same files;
\* and if it fails, the file or directory it was called for is still there.
THEOREM RemovalIsHonest == Spec => []RemoveIsHonest
  <1> DEFINE Inv == CalmInv /\ UntouchedInv /\ GoneInv
  <1>1. Init => Inv
    BY InitCalm DEF Init, UntouchedInv, GoneInv, Alone, Done, NoCall
  <1>2. Inv /\ [Next]_vars => Inv'
    <2> SUFFICES ASSUME Inv, [Next]_vars PROVE Inv'
      OBVIOUS
    <2>1. CASE UNCHANGED vars
      BY <2>1, CalmStutters DEF vars, UntouchedInv, GoneInv, Alone, Done, Kind, Was
    <2>2. ASSUME NEW t \in Threads, Step(t) PROVE Inv'
      BY <2>2, StepCalm, StepUntouched, StepGone
    <2>3. ASSUME NEW t \in Threads, NEW c \in Calls[t], Start(t, c) PROVE Inv'
      <3>1. /\ CalmInv' /\ UNCHANGED <<fs, ret>> /\ stack'[t] # <<>> /\ before'[t] = fs
            /\ call[t] = NoCall /\ call'[t] = c
            /\ \A u \in Threads \ {t} : ~alone'[u] /\ stack'[u] = stack[u] /\ call'[u] = call[u]
        BY <2>3, StartCalm
      <3>2. UntouchedInv'
        BY <3>1 DEF UntouchedInv, Alone, Was
      <3>3. GoneInv'
        <4> SUFFICES ASSUME NEW u \in Threads, Done(u)', call'[u].fn = "remove", ret'[u] = Okay,
                            \A v \in Threads : call'[v].fn \in {"none", "info", "remove"},
                            NEW p \in Paths, Within(p, call'[u].src)
                     PROVE  Kind(p)' = "none"
          BY DEF GoneInv
        <4>1. u # t /\ call'[u] = call[u] /\ Done(u)
          BY <3>1 DEF Done
        <4>2. \A v \in Threads : call[v].fn \in {"none", "info", "remove"}
          BY <3>1 DEF NoCall
        <4>3. QED
          BY <3>1, <4>1, <4>2 DEF GoneInv, Kind
      <3>4. QED
        BY <3>1, <3>2, <3>3
    <2>4. QED
      BY <2>1, <2>2, <2>3 DEF Next
  <1>3. Inv => RemoveIsHonest
    BY DEF UntouchedInv, GoneInv, RemoveIsHonest, Done, Alone, Kind
  <1>4. QED
    BY <1>1, <1>2, <1>3, PTL DEF Spec

(***************************************************************************)
(* Source and destination                                                  *)
(***************************************************************************)
\* The destination is within the source: copyPath and movePath refuse.
Inside(t) == call[t].fn \in {"copy", "move"} /\ Within(call[t].dst, call[t].src)

RefusedInv ==
    \A t \in Threads : Inside(t) =>
        /\ \/ stack[t] = <<>> /\ ret[t] = Failed
           \/ /\ stack[t] # <<>> /\ Len(stack[t]) = 1 /\ ret[t] = Running
              /\ Top(t).at = "enter" /\ Top(t).fn = call[t].fn
        /\ alone[t] => fs = before[t]

LEMMA StepRefused == ASSUME CalmInv, RefusedInv, NEW u \in Threads, Step(u) PROVE RefusedInv'
  <1>0. /\ TreeInv /\ stack[u] # <<>> /\ UNCHANGED <<call, before, alone>>
        /\ \A t \in Threads \ {u} : ~alone[t] /\ stack'[t] = stack[t] /\ ret'[t] = ret[t]
    BY StepCalm DEF CalmInv
  <1> SUFFICES ASSUME NEW t \in Threads, Inside(t)
               PROVE  /\ \/ stack'[t] = <<>> /\ ret'[t] = Failed
                         \/ /\ stack'[t] # <<>> /\ Len(stack'[t]) = 1 /\ ret'[t] = Running
                            /\ Top(t)'.at = "enter" /\ Top(t)'.fn = call[t].fn
                      /\ alone[t] => fs' = before[t]
    BY <1>0 DEF RefusedInv, Inside
  <1>1. CASE t # u
    BY <1>0, <1>1 DEF RefusedInv, Top
  <1>2. CASE t = u
    <2>1. /\ Len(stack[u]) = 1 /\ ret[u] = Running /\ Top(u).at = "enter" /\ Top(u).fn = call[u].fn
          /\ call[u].fn \in {"copy", "move"} /\ (alone[u] => fs = before[u])
      BY <1>0, <1>2 DEF RefusedInv, Inside
    <2>2. Top(u).src = call[u].src /\ Top(u).dst = call[u].dst
      <3>1. Top(u).src = call[u].src /\ call[u].src \in Seq(Names) /\ call[u].dst \in Seq(Names)
        BY <1>0, <2>1, TopIsDeep, TopIsPlaced DEF TreeInv
      <3>2. Top(u).dst = Rebase(Top(u).src, call[u].src, call[u].dst)
        BY <1>0, <2>1, TopIsPlaced DEF TreeInv, Placed
      <3>3. QED
        BY <3>1, <3>2, WithinItself, RebaseWithin
    <2>3. Identical(Top(u))
      BY <1>2, <2>2 DEF Inside, Identical
    <2>4. Refuse(u)
      BY <2>1, <2>3, StepIsAt DEF OpenDirectory, OpenSource, Rename, In
    <2>5. stack'[u] = <<>> /\ ret'[u] = Failed /\ fs' = fs
      BY <1>0, <2>1, <2>4, ReturnsAre DEF Refuse
    <2>6. QED
      BY <1>2, <2>1, <2>5
  <1>3. QED
    BY <1>1, <1>2

LEMMA StartRefused ==
    ASSUME CalmInv, RefusedInv, NEW t \in Threads, NEW c \in Calls[t], Start(t, c)
    PROVE  RefusedInv'
  <1>1. /\ UNCHANGED <<fs, ret>> /\ call'[t] = c /\ before'[t] = fs /\ ret[t] = Running
        /\ stack'[t] # <<>> /\ Len(stack'[t]) = 1 /\ Top(t)' = Frame(c.fn, c.src, c.dst)
        /\ \A u \in Threads \ {t} : ~alone'[u] /\ stack'[u] = stack[u] /\ call'[u] = call[u]
    BY StartCalm
  <1>2. Top(t)'.at = "enter" /\ Top(t)'.fn = c.fn
    BY <1>1 DEF Frame
  <1>3. QED
    BY <1>1, <1>2 DEF RefusedInv, Inside, Top

\* A copy or a move that is not refused: what is within its source is not within
\* its destination.
Proper(t) == call[t].fn \in {"copy", "move"} /\ Apart(t) /\ ~Inside(t)

LEMMA SourceApart ==
    ASSUME NEW t, Proper(t), call[t].src \in Seq(Names), call[t].dst \in Seq(Names),
           NEW p \in Seq(Names), Within(p, call[t].src)
    PROVE  ~Within(p, call[t].dst)
  <1>1. Len(call[t].src) <= Len(call[t].dst) \/ Len(call[t].dst) <= Len(call[t].src)
    OBVIOUS
  <1>2. QED
    BY <1>1, WithinBoth DEF Proper, Apart, Inside

LEMMA TargetIs ==
    ASSUME NEW t, call[t].src \in Seq(Names), call[t].dst \in Seq(Names),
           NEW p \in Seq(Names), Within(p, call[t].src)
    PROVE  /\ Target(t, p) \in Seq(Names) /\ Within(Target(t, p), call[t].dst)
           /\ Rebase(Target(t, p), call[t].dst, call[t].src) = p
  <1>1. Target(t, p) \in Seq(Names)
    BY RebaseNames DEF Target
  <1>2. Within(Target(t, p), call[t].dst) /\ Rebase(Target(t, p), call[t].dst, call[t].src) = p
    BY RebaseWithin DEF Target
  <1>3. QED
    BY <1>1, <1>2

\* A frame of a copy or a move.
FrameOf(t, f) ==
    /\ f.src \in Paths /\ f.src \in Seq(Names) /\ f.dst \in Seq(Names)
    /\ Within(f.src, call[t].src) /\ Within(f.dst, call[t].dst) /\ f.dst = Target(t, f.src)

LEMMA FramesAre ==
    ASSUME TreeInv, NEW t \in Threads, call[t].fn \in {"copy", "move"}, NEW i \in 1..Len(stack[t])
    PROVE  FrameOf(t, stack[t][i])
  <1>1. stack[t] \in Seq(FramesOf(call[t]))
    BY DEF TreeInv, StackInv
  <1>2. stack[t][i] \in FramesOf(call[t])
    BY <1>1
  <1>3. Placed(call[t], stack[t][i], i)
    BY DEF TreeInv, FrameInv, FramesOK, StackShape
  <1>4. QED
    BY <1>2, <1>3 DEF FramesOf, AnyFrame, Fits, Placed, FrameOf, Target

LEMMA TopIsFrame ==
    ASSUME TreeInv, NEW t \in Threads, call[t].fn \in {"copy", "move"}, stack[t] # <<>>
    PROVE  FrameOf(t, Top(t))
  BY FramesAre, TopIs DEF TreeInv

LEMMA InFrame ==
    ASSUME NEW t, call[t].src \in Seq(Names), call[t].dst \in Seq(Names), NEW f, FrameOf(t, f),
           NEW p \in Seq(Names), Within(p, f.src)
    PROVE  /\ Within(p, call[t].src) /\ Within(Target(t, p), f.dst)
           /\ Rebase(p, f.src, f.dst) = Target(t, p)
           /\ Rebase(Target(t, p), f.dst, f.src) = p
  <1>1. f.src \in Seq(Names) /\ f.dst \in Seq(Names) /\ Within(f.src, call[t].src) /\ f.dst = Target(t, f.src)
    BY DEF FrameOf
  <1>2. /\ Within(p, call[t].src) /\ Rebase(p, f.src, f.dst) = Target(t, p)
        /\ Within(Target(t, p), f.dst)
    BY <1>1, RebaseOfWithin DEF Target
  <1>3. Rebase(Target(t, p), f.dst, f.src) = p
    BY <1>1, <1>2, RebaseWithin
  <1>4. QED
    BY <1>2, <1>3

\* ... and from the destination back.
LEMMA InFrameBack ==
    ASSUME NEW t, call[t].src \in Seq(Names), call[t].dst \in Seq(Names), NEW f, FrameOf(t, f),
           NEW p \in Seq(Names), Within(p, call[t].src), Within(Target(t, p), f.dst)
    PROVE  Within(p, f.src)
  <1>1. f.src \in Seq(Names) /\ f.dst \in Seq(Names) /\ Within(f.src, call[t].src) /\ Within(f.dst, call[t].dst)
        /\ f.dst = Target(t, f.src)
    BY DEF FrameOf
  <1>2. /\ Target(t, p) \in Seq(Names) /\ Rebase(Target(t, p), call[t].dst, call[t].src) = p
        /\ Rebase(f.dst, call[t].dst, call[t].src) = f.src
    BY <1>1, TargetIs
  <1>3. QED
    BY <1>1, <1>2, RebaseOfWithin

(***************************************************************************)
(* movePath                                                                *)
(***************************************************************************)
\* Each file of the source is where it was or where it belongs, and each of the
\* destination is where it was, or a file of the source belongs there.
MovesFiles(t) ==
    /\ \A p \in Paths : Within(p, call[t].src) => fs[p] \in {Was(t, p), Absent}
    /\ \A p \in Paths : Within(p, call[t].src) /\ WasFile(t, p) =>
          fs[p] = Was(t, p) \/ (Target(t, p) \in Paths /\ fs[Target(t, p)] = Was(t, p))
    /\ \A q \in Paths : Within(q, call[t].dst) /\ WasFile(t, q) =>
          \/ fs[q] = Was(t, q)
          \/ /\ call[t].replace /\ Rebase(q, call[t].dst, call[t].src) \in Paths
             /\ WasFile(t, Rebase(q, call[t].dst, call[t].src))

MoveInv == \A t \in Threads : Alone(t, {"move"}) /\ Proper(t) => MovesFiles(t)

\* What a step of movePath does to the file system.
LEMMA MoveChanges ==
    ASSUME TreeInv, NEW t \in Threads, Step(t), call[t].fn = "move"
    PROVE  LET f == Top(t)
           IN  \/ UNCHANGED fs
               \/ CanRename(f.src, f.dst) /\ fs' = Renamed(f.src, f.dst)
               \/ IsFile(f.src) /\ IsFile(f.dst) /\ call[t].replace /\ Put(f.dst, Absent)
               \/ IsEmptyDirectory(f.src) /\ Put(f.src, Absent)
  <1>1. stack[t] # <<>> /\ Fits(call[t], Top(t))
    BY StepFits, TopFits DEF TreeInv
  <1>2. Top(t).fn = "move"
    BY <1>1 DEF Fits
  <1>3. CASE Rename(t) \/ RenameAgain(t)
    BY <1>3 DEF Rename, RenameAgain, Merges, Stays
  <1>4. CASE CloseMerge(t)
    BY <1>4 DEF CloseMerge, Stays
  <1>5. QED
    BY <1>2, <1>3, <1>4
    DEF Step, Resume, Refuse, OpenDirectory, EndOfList, Recurse, CountFile, CountSingle,
        RemoveFile, RemoveDirectory, RemoveSingle, RemoveLast, MakeDirectory, OpenSource,
        OpenDestination, CopyData, UndoCopy, OpenMerge, In, Stays

\* Nothing is at or below a path that something can be made at.
LEMMA NothingThere ==
    ASSUME FilesInv, NEW d \in Seq(Names), CanCreate(d), NEW q \in Paths, Within(q, d)
    PROVE  Kind(q) = "none"
  <1>1. d \in Paths /\ Kind(d) = "none"
    BY DEF CanCreate, HasRoom
  <1>2. QED
    BY <1>1, NothingInFiles

LEMMA StepMove == ASSUME CalmInv, MoveInv, NEW t \in Threads, Step(t) PROVE MoveInv'
  <1> DEFINE f == Top(t)
             S == call[t].src
             D == call[t].dst
  <1>0. /\ TreeInv /\ FilesInv /\ stack[t] # <<>> /\ UNCHANGED <<call, before, alone>>
        /\ \A u \in Threads \ {t} : ~alone[u]
        /\ S \in Seq(Names) /\ D \in Seq(Names) /\ fs \in [Paths -> Nodes]
    BY StepCalm, PathsAreSequences DEF CalmInv, TreeInv, FilesInv
  <1> SUFFICES ASSUME Alone(t, {"move"}), Proper(t) PROVE MovesFiles(t)'
    BY <1>0 DEF MoveInv, Alone, Proper, Apart, Inside
  <1>1. /\ MovesFiles(t) /\ call[t].fn = "move" /\ FrameOf(t, f)
        /\ f.src \in Paths /\ f.src \in Seq(Names) /\ f.dst \in Seq(Names)
        /\ Within(f.src, S) /\ Within(f.dst, D) /\ f.dst = Target(t, f.src)
    BY <1>0, TopIsFrame DEF MoveInv, Alone, FrameOf
  <1>2. /\ \A p \in Paths : p \in Seq(Names)
        /\ \A p \in Seq(Names) : ~(Within(p, S) /\ Within(p, D))
    BY <1>0, PathsAreSequences, SourceApart
  <1> SUFFICES /\ \A p \in Paths : Within(p, S) => fs'[p] \in {Was(t, p), Absent}
               /\ \A p \in Paths : Within(p, S) /\ WasFile(t, p) =>
                     fs'[p] = Was(t, p) \/ (Target(t, p) \in Paths /\ fs'[Target(t, p)] = Was(t, p))
               /\ \A q \in Paths : Within(q, D) /\ WasFile(t, q) /\ fs[q] = Was(t, q) =>
                     \/ fs'[q] = Was(t, q)
                     \/ /\ call[t].replace /\ Rebase(q, D, S) \in Paths
                        /\ WasFile(t, Rebase(q, D, S))
    BY <1>0, <1>1 DEF MovesFiles, Was, WasFile, Target
  <1>3. /\ \A p \in Paths : Within(p, S) => fs[p] \in {Was(t, p), Absent}
        /\ \A p \in Paths : Within(p, S) /\ WasFile(t, p) =>
              fs[p] = Was(t, p) \/ (Target(t, p) \in Paths /\ fs[Target(t, p)] = Was(t, p))
    BY <1>1 DEF MovesFiles
  <1>4. ASSUME NEW p \in Paths, WasFile(t, p) PROVE Was(t, p) # Absent /\ Was(t, p).kind # "none"
    BY <1>4, NodesAre DEF WasFile
  <1>5. CASE UNCHANGED fs
    BY <1>3, <1>5
  <1>6. CASE CanRename(f.src, f.dst) /\ fs' = Renamed(f.src, f.dst)
    <2>0. \A q \in Paths : Within(q, f.dst) => Kind(q) = "none"
      BY <1>0, <1>1, <1>6, NothingThere DEF CanRename
    <2>1. ASSUME NEW q \in Paths, ~Within(q, f.src), ~Within(q, f.dst) PROVE fs'[q] = fs[q]
      BY <1>6, <2>1, RenamedIs
    <2>2. ASSUME NEW p \in Paths, Within(p, S) PROVE fs'[p] \in {Was(t, p), Absent}
      <3>1. ~Within(p, f.dst)
        BY <1>0, <1>1, <1>2, <2>2, WithinWithin
      <3>2. QED
        BY <1>3, <1>6, <2>1, <2>2, <3>1, RenamedIs
    <2>3. ASSUME NEW p \in Paths, Within(p, S), WasFile(t, p)
          PROVE  fs'[p] = Was(t, p) \/ (Target(t, p) \in Paths /\ fs'[Target(t, p)] = Was(t, p))
      <3>0. p \in Seq(Names) /\ ~Within(p, f.dst) /\ Target(t, p) \in Seq(Names) /\ ~Within(Target(t, p), f.src)
        <4>1. p \in Seq(Names) /\ Target(t, p) \in Seq(Names) /\ Within(Target(t, p), D)
          BY <1>0, <1>2, <2>3, TargetIs
        <4>2. QED
          BY <1>0, <1>1, <1>2, <2>3, <4>1, WithinWithin
      <3>1. CASE fs[p] = Was(t, p) /\ Within(p, f.src)
        <4>1. /\ Rebase(p, f.src, f.dst) = Target(t, p) /\ Within(Target(t, p), f.dst)
              /\ Rebase(Target(t, p), f.dst, f.src) = p
          BY <1>0, <1>1, <3>0, <3>1, InFrame
        <4>2. Target(t, p) \in Paths
          BY <1>4, <1>6, <2>3, <3>1, <4>1 DEF CanRename, Kind
        <4>3. fs'[Target(t, p)] = fs[p]
          BY <1>6, <3>0, <4>1, <4>2, RenamedIs
        <4>4. QED
          BY <3>1, <4>2, <4>3
      <3>2. CASE fs[p] = Was(t, p) /\ ~Within(p, f.src)
        BY <2>1, <3>0, <3>2
      <3>3. CASE Target(t, p) \in Paths /\ fs[Target(t, p)] = Was(t, p)
        <4>1. ~Within(Target(t, p), f.dst)
          BY <1>4, <2>0, <2>3, <3>3 DEF Kind
        <4>2. QED
          BY <2>1, <3>0, <3>3, <4>1
      <3>4. QED
        BY <1>3, <2>3, <3>1, <3>2, <3>3
    <2>4. ASSUME NEW q \in Paths, Within(q, D), WasFile(t, q), fs[q] = Was(t, q)
          PROVE  fs'[q] = Was(t, q)
      <3>1. ~Within(q, f.dst)
        BY <1>4, <2>0, <2>4 DEF Kind
      <3>2. ~Within(q, f.src)
        BY <1>0, <1>1, <1>2, <2>4, WithinWithin
      <3>3. QED
        BY <2>1, <2>4, <3>1, <3>2
    <2>5. QED
      BY <2>2, <2>3, <2>4
  <1>7. CASE IsFile(f.src) /\ IsFile(f.dst) /\ call[t].replace /\ Put(f.dst, Absent)
    <2>0. \A p \in Paths : p # f.dst => fs'[p] = fs[p]
      BY <1>0, <1>7, PutIs
    <2>1. ~Within(f.dst, S)
      BY <1>1, <1>2
    <2>2. fs[f.src] = Was(t, f.src) /\ WasFile(t, f.src)
      BY <1>1, <1>3, <1>7, NodesAre DEF IsFile, Kind, WasFile
    <2>3. ASSUME NEW p \in Paths, Within(p, S), WasFile(t, p)
          PROVE  fs'[p] = Was(t, p) \/ (Target(t, p) \in Paths /\ fs'[Target(t, p)] = Was(t, p))
      <3>1. CASE Target(t, p) = f.dst
        <4>1. p = f.src
          BY <1>0, <1>1, <1>2, <2>3, <3>1, TargetIs
        <4>2. QED
          BY <1>1, <2>0, <2>1, <2>2, <4>1
      <3>2. CASE Target(t, p) # f.dst
        BY <1>3, <2>0, <2>1, <2>3, <3>2
      <3>3. QED
        BY <3>1, <3>2
    <2>4. ASSUME NEW q \in Paths, Within(q, D), WasFile(t, q), fs[q] = Was(t, q)
          PROVE  \/ fs'[q] = Was(t, q)
                 \/ call[t].replace /\ Rebase(q, D, S) \in Paths /\ WasFile(t, Rebase(q, D, S))
      <3>1. CASE q # f.dst
        BY <2>0, <2>4, <3>1
      <3>2. CASE q = f.dst
        <4>1. Rebase(q, D, S) = f.src
          BY <1>0, <1>1, <3>2, TargetIs
        <4>2. QED
          BY <1>1, <1>7, <2>2, <4>1
      <3>3. QED
        BY <3>1, <3>2
    <2>5. QED
      BY <1>3, <2>0, <2>1, <2>3, <2>4
  <1>8. CASE IsEmptyDirectory(f.src) /\ Put(f.src, Absent)
    <2>0. /\ fs'[f.src] = Absent /\ \A p \in Paths : p # f.src => fs'[p] = fs[p]
      BY <1>0, <1>1, <1>8, PutIs
    <2>1. ~Within(f.src, D)
      BY <1>1, <1>2
    <2>2. ASSUME NEW p \in Paths, Within(p, S), WasFile(t, p)
          PROVE  fs'[p] = Was(t, p) \/ (Target(t, p) \in Paths /\ fs'[Target(t, p)] = Was(t, p))
      <3>1. Target(t, p) # f.src
        BY <1>0, <1>2, <2>1, <2>2, TargetIs
      <3>2. p = f.src => fs[p] # Was(t, p)
        BY <1>8, <2>2 DEF IsEmptyDirectory, WasFile, Kind
      <3>3. QED
        BY <1>3, <2>0, <2>2, <3>1, <3>2
    <2>3. QED
      BY <1>3, <2>0, <2>1, <2>2
  <1>9. QED
    BY <1>0, <1>1, <1>5, <1>6, <1>7, <1>8, MoveChanges

LEMMA StartMove ==
    ASSUME CalmInv, MoveInv, NEW t \in Threads, NEW c \in Calls[t], Start(t, c)
    PROVE  MoveInv'
  <1>1. /\ UNCHANGED fs /\ call'[t] = c /\ before'[t] = fs
        /\ \A u \in Threads \ {t} : ~alone'[u]
    BY StartCalm
  <1>2. MovesFiles(t)'
    BY <1>1 DEF MovesFiles, Was, WasFile
  <1>3. QED
    BY <1>1, <1>2 DEF MoveInv, Alone

\* movePath never loses a file, whatever fails and at whatever point, for any tree and
\* any depth: each is somewhere, or the one of its name has replaced it, which is.
THEOREM MoveKeepsEveryFile == Spec => []MoveLosesNothing
  <1> DEFINE Inv == CalmInv /\ RefusedInv /\ MoveInv
  <1>1. Init => Inv
    BY InitCalm, NotCalled DEF Init, RefusedInv, MoveInv, Inside, Alone, NoCall
  <1>2. Inv /\ [Next]_vars => Inv'
    <2> SUFFICES ASSUME Inv, [Next]_vars PROVE Inv'
      OBVIOUS
    <2>1. CASE UNCHANGED vars
      BY <2>1, CalmStutters
      DEF vars, RefusedInv, Inside, Top, MoveInv, MovesFiles, Alone, Proper, Apart, Was, WasFile, Target
    <2>2. ASSUME NEW t \in Threads, Step(t) PROVE Inv'
      BY <2>2, StepCalm, StepRefused, StepMove
    <2>3. ASSUME NEW t \in Threads, NEW c \in Calls[t], Start(t, c) PROVE Inv'
      BY <2>3, StartCalm, StartRefused, StartMove
    <2>4. QED
      BY <2>1, <2>2, <2>3 DEF Next
  <1>3. Inv => MoveLosesNothing
    <2> SUFFICES ASSUME Inv, NEW t \in Threads, Alone(t, {"move"}), Apart(t), NEW q \in Paths, WasFile(t, q)
                 PROVE  \/ \E p \in Paths : fs[p] = Was(t, q)
                        \/ /\ call[t].replace
                           /\ \E p \in Source(t) : /\ WasFile(t, p) /\ Target(t, p) = q
                                                   /\ \E r \in Paths : fs[r] = Was(t, p)
      BY DEF MoveLosesNothing
    <2> DEFINE S == call[t].src
               D == call[t].dst
    <2>0. S \in Seq(Names) /\ D \in Seq(Names) /\ q \in Seq(Names) /\ call[t].fn = "move"
      <3>1. call[t] \in CallType
        BY NotCalled DEF CalmInv, TreeInv, StackInv, Alone, NoCall
      <3>2. QED
        BY <3>1, PathsAreSequences DEF CallType, Alone
    <2>1. CASE Inside(t)
      BY <2>1 DEF RefusedInv, Alone, Was
    <2>2. CASE ~Inside(t)
      <3>0. MovesFiles(t)
        BY <2>0, <2>2 DEF MoveInv, Proper
      <3>1. CASE Within(q, S)
        BY <3>0, <3>1 DEF MovesFiles
      <3>2. CASE Within(q, D) /\ fs[q] # Was(t, q)
        <4> DEFINE p == Rebase(q, D, S)
        <4>1. call[t].replace /\ p \in Paths /\ WasFile(t, p)
          BY <3>0, <3>2 DEF MovesFiles
        <4>2. Within(p, S) /\ Target(t, p) = q
          BY <2>0, <3>2, RebaseWithin DEF Target
        <4> HIDE DEF p
        <4>3. p \in Source(t)
          BY <4>1, <4>2 DEF Source, WasFile
        <4>4. \E r \in Paths : fs[r] = Was(t, p)
          BY <3>0, <4>1, <4>2 DEF MovesFiles
        <4>5. QED
          BY <4>1, <4>2, <4>3, <4>4
      <3>3. CASE ~Within(q, S) /\ ~Within(q, D)
        <4>1. fs[q] = Was(t, q)
          BY <3>3 DEF CalmInv, TouchInv, OnlyItsOwn, Alone, Fns
        <4>2. QED
          BY <4>1
      <3>4. QED
        BY <3>1, <3>2, <3>3
    <2>3. QED
      BY <2>1, <2>2
  <1>4. QED
    BY <1>1, <1>2, <1>3, PTL DEF Spec

(***************************************************************************)
(* What is still to be done, of a copy or a move: its frames say it.       *)
(***************************************************************************)
\* The frames of a thread, and those that wait for the innermost one.
Active(t)  == {stack[t][i] : i \in 1..Len(stack[t])}
Waiting(t) == {stack[t][i] : i \in 1..(Len(stack[t]) - 1)}

\* Frame f has p before it: p itself or what holds it has not been done.
Left(f, p) ==
    /\ Within(p, f.src)
    /\ f.fn = "move" /\ f.at = "end" => p = f.src
    /\ f.at = "list" => \/ f.fn = "move" /\ p = f.src
                        \/ p # f.src /\ \A n \in f.seen : ~Within(p, Append(f.src, n))

Pending(t, p) == \E f \in Active(t) : Left(f, p)

LEMMA ActiveIs ==
    ASSUME TreeInv, NEW t \in Threads, stack[t] # <<>>
    PROVE  /\ Active(t) = Waiting(t) \cup {Top(t)}
           /\ Pops(t) => Active(t)' = Waiting(t)
           /\ \A g \in AnyFrame : Turns(t, g) => Active(t)' = Waiting(t) \cup {g}
           /\ \A g \in AnyFrame, h \in AnyFrame : Enters(t, g, h) => Active(t)' = Waiting(t) \cup {g, h}
  <1> DEFINE s == stack[t]
             k == Len(s)
  <1>0. StackInv /\ k \in Nat \ {0} /\ Top(t) = s[k]
    BY TopIs DEF TreeInv
  <1>1. \A i \in 1..k : i \in 1..(k - 1) \/ i = k
    BY <1>0
  <1>2. Active(t) = Waiting(t) \cup {Top(t)}
    <2>1. k \in 1..k /\ 1..(k - 1) \subseteq 1..k
      BY <1>0
    <2>2. QED
      BY <1>0, <1>1, <2>1 DEF Active, Waiting
  <1>3. ASSUME Pops(t) PROVE Active(t)' = Waiting(t)
    <2>1. Len(stack'[t]) = k - 1 /\ \A i \in 1..(k - 1) : stack'[t][i] = s[i]
      BY <1>0, <1>3, AfterPop DEF Below
    <2>2. QED
      BY <2>1 DEF Active, Waiting
  <1>4. ASSUME NEW g \in AnyFrame, Turns(t, g) PROVE Active(t)' = Waiting(t) \cup {g}
    <2>1. Len(stack'[t]) = k /\ stack'[t][k] = g /\ \A i \in 1..(k - 1) : stack'[t][i] = s[i]
      BY <1>0, <1>4, AfterTurn DEF Below
    <2>2. k \in 1..k /\ 1..(k - 1) \subseteq 1..k
      BY <1>0
    <2> HIDE DEF k
    <2>3. QED
      BY <1>1, <2>1, <2>2 DEF Active, Waiting, k
  <1>5. ASSUME NEW g \in AnyFrame, NEW h \in AnyFrame, Enters(t, g, h)
        PROVE  Active(t)' = Waiting(t) \cup {g, h}
    <2>1. /\ Len(stack'[t]) = k + 1 /\ stack'[t][k] = g /\ stack'[t][k + 1] = h
          /\ \A i \in 1..(k - 1) : stack'[t][i] = s[i]
      BY <1>0, <1>5, AfterEnter DEF Below
    <2>2. /\ k \in 1..(k + 1) /\ k + 1 \in 1..(k + 1) /\ 1..(k - 1) \subseteq 1..(k + 1)
          /\ \A i \in 1..(k + 1) : i \in 1..(k - 1) \/ i = k \/ i = k + 1
      BY <1>0
    <2> HIDE DEF k
    <2>3. QED
      BY <2>1, <2>2 DEF Active, Waiting, k
  <1>6. QED
    BY <1>2, <1>3, <1>4, <1>5

\* A frame that waits is in its loop, and has the innermost one's source behind it.
LEMMA WaitingAre ==
    ASSUME TreeInv, NEW t \in Threads, stack[t] # <<>>, NEW f \in Waiting(t)
    PROVE  /\ f \in AnyFrame /\ f.at = "list" /\ f.fn = call[t].fn
           /\ call[t].fn \in {"copy", "move"} => FrameOf(t, f)
           /\ \A p \in Seq(Names) : Within(p, Top(t).src) => ~Left(f, p)
  <1> DEFINE s == stack[t]
             k == Len(s)
  <1>0. /\ s \in Seq(AnyFrame) /\ k \in Nat \ {0} /\ k \in 1..k /\ Top(t) = s[k] /\ StackShape(call[t], s)
        /\ s \in Seq(FramesOf(call[t])) /\ Top(t).src \in Seq(Names)
    BY TopIs, TopIsPlaced DEF TreeInv, StackInv, FrameInv, FramesOK
  <1> HIDE DEF k
  <1>1. PICK i \in 1..(k - 1) : f = s[i]
    BY DEF Waiting, k
  <1>2. i \in 1..k /\ i < k
    BY <1>0, <1>1
  <1>3. /\ f \in AnyFrame /\ f \in FramesOf(call[t]) /\ f.at = "list" /\ f.at \in Places(f.fn)
        /\ \E n \in f.seen : Within(Top(t).src, Append(f.src, n))
    BY <1>0, <1>1, <1>2 DEF StackShape, Placed, k
  <1>4. f.fn = call[t].fn
    BY <1>3 DEF FramesOf, Fits, Places
  <1>5. call[t].fn \in {"copy", "move"} => FrameOf(t, f)
    BY <1>1, <1>2, FramesAre DEF k
  <1>6. ASSUME NEW p \in Seq(Names), Within(p, Top(t).src) PROVE ~Left(f, p)
    <2>1. PICK n \in f.seen : Within(Top(t).src, Append(f.src, n))
      BY <1>3
    <2>2. n \in Names /\ f.src \in Seq(Names)
      BY <1>3, <2>1 DEF AnyFrame
    <2>3. Append(f.src, n) \in Seq(Names) /\ Len(Append(f.src, n)) = Len(f.src) + 1
      BY <2>2, ChildIsAppended
    <2>4. Within(p, Append(f.src, n))
      BY <1>0, <1>6, <2>1, <2>3, WithinWithin
    <2>5. p # f.src
      <3>1. Len(Append(f.src, n)) <= Len(p)
        BY <2>3, <2>4, WithinLengths
      <3>2. Len(f.src) < Len(p)
        BY <2>2, <2>3, <3>1
      <3>3. QED
        BY <3>2
    <2>6. QED
      BY <1>3, <2>4, <2>5 DEF Left
  <1>7. QED
    BY <1>3, <1>4, <1>5, <1>6

\* In a loop, what is left is the same after an entry is taken up; and none at all
\* when all entries have been seen, but the directory itself.
LEMMA LeftEntered ==
    ASSUME NEW f \in AnyFrame, f.at = "list", NEW n \in Names, n \notin f.seen,
           NEW h \in AnyFrame, h.src = Append(f.src, n), h.at = "enter",
           NEW p \in Seq(Names)
    PROVE  Left(f, p) <=> Left(HasSeen(f, n), p) \/ Left(h, p)
  <1> DEFINE g == HasSeen(f, n)
  <1>0. /\ f.src \in Seq(Names) /\ f.seen \subseteq Names
        /\ g.src = f.src /\ g.at = f.at /\ g.fn = f.fn /\ g.seen = f.seen \cup {n}
    BY DEF HasSeen, AnyFrame
  <1> HIDE DEF g
  <1>1. h.src \in Seq(Names) /\ Within(h.src, f.src) /\ Len(h.src) = Len(f.src) + 1
    BY <1>0, ChildIsAppended
  <1>2. Left(h, p) <=> Within(p, h.src)
    BY DEF Left
  <1>3. Within(p, h.src) => /\ Within(p, f.src) /\ p # f.src
                            /\ \A m \in f.seen : ~Within(p, Append(f.src, m))
    <2> SUFFICES ASSUME Within(p, h.src)
                 PROVE  /\ Within(p, f.src) /\ p # f.src
                        /\ \A m \in f.seen : ~Within(p, Append(f.src, m))
      OBVIOUS
    <2>1. Within(p, f.src)
      BY <1>0, <1>1, WithinWithin
    <2>2. p # f.src
      <3>1. Len(h.src) <= Len(p)
        BY <1>1, WithinLengths
      <3>2. Len(f.src) < Len(p)
        BY <1>0, <1>1, <3>1
      <3>3. QED
        BY <3>2
    <2>3. ASSUME NEW m \in f.seen, Within(p, Append(f.src, m)) PROVE FALSE
      BY <1>0, <2>3, ChildrenApart
    <2>4. QED
      BY <2>1, <2>2, <2>3
  <1>4. QED
    BY <1>0, <1>2, <1>3 DEF Left, g

LEMMA NothingLeft ==
    ASSUME FilesInv, NEW f \in AnyFrame, f.at = "list", Children(f.src) \subseteq f.seen,
           NEW p \in Paths, p # f.src, Left(f, p)
    PROVE  Kind(p) = "none"
  <1>1. p \in Seq(Names) /\ f.src \in Seq(Names) /\ Len(p) <= Depth
    BY PathsAreSequences, PathsAreShort DEF AnyFrame
  <1>2. Within(p, f.src) /\ \A n \in f.seen : ~Within(p, Append(f.src, n))
    BY DEF Left
  <1>3. Len(f.src) < Len(p)
    BY <1>1, <1>2, BelowIsInChild
  <1>4. PICK n \in Names : Within(p, Append(f.src, n))
    BY <1>1, <1>2, BelowIsInChild
  <1>5. Append(f.src, n) \in Seq(Names) /\ Len(Append(f.src, n)) = Len(f.src) + 1
    BY <1>1, ChildIsAppended
  <1>6. Len(Append(f.src, n)) <= Depth /\ Len(f.src) < Depth
    BY <1>1, <1>3, <1>5, DepthIsNat
  <1>7. Append(f.src, n) \in Paths
    BY <1>5, <1>6, PathsAreShort
  <1>8. n \notin Children(f.src)
    BY <1>2, <1>4
  <1>9. Kind(Append(f.src, n)) = "none"
    BY <1>6, <1>8 DEF Children
  <1>10. QED
    BY <1>4, <1>7, <1>9, NothingInFiles

\* Turning to another place of the function, of which nothing is done yet.
LEMMA LeftAtPlace ==
    ASSUME NEW f \in AnyFrame, NEW l \in Steps
    PROVE  /\ AtPlace(f, l) \in AnyFrame /\ AtPlace(f, l).src = f.src /\ AtPlace(f, l).dst = f.dst
           /\ AtPlace(f, l).fn = f.fn /\ AtPlace(f, l).at = l /\ AtPlace(f, l).seen = f.seen
           /\ \A p : f.seen = {} /\ f.at \notin {"list", "end"} =>
                 /\ l \notin {"list", "end"} => (Left(AtPlace(f, l), p) <=> Left(f, p))
                 /\ l = "list" => (Left(AtPlace(f, l), p) <=> Left(f, p) /\ (f.fn = "move" \/ p # f.src))
  <1> DEFINE g == AtPlace(f, l)
  <1>1. /\ g \in AnyFrame /\ g.src = f.src /\ g.dst = f.dst /\ g.fn = f.fn /\ g.at = l /\ g.seen = f.seen
    BY DEF AtPlace, AnyFrame
  <1> HIDE DEF g
  <1>2. QED
    BY <1>1 DEF Left, g

(***************************************************************************)
(* A move that has not failed                                              *)
(***************************************************************************)
\* A move that has not failed, and that did all it could.
Smooth(t) ==
    /\ Alone(t, {"move"}) /\ Proper(t) /\ mishaps \cap {"rename", "dread"} = {}
    /\ ret[t] \in {Okay, Running} /\ call[t].integrate /\ call[t].replace

\* Nothing is left of p but, at worst, a directory.
Cleared(p) == Kind(p) = "none" \/ ("other" \in mishaps /\ Kind(p) = "dir")

MoveDone(t) ==
    /\ \A p \in Source(t) :
          IF Pending(t, p) THEN fs[p] = Was(t, p)
          ELSE Target(t, p) \in Paths /\ fs[Target(t, p)] = Was(t, p) /\ Cleared(p)
    /\ \A f \in Active(t) : f.at \in {"merge", "list", "end"} =>
          f.dst \in Paths /\ Kind(f.dst) = "dir" /\ Was(t, f.src).kind = "dir"

\* What is still to be moved is as it was, the rest is where it belongs.
MoveDoneInv == \A t \in Threads : Smooth(t) => MoveDone(t)

LEMMA FailureStays ==
    ASSUME TreeInv, NEW t \in Threads, Step(t), ret'[t] \in {Okay, Running}
    PROVE  ret[t] \in {Okay, Running}
  <1>1. stack[t] # <<>> /\ ret \in [Threads -> {Okay, Cancelled, Failed, Running}]
    BY StepIsAt DEF TreeInv, FrameInv
  <1>2. CASE ret[t] = Running
    BY <1>2
  <1>3. CASE ret[t] # Running /\ ret[t] # Okay
    <2>1. Return(t, ret[t])
      BY <1>3, StepIsAt DEF Resume
    <2>2. ret'[t] = ret[t]
      BY <1>1, <2>1 DEF Return
    <2>3. QED
      BY <1>3, <2>2
  <1>4. QED
    BY <1>2, <1>3

\* The steps of a move that does not fail.
MoveGoesOn(t) ==
    LET f == Top(t)
    IN  \/ UNCHANGED <<fs, stack>>
        \/ f.at \in {"enter", "again"} /\ CanRename(f.src, f.dst) /\ fs' = Renamed(f.src, f.dst) /\ Pops(t)
        \/ f.at = "enter" /\ GoTo(t, "again") /\ (UNCHANGED fs \/ (IsFile(f.dst) /\ Put(f.dst, Absent)))
        \/ /\ f.at = "enter" /\ Exists(f.src) /\ Exists(f.dst) /\ ~IsFile(f.src) /\ ~IsFile(f.dst)
           /\ GoTo(t, "merge") /\ UNCHANGED fs
        \/ f.at = "merge" /\ GoTo(t, "list") /\ UNCHANGED fs
        \/ f.at = "list" /\ Children(f.src) \subseteq f.seen /\ GoTo(t, "end") /\ UNCHANGED fs
        \/ f.at = "list" /\ Recurse(t) /\ UNCHANGED fs
        \/ f.at = "end" /\ IsEmptyDirectory(f.src) /\ Put(f.src, Absent) /\ Pops(t)
        \/ /\ f.at = "end" /\ UNCHANGED fs /\ Pops(t)
           /\ IsEmptyDirectory(f.src) => "other" \in mishaps'

LEMMA MoveGoes ==
    ASSUME TreeInv, NEW t \in Threads, Step(t), call[t].fn = "move", call[t].integrate, call[t].replace,
           mishaps' \cap {"rename", "dread"} = {}, ret'[t] \in {Okay, Running}
    PROVE  MoveGoesOn(t)
  <1> DEFINE f == Top(t)
  <1>0. /\ stack[t] # <<>> /\ f.fn = "move" /\ f.at \in Places(f.fn)
        /\ ret \in [Threads -> {Okay, Cancelled, Failed, Running}] /\ ret[t] \in {Okay, Running}
    BY StepIsAt, TopIsPlaced, FailureStays DEF TreeInv, FrameInv, Fits
  <1>1. ~Mishap("rename") /\ ~Mishap("dread") /\ (Mishap("other") => "other" \in mishaps')
    BY DEF Mishap
  <1>2. ~Return(t, Failed) /\ ~Return(t, Cancelled)
    BY <1>0 DEF Return, Failed, Cancelled, Okay, Running
  <1>3. \A r : Return(t, r) => Pops(t)
    BY DEF Return, Pops
  <1>4. CASE ret[t] # Running
    BY <1>0, <1>4, StepIsAt DEF Resume, MoveGoesOn
  <1>5. CASE ret[t] = Running
    <2>1. CASE f.at = "enter"
      <3>1. Rename(t)
        BY <1>0, <1>2, <1>5, <2>1, StepIsAt DEF Refuse, OpenDirectory, OpenSource, In
      <3>2. QED
        BY <1>1, <1>2, <1>3, <2>1, <3>1 DEF Rename, MoveGoesOn, Mergeable, Merges, Stays
    <2>2. CASE f.at = "again"
      BY <1>1, <1>2, <1>3, <1>5, <2>2, StepIsAt DEF RenameAgain, MoveGoesOn
    <2>3. CASE f.at = "merge"
      BY <1>1, <1>2, <1>5, <2>3, StepIsAt DEF OpenMerge, MoveGoesOn
    <2>4. CASE f.at = "list"
      <3>1. EndOfList(t) \/ Recurse(t)
        BY <1>0, <1>5, <2>4, StepIsAt DEF CountFile, RemoveFile, In
      <3>2. CASE EndOfList(t)
        BY <1>0, <1>1, <2>4, <3>2 DEF EndOfList, MoveGoesOn
      <3>3. CASE Recurse(t)
        BY <2>4, <3>3 DEF Recurse, MoveGoesOn
      <3>4. QED
        BY <3>1, <3>2, <3>3
    <2>5. CASE f.at = "end"
      <3>1. CloseMerge(t)
        BY <1>0, <1>5, <2>5, StepIsAt DEF RemoveDirectory, RemoveLast, In
      <3>2. QED
        BY <1>1, <1>3, <2>5, <3>1 DEF CloseMerge, MoveGoesOn, Stays
    <2>6. QED
      BY <1>0, <2>1, <2>2, <2>3, <2>4, <2>5 DEF Places
  <1>6. QED
    BY <1>4, <1>5

\* What waits, and what is to be done, before and after.
Behind(t, p) == \E f \in Waiting(t) : Left(f, p)

LEMMA PendingIs ==
    ASSUME TreeInv, NEW t \in Threads, stack[t] # <<>>, NEW p
    PROVE  /\ Pending(t, p) <=> Left(Top(t), p) \/ Behind(t, p)
           /\ Pops(t) => (Pending(t, p)' <=> Behind(t, p))
           /\ \A g \in AnyFrame : Turns(t, g) => (Pending(t, p)' <=> Left(g, p) \/ Behind(t, p))
           /\ \A g \in AnyFrame, h \in AnyFrame : Enters(t, g, h) =>
                 (Pending(t, p)' <=> Left(g, p) \/ Left(h, p) \/ Behind(t, p))
  <1>1. Pending(t, p) <=> Left(Top(t), p) \/ Behind(t, p)
    BY ActiveIs DEF Pending, Behind
  <1>2. ASSUME Pops(t) PROVE Pending(t, p)' <=> Behind(t, p)
    <2>1. Active(t)' = Waiting(t)
      BY <1>2, ActiveIs
    <2>2. QED
      BY <2>1 DEF Pending, Behind
  <1>3. ASSUME NEW g \in AnyFrame, Turns(t, g) PROVE Pending(t, p)' <=> Left(g, p) \/ Behind(t, p)
    <2>1. Active(t)' = Waiting(t) \cup {g}
      BY <1>3, ActiveIs
    <2>2. QED
      BY <2>1 DEF Pending, Behind
  <1>4. ASSUME NEW g \in AnyFrame, NEW h \in AnyFrame, Enters(t, g, h)
        PROVE  Pending(t, p)' <=> Left(g, p) \/ Left(h, p) \/ Behind(t, p)
    <2>1. Active(t)' = Waiting(t) \cup {g, h}
      BY <1>4, ActiveIs
    <2>2. QED
      BY <2>1 DEF Pending, Behind
  <1>5. QED
    BY <1>1, <1>2, <1>3, <1>4

\* Where a frame at one of these places is, whatever it is for has a place.
Ready(t, f) ==
    f.at \in {"merge", "list", "end"} =>
        f.dst \in Paths /\ Kind(f.dst) = "dir" /\ Was(t, f.src).kind = "dir"

LEMMA StepMoveDone ==
    ASSUME CalmInv, MoveInv, MoveDoneInv, NEW t \in Threads, Step(t)
    PROVE  MoveDoneInv'
  <1> DEFINE f == Top(t)
             S == call[t].src
             D == call[t].dst
  <1>0. /\ TreeInv /\ StackInv /\ FilesInv /\ stack[t] # <<>> /\ UNCHANGED <<call, before, alone>>
        /\ \A u \in Threads \ {t} : ~alone[u]
        /\ S \in Seq(Names) /\ D \in Seq(Names) /\ fs \in [Paths -> Nodes]
    BY StepCalm, PathsAreSequences DEF CalmInv, TreeInv, FilesInv
  <1> SUFFICES ASSUME Smooth(t)' PROVE MoveDone(t)'
    BY <1>0 DEF MoveDoneInv, Smooth, Alone
  <1>1. /\ call[t].fn = "move" /\ call[t].integrate /\ call[t].replace /\ Alone(t, {"move"}) /\ Proper(t)
        /\ mishaps' \cap {"rename", "dread"} = {} /\ ret'[t] \in {Okay, Running}
        /\ mishaps \subseteq mishaps'
    BY <1>0, MishapsStay DEF Smooth, Alone, Proper, Apart, Inside
  <1>2. Smooth(t)
    BY <1>0, <1>1, FailureStays DEF Smooth
  <1>3. MoveDone(t) /\ MovesFiles(t) /\ MoveGoesOn(t)
    BY <1>0, <1>1, <1>2, MoveGoes DEF MoveDoneInv, MoveInv
  <1>4. /\ FrameOf(t, f) /\ f \in AnyFrame /\ f.fn = "move"
        /\ f.src \in Paths /\ f.src \in Seq(Names) /\ f.dst \in Seq(Names)
        /\ Within(f.src, S) /\ Within(f.dst, D) /\ f.dst = Target(t, f.src)
        /\ f.at \notin {"list", "end"} => f.seen = {}
    BY <1>0, <1>1, TopIsFrame, TopIsPlaced DEF TreeInv, Fits, Placed, FrameOf
  <1>5. /\ \A p \in Paths : p \in Seq(Names)
        /\ \A p \in Seq(Names) : ~(Within(p, S) /\ Within(p, D))
    BY <1>0, <1>1, PathsAreSequences, SourceApart
  <1>6. ASSUME NEW p \in Source(t)
        PROVE  /\ p \in Paths /\ p \in Seq(Names) /\ Within(p, S) /\ Was(t, p).kind # "none"
               /\ Target(t, p) \in Seq(Names) /\ Within(Target(t, p), D)
               /\ Target(t, p) = f.dst => p = f.src
    BY <1>0, <1>4, <1>5, <1>6, TargetIs DEF Source
  <1>7. \A p \in Source(t) : IF Left(f, p) \/ Behind(t, p) THEN fs[p] = Was(t, p)
                             ELSE Target(t, p) \in Paths /\ fs[Target(t, p)] = Was(t, p) /\ Cleared(p)
    BY <1>0, <1>3, PendingIs DEF MoveDone
  <1>8. \A g \in Waiting(t) : /\ g \in AnyFrame /\ g.at = "list" /\ Ready(t, g)
                              /\ g.dst \in Seq(Names) /\ Within(g.dst, D)
    <2>1. \A g \in Waiting(t) : g \in Active(t)
      BY <1>0, ActiveIs
    <2>2. QED
      BY <1>0, <1>1, <1>3, <2>1, WaitingAre DEF MoveDone, Ready, FrameOf
  <1>9. /\ Ready(t, f) /\ f.src \in Seq(Names)
        /\ \A p \in Source(t) : Within(p, f.src) => ~Behind(t, p)
    <2>1. f \in Active(t)
      BY <1>0, ActiveIs
    <2>2. QED
      BY <1>0, <1>3, <1>4, <1>6, <2>1, WaitingAre DEF MoveDone, Ready, Behind
  \* The goal, before it is known how the stack changes.
  <1> DEFINE IsDone(p) == /\ Target(t, p) \in Paths /\ fs'[Target(t, p)] = Was(t, p)
                          /\ fs'[p].kind = "none" \/ ("other" \in mishaps' /\ fs'[p].kind = "dir")
             IsReady(g) == g.at \in {"merge", "list", "end"} =>
                               g.dst \in Paths /\ fs'[g.dst].kind = "dir" /\ Was(t, g.src).kind = "dir"
  <1>10. SUFFICES /\ \A p \in Source(t) : IF Pending(t, p)' THEN fs'[p] = Was(t, p) ELSE IsDone(p)
                  /\ \A g \in Active(t)' : IsReady(g)
    BY <1>0 DEF MoveDone, Cleared, Was, Kind, Target, Source
  <1> HIDE DEF f, S, D, IsDone, IsReady
  <1>11. CASE UNCHANGED <<fs, stack>>
    <2>1. Active(t)' = Active(t) /\ \A p : Pending(t, p)' <=> Pending(t, p)
      BY <1>11 DEF Active, Pending
    <2>2. QED
      BY <1>1, <1>3, <1>11, <2>1 DEF MoveDone, Cleared, IsDone, IsReady, Kind
  <1>12. ASSUME UNCHANGED fs PROVE \A g \in Waiting(t) : IsReady(g)
    BY <1>8, <1>12 DEF Ready, IsReady, Kind
  <1>13. ASSUME NEW l \in {"again", "merge", "list"}, GoTo(t, l), f.at \notin {"list", "end"}, UNCHANGED fs \/ Put(f.dst, Absent),
                IsReady(AtPlace(f, l)), \A g \in Waiting(t) : IsReady(g),
                \A p \in Paths : p # f.dst => fs'[p] = fs[p]
         PROVE  /\ \A p \in Source(t) : IF Pending(t, p)' THEN fs'[p] = Was(t, p) ELSE IsDone(p)
                /\ \A g \in Active(t)' : IsReady(g)
    <2>1. /\ AtPlace(f, l) \in AnyFrame /\ Turns(t, AtPlace(f, l))
          /\ \A p : Left(AtPlace(f, l), p) <=> Left(f, p)
      <3>1. l \in Steps
        BY DEF Steps
      <3>2. Turns(t, AtPlace(f, l))
        BY <1>0, <1>13, HelpersTurn DEF f
      <3>3. QED
        BY <1>4, <1>13, <3>1, <3>2, LeftAtPlace
    <2>2. Active(t)' = Waiting(t) \cup {AtPlace(f, l)} /\ \A p : Pending(t, p)' <=> Pending(t, p)
      BY <1>0, <2>1, ActiveIs, PendingIs DEF f
    <2>3. ASSUME NEW p \in Source(t) PROVE IF Pending(t, p)' THEN fs'[p] = Was(t, p) ELSE IsDone(p)
      <3>1. p # f.dst
        BY <1>4, <1>5, <1>6
      <3>2. Target(t, p) = f.dst => Pending(t, p)
        <4>1. ASSUME Target(t, p) = f.dst PROVE Left(f, p)
          BY <1>4, <1>6, <1>13, <4>1, WithinItself DEF Left
        <4>2. QED
          BY <1>0, <4>1, PendingIs DEF f
      <3>3. QED
        BY <1>1, <1>3, <1>6, <1>13, <2>2, <3>1, <3>2 DEF MoveDone, Cleared, IsDone, Kind
    <2>4. QED
      BY <1>13, <2>2, <2>3
  <1>14. CASE f.at \in {"enter", "again"} /\ CanRename(f.src, f.dst) /\ fs' = Renamed(f.src, f.dst) /\ Pops(t)
    <2>0. \A q \in Paths : Within(q, f.dst) => Kind(q) = "none"
      BY <1>0, <1>4, <1>14, NothingThere DEF CanRename
    <2>1. ASSUME NEW q \in Paths, ~Within(q, f.src), ~Within(q, f.dst) PROVE fs'[q] = fs[q]
      BY <1>14, <2>1, RenamedIs
    <2>2. Active(t)' = Waiting(t) /\ \A p : Pending(t, p)' <=> Behind(t, p)
      BY <1>0, <1>14, ActiveIs, PendingIs
    <2>3. ASSUME NEW g \in Waiting(t) PROVE IsReady(g)
      <3>1. g.dst \in Paths /\ Kind(g.dst) = "dir" /\ Was(t, g.src).kind = "dir"
        BY <1>8, <2>3 DEF Ready
      <3>2. ~Within(g.dst, f.dst)
        BY <2>0, <3>1
      <3>3. ~Within(g.dst, f.src)
        BY <1>0, <1>4, <1>5, <1>8, <2>3, WithinWithin DEF S
      <3>4. QED
        BY <2>1, <3>1, <3>2, <3>3 DEF IsReady, Kind
    <2>4. ASSUME NEW p \in Source(t) PROVE IF Pending(t, p)' THEN fs'[p] = Was(t, p) ELSE IsDone(p)
      <3>1. ~Within(p, f.dst) /\ ~Within(Target(t, p), f.src)
        BY <1>0, <1>4, <1>5, <1>6, WithinWithin DEF S, D
      <3>2. CASE Behind(t, p)
        <4>1. ~Within(p, f.src)
          BY <1>9, <3>2
        <4>2. QED
          BY <1>6, <1>7, <2>1, <2>2, <3>1, <3>2, <4>1
      <3>3. CASE Within(p, f.src)
        <4>1. ~Behind(t, p) /\ Left(f, p)
          BY <1>4, <1>9, <1>14, <3>3 DEF Left
        <4>2. fs[p] = Was(t, p)
          BY <1>7, <4>1
        <4>3. /\ Rebase(p, f.src, f.dst) = Target(t, p) /\ Within(Target(t, p), f.dst)
              /\ Rebase(Target(t, p), f.dst, f.src) = p
          BY <1>0, <1>4, <1>6, <3>3, InFrame DEF S, D
        <4>4. Target(t, p) \in Paths
          BY <1>6, <1>14, <3>3, <4>2, <4>3 DEF CanRename, Kind
        <4>5. fs'[Target(t, p)] = fs[p] /\ fs'[p] = Absent
          BY <1>6, <1>14, <3>1, <3>3, <4>3, <4>4, RenamedIs
        <4>6. QED
          BY <2>2, <4>1, <4>2, <4>4, <4>5, NodesAre DEF IsDone
      <3>4. CASE ~Within(p, f.src) /\ ~Behind(t, p)
        <4>1. Target(t, p) \in Paths /\ fs[Target(t, p)] = Was(t, p) /\ Cleared(p)
          BY <1>7, <3>4 DEF Left
        <4>2. ~Within(Target(t, p), f.dst)
          BY <1>6, <2>0, <4>1 DEF Kind
        <4>3. QED
          BY <1>1, <1>6, <2>1, <2>2, <3>1, <3>4, <4>1, <4>2 DEF Cleared, IsDone, Kind
      <3>5. QED
        BY <3>2, <3>3, <3>4
    <2>5. QED
      BY <1>10, <2>2, <2>3, <2>4
  <1>15. CASE f.at = "enter" /\ GoTo(t, "again") /\ (UNCHANGED fs \/ (IsFile(f.dst) /\ Put(f.dst, Absent)))
    <2>1. \A p \in Paths : p # f.dst => fs'[p] = fs[p]
      BY <1>0, <1>15, PutIs
    <2>2. ASSUME NEW g \in Waiting(t) PROVE IsReady(g)
      BY <1>8, <1>15, <2>1 DEF Ready, IsReady, IsFile, Kind
    <2>3. IsReady(AtPlace(f, "again"))
      BY <1>4, LeftAtPlace DEF IsReady, Steps
    <2>4. QED
      BY <1>10, <1>13, <1>15, <2>1, <2>2, <2>3
  <1>16. CASE /\ f.at = "enter" /\ Exists(f.src) /\ Exists(f.dst) /\ ~IsFile(f.src) /\ ~IsFile(f.dst)
              /\ GoTo(t, "merge") /\ UNCHANGED fs
    <2>1. Kind(f.dst) = "dir" /\ Kind(f.src) = "dir" /\ f.dst \in Paths
      BY <1>0, <1>16 DEF Exists, IsFile, Kind, Nodes, Kinds
    <2>2. fs[f.src] = Was(t, f.src)
      BY <1>3, <1>4, <2>1, NodesAre DEF MovesFiles, Kind, S
    <2>3. AtPlace(f, "merge").src = f.src /\ AtPlace(f, "merge").dst = f.dst
      BY <1>4, LeftAtPlace DEF Steps
    <2>4. IsReady(AtPlace(f, "merge"))
      BY <1>16, <2>1, <2>2, <2>3 DEF IsReady, Kind
    <2>5. QED
      BY <1>10, <1>12, <1>13, <1>16, <2>4
  <1>17. CASE f.at = "merge" /\ GoTo(t, "list") /\ UNCHANGED fs
    <2>1. AtPlace(f, "list").src = f.src /\ AtPlace(f, "list").dst = f.dst
      BY <1>4, LeftAtPlace DEF Steps
    <2>2. IsReady(AtPlace(f, "list"))
      BY <1>9, <1>17, <2>1 DEF IsReady, Ready, Kind
    <2>3. QED
      BY <1>10, <1>12, <1>13, <1>17, <2>2
  <1>18. CASE f.at = "list" /\ Children(f.src) \subseteq f.seen /\ GoTo(t, "end") /\ UNCHANGED fs
    <2> DEFINE g == AtPlace(f, "end")
    <2>1. /\ g \in AnyFrame /\ g.src = f.src /\ g.dst = f.dst /\ g.at = "end" /\ g.fn = "move"
      BY <1>4, LeftAtPlace DEF Steps
    <2>2. Turns(t, g)
      BY <1>0, <1>18, HelpersTurn DEF f
    <2> HIDE DEF g
    <2>3. Active(t)' = Waiting(t) \cup {g} /\ \A p : Pending(t, p)' <=> Left(g, p) \/ Behind(t, p)
      BY <1>0, <2>1, <2>2, ActiveIs, PendingIs
    <2>4. IsReady(g)
      BY <1>9, <1>18, <2>1 DEF IsReady, Ready, Kind
    <2>5. ASSUME NEW p \in Source(t) PROVE IF Pending(t, p)' THEN fs'[p] = Was(t, p) ELSE IsDone(p)
      <3>1. Left(g, p) => Left(f, p)
        BY <1>4, <1>18, <2>1 DEF Left
      <3>2. Left(f, p) => Left(g, p)
        <4>1. CASE p = f.src
          BY <2>1, <4>1 DEF Left
        <4>2. CASE p # f.src /\ Left(f, p)
          <5>1. Kind(p) = "none"
            BY <1>0, <1>4, <1>6, <1>18, <4>2, NothingLeft
          <5>2. QED
            BY <1>6, <1>7, <4>2, <5>1 DEF Kind
        <4>3. QED
          BY <4>1, <4>2
      <3>3. QED
        BY <1>1, <1>7, <1>18, <2>3, <3>1, <3>2 DEF Cleared, IsDone, Kind
    <2>6. QED
      BY <1>10, <1>12, <1>18, <2>3, <2>4, <2>5
  <1>19. CASE f.at = "list" /\ Recurse(t) /\ UNCHANGED fs
    <2>1. PICK n \in Unseen(t), h \in AnyFrame : Entered(t, n, h)
      BY <1>0, <1>19, RecurseEnters
    <2> DEFINE g == HasSeen(f, n)
    <2>2. n \in Names /\ n \notin f.seen /\ h.src = Append(f.src, n) /\ h.at = "enter" /\ Enters(t, g, h)
      BY <2>1 DEF Unseen, Children, Entered, f
    <2>3. g \in AnyFrame /\ g.src = f.src /\ g.dst = f.dst /\ g.at = "list"
      BY <1>4, <1>19, <2>2 DEF HasSeen, AnyFrame
    <2>4. \A p \in Seq(Names) : Left(f, p) <=> Left(g, p) \/ Left(h, p)
      BY <1>4, <1>19, <2>2, LeftEntered
    <2> HIDE DEF g
    <2>5. /\ Active(t)' = Waiting(t) \cup {g, h}
          /\ \A p : Pending(t, p)' <=> Left(g, p) \/ Left(h, p) \/ Behind(t, p)
      BY <1>0, <2>2, <2>3, ActiveIs, PendingIs
    <2>6. IsReady(g) /\ IsReady(h)
      BY <1>9, <1>19, <2>2, <2>3 DEF IsReady, Ready, Kind
    <2>7. ASSUME NEW p \in Source(t) PROVE IF Pending(t, p)' THEN fs'[p] = Was(t, p) ELSE IsDone(p)
      BY <1>1, <1>6, <1>7, <1>19, <2>4, <2>5 DEF Cleared, IsDone, Kind
    <2>8. QED
      BY <1>10, <1>12, <1>19, <2>5, <2>6, <2>7
  <1>20. ASSUME f.at = "end"
         PROVE  /\ f.dst \in Paths /\ Kind(f.dst) = "dir" /\ Was(t, f.src).kind = "dir" /\ f.src \in Source(t)
                /\ fs[f.src] = Was(t, f.src) /\ \A p : Left(f, p) <=> p = f.src
    <2>1. f.dst \in Paths /\ Kind(f.dst) = "dir" /\ Was(t, f.src).kind = "dir"
      BY <1>9, <1>20 DEF Ready
    <2>2. f.src \in Source(t)
      BY <1>4, <2>1 DEF Source, S
    <2>3. \A p : Left(f, p) <=> p = f.src
      BY <1>4, <1>20, WithinItself DEF Left
    <2>4. QED
      BY <1>7, <2>1, <2>2, <2>3
  <1>21. CASE f.at = "end" /\ IsEmptyDirectory(f.src) /\ Put(f.src, Absent) /\ Pops(t)
    <2>1. fs'[f.src] = Absent /\ \A p \in Paths : p # f.src => fs'[p] = fs[p]
      BY <1>0, <1>4, <1>21, PutIs
    <2>2. Active(t)' = Waiting(t) /\ \A p : Pending(t, p)' <=> Behind(t, p)
      BY <1>0, <1>21, ActiveIs, PendingIs
    <2>3. \A q \in Seq(Names) : Within(q, D) => q # f.src
      BY <1>4, <1>5
    <2>4. ASSUME NEW g \in Waiting(t) PROVE IsReady(g)
      BY <1>8, <2>1, <2>3 DEF Ready, IsReady, Kind
    <2>5. ASSUME NEW p \in Source(t), p = f.src PROVE ~Behind(t, p) /\ IsDone(p)
      <3>1. ~Behind(t, p)
        BY <1>4, <1>9, <2>5, WithinItself
      <3>2. fs[f.dst] = Directory /\ fs[f.src] = Directory
        BY <1>0, <1>4, <1>20, <1>21, NodesAre DEF FilesInv, IsEmptyDirectory, IsFile, Kind
      <3>3. f.dst # f.src
        BY <1>4, <2>3
      <3>4. QED
        BY <1>4, <1>20, <1>21, <2>1, <2>5, <3>1, <3>2, <3>3, NodesAre DEF IsDone
    <2>6. ASSUME NEW p \in Source(t), p # f.src
          PROVE  IF Pending(t, p)' THEN fs'[p] = Was(t, p) ELSE IsDone(p)
      <3>1. ~Left(f, p)
        BY <1>20, <1>21, <2>6
      <3>2. Target(t, p) # f.src
        BY <1>6, <2>3
      <3>3. QED
        BY <1>1, <1>6, <1>7, <2>1, <2>2, <2>6, <3>1, <3>2 DEF Cleared, IsDone, Kind
    <2>7. QED
      BY <1>10, <2>2, <2>4, <2>5, <2>6
  \* What is not empty holds what was left of it.
  <1>22. ASSUME f.at = "end", ~IsEmptyDirectory(f.src) PROVE "other" \in mishaps'
    <2>1. Kind(f.src) = "dir"
      BY <1>20, <1>22 DEF Kind
    <2>2. f.src # <<>>
      <3>1. ASSUME f.src = <<>> PROVE FALSE
        <4>1. S = <<>>
          BY <1>0, <1>4, <3>1, AllIsInRoot DEF S
        <4>2. Within(D, S)
          BY <1>0, <4>1, AllIsInRoot DEF D
        <4>3. QED
          BY <1>1, <4>2 DEF Proper, Inside, S, D
      <3>2. QED
        BY <3>1
    <2>3. PICK n \in Names : Len(f.src) < Depth /\ Kind(Append(f.src, n)) # "none"
      BY <1>22, <2>1, <2>2 DEF IsEmptyDirectory, Children
    <2> DEFINE c == Append(f.src, n)
    <2>4. c \in Seq(Names) /\ Len(c) = Len(f.src) + 1 /\ Within(c, f.src) /\ c # f.src
      BY <1>4, ChildIsAppended
    <2>5. c \in Paths
      <3>1. Len(f.src) < Depth /\ Len(f.src) \in Nat
        BY <1>4, <2>3
      <3>2. Len(c) <= Depth
        BY <2>4, <3>1, DepthIsNat
      <3>3. QED
        BY <2>4, <3>2, PathsAreShort
    <2>6. Kind(c) # "none"
      BY <2>3
    <2> HIDE DEF c
    <2>7. Within(c, S)
      BY <1>0, <1>4, <2>4, WithinWithin DEF S
    <2>8. c \in Source(t)
      <3>1. fs[c] \in {Was(t, c), Absent}
        BY <1>3, <2>5, <2>7 DEF MovesFiles, S
      <3>2. Was(t, c).kind # "none"
        BY <2>6, <3>1, NodesAre DEF Kind
      <3>3. QED
        BY <2>5, <2>7, <3>2 DEF Source, S
    <2>9. ~Left(f, c) /\ ~Behind(t, c)
      BY <1>9, <1>20, <1>22, <2>4, <2>8
    <2>10. QED
      BY <1>1, <1>7, <2>6, <2>8, <2>9 DEF Cleared
  <1>23. CASE f.at = "end" /\ UNCHANGED fs /\ Pops(t) /\ (IsEmptyDirectory(f.src) => "other" \in mishaps')
    <2>1. "other" \in mishaps'
      BY <1>22, <1>23
    <2>2. Active(t)' = Waiting(t) /\ \A p : Pending(t, p)' <=> Behind(t, p)
      BY <1>0, <1>23, ActiveIs, PendingIs
    <2>3. ASSUME NEW p \in Source(t), p = f.src PROVE ~Behind(t, p) /\ IsDone(p)
      <3>1. ~Behind(t, p)
        BY <1>4, <1>9, <2>3, WithinItself
      <3>2. fs[f.dst] = Directory /\ fs[f.src] = Directory
        <4>1. Kind(f.src) = "dir"
          BY <1>20, <1>23 DEF Kind
        <4>2. QED
          BY <1>0, <1>4, <1>20, <1>23, <4>1, NodesAre DEF FilesInv, IsFile, Kind
      <3>3. QED
        BY <1>4, <1>20, <1>23, <2>1, <2>3, <3>1, <3>2, NodesAre DEF IsDone
    <2>4. ASSUME NEW p \in Source(t), p # f.src
          PROVE  IF Pending(t, p)' THEN fs'[p] = Was(t, p) ELSE IsDone(p)
      <3>1. ~Left(f, p)
        BY <1>20, <1>23, <2>4
      <3>2. QED
        BY <1>1, <1>7, <1>23, <2>2, <3>1 DEF Cleared, IsDone, Kind
    <2>5. QED
      BY <1>10, <1>12, <1>23, <2>2, <2>3, <2>4
  <1>24. QED
    BY <1>3, <1>10, <1>11, <1>14, <1>15, <1>16, <1>17, <1>18, <1>19, <1>21, <1>23 DEF MoveGoesOn, f

(***************************************************************************)
(* A copy that has not failed                                              *)
(***************************************************************************)
\* A copy that has not failed, and that saw all there was.
Thorough(t) ==
    /\ Alone(t, {"copy"}) /\ Proper(t) /\ mishaps \cap {"dread", "short"} = {} /\ ~Hidden(t)
    /\ ret[t] \in {Okay, Running}

Copied(node) == IF node.kind \in {"file", "cut"} THEN Node("file", node.of) ELSE node

\* What a frame has seen to so far.
Sees(t, f) ==
    /\ f.at \in {"mkdir", "list"} => Was(t, f.src).kind = "dir"
    /\ f.at = "list" => f.dst \in Paths /\ Kind(f.dst) = "dir"
    /\ f.at \in {"opendst", "data"} => WasFile(t, f.src)
    /\ f.at = "data" => f.dst \in Paths /\ fs[f.dst] = Node("cut", Was(t, f.src).of)

CopyDone(t) ==
    /\ \A p \in Source(t) : ~Pending(t, p) =>
          Target(t, p) \in Paths /\ fs[Target(t, p)] = Copied(Was(t, p))
    /\ \A q \in Paths : fs[q] # Was(t, q) => \E p \in Source(t) : q = Target(t, p)
    /\ \A p \in Source(t) : Was(t, p).kind = "dir" /\ Target(t, p) \in Paths => ~IsFile(Target(t, p))
    /\ \A f \in Active(t) : Sees(t, f)

\* What has been copied is at the destination, and nothing else there has changed.
CopyDoneInv == \A t \in Threads : Thorough(t) => CopyDone(t)

\* The steps of a copy that does not fail.
CopyGoesOn(t) ==
    LET f == Top(t)
    IN  \/ UNCHANGED <<fs, stack>>
        \/ f.at = "enter" /\ Kind(f.src) = "dir" /\ GoTo(t, "mkdir") /\ UNCHANGED fs
        \/ f.at = "enter" /\ Push(t, Front(stack[t]), Frame("copyfile", f.src, f.dst)) /\ UNCHANGED fs
        \/ f.at = "enter" /\ IsFile(f.src) /\ GoTo(t, "opendst") /\ UNCHANGED fs
        \/ f.at = "list" /\ Children(f.src) \subseteq f.seen /\ Pops(t) /\ UNCHANGED fs
        \/ f.at = "list" /\ Recurse(t) /\ UNCHANGED fs
        \/ /\ f.at = "mkdir" /\ GoTo(t, "list")
           /\ \/ CanCreate(f.dst) /\ Put(f.dst, Directory)
              \/ Exists(f.dst) /\ UNCHANGED fs
        \/ /\ f.at = "opendst" /\ HasRoom(f.dst) /\ Kind(f.dst) # "dir"
           /\ Put(f.dst, Node("cut", fs[f.src].of)) /\ GoTo(t, "data")
        \/ /\ f.at = "data" /\ Pops(t)
           /\ Put(f.dst, IF Kind(f.dst) = "cut" THEN Node("file", fs[f.dst].of) ELSE fs[f.dst])
        \/ f.at = "data" /\ UNCHANGED fs /\ \E r \in {Cancelled, Failed} : GoUndo(t, r)

LEMMA CopyGoes ==
    ASSUME TreeInv, NEW t \in Threads, Step(t), call[t].fn = "copy",
           mishaps' \cap {"dread", "short"} = {}, ret'[t] \in {Okay, Running}
    PROVE  CopyGoesOn(t)
  <1> DEFINE f == Top(t)
  <1>0. /\ stack[t] # <<>> /\ f.fn \in {"copy", "copyfile"} /\ f.at \in Places(f.fn)
        /\ f.at = "undo" => f.res # Okay
        /\ f.res \in {Okay, Cancelled, Failed}
        /\ ret \in [Threads -> {Okay, Cancelled, Failed, Running}] /\ ret[t] \in {Okay, Running}
    BY StepIsAt, TopIsPlaced, FailureStays DEF TreeInv, FrameInv, Fits, Placed, AnyFrame
  <1>1. ~Mishap("dread") /\ ~Mishap("short")
    BY DEF Mishap
  <1>2. ~Return(t, Failed) /\ ~Return(t, Cancelled)
    BY <1>0 DEF Return, Failed, Cancelled, Okay, Running
  <1>3. \A r : Return(t, r) => Pops(t)
    BY DEF Return, Pops
  <1>4. CASE ret[t] # Running
    BY <1>0, <1>4, StepIsAt DEF Resume, CopyGoesOn
  <1>5. CASE ret[t] = Running
    <2>1. CASE f.at = "enter"
      <3>1. (OpenDirectory(t) /\ f.fn = "copy") \/ OpenSource(t)
        BY <1>0, <1>2, <1>5, <2>1, StepIsAt DEF Refuse, OpenDirectory, OpenSource, Rename, In
      <3>2. CASE OpenDirectory(t) /\ f.fn = "copy"
        BY <2>1, <3>2 DEF OpenDirectory, CopyGoesOn
      <3>3. CASE OpenSource(t)
        BY <1>2, <2>1, <3>3 DEF OpenSource, CopyGoesOn
      <3>4. QED
        BY <3>1, <3>2, <3>3
    <2>2. CASE f.at = "list"
      <3>1. (EndOfList(t) /\ f.fn = "copy") \/ Recurse(t)
        BY <1>0, <1>5, <2>2, StepIsAt DEF EndOfList, CountFile, RemoveFile, In, Fns
      <3>2. CASE EndOfList(t) /\ f.fn = "copy"
        BY <1>1, <1>3, <2>2, <3>2 DEF EndOfList, CopyGoesOn
      <3>3. CASE Recurse(t)
        BY <2>2, <3>3 DEF Recurse, CopyGoesOn
      <3>4. QED
        BY <3>1, <3>2, <3>3
    <2>3. CASE f.at = "mkdir"
      BY <1>2, <1>5, <2>3, StepIsAt DEF MakeDirectory, CopyGoesOn, Stays
    <2>4. CASE f.at = "opendst"
      BY <1>2, <1>5, <2>4, StepIsAt DEF OpenDestination, CopyGoesOn
    <2>5. CASE f.at = "data"
      BY <1>1, <1>3, <1>5, <2>5, StepIsAt DEF CopyData, CopyGoesOn
    <2>6. CASE f.at = "undo"
      <3>1. Return(t, f.res)
        BY <1>5, <2>6, StepIsAt DEF UndoCopy
      <3>2. QED
        BY <1>0, <1>2, <2>6, <3>1
    <2>7. QED
      BY <1>0, <2>1, <2>2, <2>3, <2>4, <2>5, <2>6 DEF Places
  <1>6. QED
    BY <1>4, <1>5

\* Nobody has changed what is copied.
LEMMA SourceStays ==
    ASSUME CalmInv, NEW t \in Threads, Alone(t, {"copy"}), Proper(t), NEW p \in Paths,
           Within(p, call[t].src), call[t].src \in Seq(Names), call[t].dst \in Seq(Names)
    PROVE  fs[p] = Was(t, p)
  <1>1. ~Within(p, call[t].dst)
    BY SourceApart, PathsAreSequences
  <1>2. QED
    BY <1>1 DEF CalmInv, TouchInv, OnlyItsOwn, Alone, Fns

LEMMA StepCopyDone ==
    ASSUME CalmInv, CopyDoneInv, NEW t \in Threads, Step(t)
    PROVE  CopyDoneInv'
  <1> DEFINE f == Top(t)
             S == call[t].src
             D == call[t].dst
  <1>0. /\ TreeInv /\ StackInv /\ FilesInv /\ stack[t] # <<>> /\ UNCHANGED <<call, before, alone>>
        /\ \A u \in Threads \ {t} : ~alone[u]
        /\ S \in Seq(Names) /\ D \in Seq(Names) /\ fs \in [Paths -> Nodes]
    BY StepCalm, PathsAreSequences DEF CalmInv, TreeInv, FilesInv
  <1> SUFFICES ASSUME Thorough(t)' PROVE CopyDone(t)'
    BY <1>0 DEF CopyDoneInv, Thorough, Alone
  <1>1. /\ call[t].fn = "copy" /\ Alone(t, {"copy"}) /\ Proper(t)
        /\ mishaps' \cap {"dread", "short"} = {} /\ ret'[t] \in {Okay, Running} /\ ~Hidden(t)
    BY <1>0 DEF Thorough, Alone, Proper, Apart, Inside, Hidden, Source, Target, Was, WasFile
  <1>2. Thorough(t)
    BY <1>0, <1>1, MishapsStay, FailureStays DEF Thorough
  <1>3. CopyDone(t) /\ CopyGoesOn(t)
    BY <1>0, <1>1, <1>2, CopyGoes DEF CopyDoneInv
  <1>4. /\ FrameOf(t, f) /\ f \in AnyFrame
        /\ f.src \in Paths /\ f.src \in Seq(Names) /\ f.dst \in Seq(Names)
        /\ Within(f.src, S) /\ Within(f.dst, D) /\ f.dst = Target(t, f.src)
        /\ f.at \notin {"list", "end"} => f.seen = {}
        /\ f.at = "list" => f.fn # "move"
        /\ f.fn # "move"
    BY <1>0, <1>1, TopIsFrame, TopIsPlaced DEF TreeInv, Fits, Placed, FrameOf
  <1>5. \A p \in Paths : p \in Seq(Names) /\ (Within(p, S) => fs[p] = Was(t, p))
    BY <1>0, <1>1, PathsAreSequences, SourceStays
  <1>6. ASSUME NEW p \in Source(t)
        PROVE  /\ p \in Paths /\ p \in Seq(Names) /\ Within(p, S) /\ Was(t, p).kind # "none"
               /\ fs[p] = Was(t, p) /\ (Target(t, p) = f.dst => p = f.src)
    BY <1>0, <1>4, <1>5, <1>6, TargetIs DEF Source
  <1>7. \A p \in Source(t) : Left(f, p) \/ Behind(t, p) \/
            (Target(t, p) \in Paths /\ fs[Target(t, p)] = Copied(Was(t, p)))
    BY <1>0, <1>3, PendingIs DEF CopyDone
  <1>8. \A g \in Waiting(t) : g \in AnyFrame /\ g.at = "list" /\ Sees(t, g)
    <2>1. \A g \in Waiting(t) : g \in Active(t)
      BY <1>0, ActiveIs
    <2>2. QED
      BY <1>0, <1>3, <2>1, WaitingAre DEF CopyDone
  <1>9. /\ Sees(t, f)
        /\ \A p \in Source(t) : Within(p, f.src) => ~Behind(t, p)
    <2>1. f \in Active(t)
      BY <1>0, ActiveIs
    <2>2. QED
      BY <1>0, <1>3, <1>4, <1>6, <2>1, WaitingAre DEF CopyDone, Behind
  \* The goal, before it is known how the stack changes.
  <1> DEFINE IsDone(p) == Target(t, p) \in Paths /\ fs'[Target(t, p)] = Copied(Was(t, p))
             NothingElse == /\ \A q \in Paths : fs'[q] # Was(t, q) => \E p \in Source(t) : q = Target(t, p)
                            /\ \A p \in Source(t) : Was(t, p).kind = "dir" /\ Target(t, p) \in Paths =>
                                  fs'[Target(t, p)].kind \notin {"file", "cut"}
             SeesNow(g) == /\ g.at \in {"mkdir", "list"} => Was(t, g.src).kind = "dir"
                           /\ g.at = "list" => g.dst \in Paths /\ fs'[g.dst].kind = "dir"
                           /\ g.at \in {"opendst", "data"} => WasFile(t, g.src)
                           /\ g.at = "data" => g.dst \in Paths /\ fs'[g.dst] = Node("cut", Was(t, g.src).of)
  <1>10. SUFFICES /\ \A p \in Source(t) : ~Pending(t, p)' => IsDone(p)
                  /\ NothingElse
                  /\ \A g \in Active(t)' : SeesNow(g)
    <2>1. /\ Source(t)' = Source(t) /\ \A p : Was(t, p)' = Was(t, p) /\ WasFile(t, p)' = WasFile(t, p)
                                              /\ Target(t, p)' = Target(t, p)
      BY <1>0 DEF Was, WasFile, Target, Source
    <2>2. (\A g \in Active(t)' : SeesNow(g)) => \A g \in Active(t)' : Sees(t, g)'
      BY <2>1 DEF Sees, Kind
    <2>3. NothingElse => /\ \A q \in Paths : fs'[q] # Was(t, q)' => \E p \in Source(t)' : q = Target(t, p)'
                         /\ \A p \in Source(t)' : Was(t, p)'.kind = "dir" /\ Target(t, p)' \in Paths => ~IsFile(Target(t, p))'
      BY <2>1 DEF IsFile, Kind
    <2>4. QED
      BY <2>1, <2>2, <2>3 DEF CopyDone
  <1> HIDE DEF f, S, D, IsDone, NothingElse, SeesNow
  <1>11. CASE UNCHANGED <<fs, stack>>
    <2>1. Active(t)' = Active(t) /\ \A p : Pending(t, p)' <=> Pending(t, p)
      BY <1>11 DEF Active, Pending
    <2>2. QED
      BY <1>3, <1>10, <1>11, <2>1 DEF CopyDone, IsDone, NothingElse, SeesNow, Sees, Kind, IsFile
  \* The file system stays ...
  <1>12. ASSUME UNCHANGED fs
         PROVE  /\ NothingElse /\ \A g \in Waiting(t) : SeesNow(g)
                /\ \A p \in Source(t) : ~Left(f, p) /\ ~Behind(t, p) => IsDone(p)
    <2>1. NothingElse
      BY <1>3, <1>12 DEF CopyDone, NothingElse, Kind, IsFile
    <2>2. QED
      BY <1>7, <1>8, <1>12, <2>1 DEF Sees, SeesNow, Kind, IsDone
  \* ... or something is put where the source of the innermost call belongs.
  <1>13. ASSUME NEW v, Put(f.dst, v), f.src \in Source(t), f.at # "list",
                Was(t, f.src).kind = "dir" => v.kind \notin {"file", "cut"},
                f.dst \in Paths /\ Kind(f.dst) = "dir" => v.kind = "dir"
         PROVE  /\ NothingElse /\ \A g \in Waiting(t) : SeesNow(g)
                /\ \A p \in Source(t) : p # f.src /\ ~Left(f, p) /\ ~Behind(t, p) => IsDone(p)
    <2>0. /\ \A q \in Paths : q # f.dst => fs'[q] = fs[q]
          /\ f.dst \in Paths => fs'[f.dst] = v
      BY <1>0, <1>13, PutIs
    <2>1. \A q \in Paths : fs'[q] # Was(t, q) => \E p \in Source(t) : q = Target(t, p)
      BY <1>3, <1>4, <1>13, <2>0 DEF CopyDone
    <2>2. ASSUME NEW p \in Source(t), Was(t, p).kind = "dir", Target(t, p) \in Paths
          PROVE  fs'[Target(t, p)].kind \notin {"file", "cut"}
      <3>1. CASE Target(t, p) = f.dst
        BY <1>6, <1>13, <2>0, <2>2, <3>1
      <3>2. CASE Target(t, p) # f.dst
        BY <1>3, <2>0, <2>2, <3>2 DEF CopyDone, IsFile, Kind
      <3>3. QED
        BY <3>1, <3>2
    <2>3. NothingElse
      BY <2>1, <2>2 DEF NothingElse
    <2>4. ASSUME NEW g \in Waiting(t) PROVE SeesNow(g)
      <3>1. g.at = "list" /\ Was(t, g.src).kind = "dir" /\ g.dst \in Paths /\ Kind(g.dst) = "dir"
        BY <1>8 DEF Sees
      <3>2. fs'[g.dst].kind = "dir"
        BY <1>13, <2>0, <3>1 DEF Kind
      <3>3. QED
        BY <3>1, <3>2 DEF SeesNow
    <2>5. ASSUME NEW p \in Source(t), p # f.src, ~Left(f, p), ~Behind(t, p) PROVE IsDone(p)
      BY <1>6, <1>7, <2>0, <2>5 DEF IsDone
    <2>6. QED
      BY <2>3, <2>4, <2>5
  \* The innermost call goes to another place.
  <1>14. ASSUME NEW l \in {"mkdir", "list", "opendst", "data"}, GoTo(t, l)
         PROVE  /\ AtPlace(f, l).src = f.src /\ AtPlace(f, l).dst = f.dst /\ AtPlace(f, l).at = l
                /\ Active(t)' = Waiting(t) \cup {AtPlace(f, l)}
                /\ f.at \notin {"list", "end"} => \A p : Pending(t, p)' <=>
                       (IF l = "list" THEN Left(f, p) /\ p # f.src ELSE Left(f, p)) \/ Behind(t, p)
    <2> DEFINE g == AtPlace(f, l)
    <2>1. l \in Steps
      BY DEF Steps
    <2>2. g \in AnyFrame /\ g.src = f.src /\ g.dst = f.dst /\ g.at = l
      BY <1>4, <2>1, LeftAtPlace
    <2>3. Turns(t, g)
      BY <1>0, <1>14, HelpersTurn DEF f
    <2>4. ASSUME f.at \notin {"list", "end"}, NEW p
          PROVE  Left(g, p) <=> (IF l = "list" THEN Left(f, p) /\ p # f.src ELSE Left(f, p))
      BY <1>4, <2>1, <2>4, LeftAtPlace
    <2> HIDE DEF g
    <2>5. Active(t)' = Waiting(t) \cup {g} /\ \A p : Pending(t, p)' <=> Left(g, p) \/ Behind(t, p)
      BY <1>0, <2>2, <2>3, ActiveIs, PendingIs
    <2>6. QED
      BY <2>2, <2>4, <2>5 DEF g
  <1>15. CASE f.at = "enter" /\ Kind(f.src) = "dir" /\ GoTo(t, "mkdir") /\ UNCHANGED fs
    <2>1. Was(t, f.src).kind = "dir"
      BY <1>4, <1>5, <1>15 DEF Kind
    <2>2. SeesNow(AtPlace(f, "mkdir"))
      BY <1>14, <1>15, <2>1 DEF SeesNow
    <2>3. QED
      BY <1>10, <1>12, <1>14, <1>15, <2>2
  <1>16. CASE f.at = "enter" /\ Push(t, Front(stack[t]), Frame("copyfile", f.src, f.dst)) /\ UNCHANGED fs
    <2> DEFINE g == Frame("copyfile", f.src, f.dst)
    <2>1. g \in AnyFrame /\ g.src = f.src /\ g.at = "enter" /\ g.fn = "copyfile"
      BY <1>4 DEF Frame, AnyFrame, Steps, Fns
    <2>2. Turns(t, g)
      BY <1>0, <1>16, <2>1, HelpersTurn
    <2> HIDE DEF g
    <2>3. Active(t)' = Waiting(t) \cup {g} /\ \A p : Pending(t, p)' <=> Left(g, p) \/ Behind(t, p)
      BY <1>0, <2>1, <2>2, ActiveIs, PendingIs
    <2>4. \A p : Left(g, p) <=> Left(f, p)
      BY <1>16, <2>1 DEF Left
    <2>5. SeesNow(g)
      BY <2>1 DEF SeesNow
    <2>6. QED
      BY <1>10, <1>12, <1>16, <2>3, <2>4, <2>5
  <1>17. CASE f.at = "enter" /\ IsFile(f.src) /\ GoTo(t, "opendst") /\ UNCHANGED fs
    <2>1. WasFile(t, f.src)
      BY <1>4, <1>5, <1>17 DEF IsFile, WasFile, Kind
    <2>2. SeesNow(AtPlace(f, "opendst"))
      BY <1>14, <1>17, <2>1 DEF SeesNow
    <2>3. QED
      BY <1>10, <1>12, <1>14, <1>17, <2>2
  <1>18. CASE f.at = "list" /\ Children(f.src) \subseteq f.seen /\ Pops(t) /\ UNCHANGED fs
    <2>1. Active(t)' = Waiting(t) /\ \A p : Pending(t, p)' <=> Behind(t, p)
      BY <1>0, <1>18, ActiveIs, PendingIs
    <2>2. ASSUME NEW p \in Source(t), Left(f, p) PROVE FALSE
      <3>1. p # f.src
        BY <1>4, <1>18, <2>2 DEF Left
      <3>2. Kind(p) = "none"
        BY <1>0, <1>4, <1>6, <1>18, <2>2, <3>1, NothingLeft
      <3>3. QED
        BY <1>6, <3>2 DEF Kind
    <2>3. QED
      BY <1>10, <1>12, <1>18, <2>1, <2>2
  <1>19. CASE f.at = "list" /\ Recurse(t) /\ UNCHANGED fs
    <2>1. PICK n \in Unseen(t), h \in AnyFrame : Entered(t, n, h)
      BY <1>0, <1>19, RecurseEnters
    <2> DEFINE g == HasSeen(f, n)
    <2>2. n \in Names /\ n \notin f.seen /\ h.src = Append(f.src, n) /\ h.at = "enter" /\ Enters(t, g, h)
      BY <2>1 DEF Unseen, Children, Entered, f
    <2>3. g \in AnyFrame /\ g.src = f.src /\ g.dst = f.dst /\ g.at = "list"
      BY <1>4, <1>19, <2>2 DEF HasSeen, AnyFrame
    <2>4. \A p \in Seq(Names) : Left(f, p) <=> Left(g, p) \/ Left(h, p)
      BY <1>4, <1>19, <2>2, LeftEntered
    <2> HIDE DEF g
    <2>5. /\ Active(t)' = Waiting(t) \cup {g, h}
          /\ \A p : Pending(t, p)' <=> Left(g, p) \/ Left(h, p) \/ Behind(t, p)
      BY <1>0, <2>2, <2>3, ActiveIs, PendingIs
    <2>6. SeesNow(g) /\ SeesNow(h)
      BY <1>9, <1>19, <2>2, <2>3 DEF SeesNow, Sees, Kind
    <2>7. \A p \in Source(t) : ~Pending(t, p)' => ~Left(f, p) /\ ~Behind(t, p)
      BY <1>6, <2>4, <2>5
    <2>8. QED
      BY <1>10, <1>12, <1>19, <2>5, <2>6, <2>7
  <1>20. CASE /\ f.at = "mkdir" /\ GoTo(t, "list")
              /\ (CanCreate(f.dst) /\ Put(f.dst, Directory)) \/ (Exists(f.dst) /\ UNCHANGED fs)
    <2>0. f.dst \in Paths /\ Was(t, f.src).kind = "dir" /\ f.src \in Source(t) /\ fs[f.src] = Directory
      <3>1. f.dst \in Paths
        BY <1>20 DEF CanCreate, HasRoom, Exists
      <3>2. Was(t, f.src).kind = "dir" /\ f.src \in Source(t)
        BY <1>4, <1>9, <1>20 DEF Sees, Source, S
      <3>3. fs[f.src] = Directory
        <4>1. Kind(f.src) = "dir"
          BY <1>6, <3>2 DEF Kind
        <4>2. fs[f.src] \in {Absent, Directory}
          BY <1>0, <1>4, <4>1 DEF FilesInv, IsFile
        <4>3. QED
          BY <4>1, <4>2, NodesAre DEF Kind
      <3>4. QED
        BY <3>1, <3>2, <3>3
    <2>1. NothingElse /\ \A g \in Waiting(t) : SeesNow(g)
      BY <1>12, <1>13, <1>20, <2>0, NodesAre
    <2>2. fs'[f.dst] = Directory
      <3>1. CASE Put(f.dst, Directory)
        BY <1>0, <2>0, <3>1, PutIs
      <3>2. CASE Exists(f.dst) /\ UNCHANGED fs
        <4>1. ~IsFile(f.dst)
          BY <1>3, <1>4, <2>0 DEF CopyDone
        <4>2. QED
          BY <1>0, <2>0, <3>2, <4>1, NodesAre DEF FilesInv, Exists, Kind
      <3>3. QED
        BY <1>20, <3>1, <3>2
    <2>3. SeesNow(AtPlace(f, "list"))
      BY <1>14, <1>20, <2>0, <2>2, NodesAre DEF SeesNow
    <2>4. ASSUME NEW p \in Source(t), ~Pending(t, p)' PROVE IsDone(p)
      <3>1. (~Left(f, p) \/ p = f.src) /\ ~Behind(t, p)
        BY <1>14, <1>20, <2>4
      <3>2. CASE p = f.src
        BY <1>4, <1>6, <2>0, <2>2, <3>2, NodesAre DEF IsDone, Copied
      <3>3. CASE p # f.src
        BY <1>12, <1>13, <1>20, <2>0, <2>4, <3>1, <3>3, NodesAre
      <3>4. QED
        BY <3>2, <3>3
    <2>5. QED
      BY <1>10, <1>14, <1>20, <2>1, <2>3, <2>4
  <1>21. ASSUME f.at \in {"opendst", "data"}
         PROVE  f.src \in Source(t) /\ WasFile(t, f.src) /\ fs[f.src] = Was(t, f.src) /\ Left(f, f.src)
    <2>1. WasFile(t, f.src)
      BY <1>9, <1>21 DEF Sees
    <2>2. f.src \in Source(t)
      BY <1>4, <2>1 DEF Source, WasFile, S
    <2>3. Left(f, f.src)
      BY <1>4, <1>21, WithinItself DEF Left
    <2>4. QED
      BY <1>6, <2>1, <2>2, <2>3
  <1>22. CASE /\ f.at = "opendst" /\ HasRoom(f.dst) /\ Kind(f.dst) # "dir"
              /\ Put(f.dst, Node("cut", fs[f.src].of)) /\ GoTo(t, "data")
    <2>1. f.src \in Source(t) /\ WasFile(t, f.src) /\ fs[f.src] = Was(t, f.src) /\ Left(f, f.src)
      BY <1>21, <1>22
    <2>2. /\ NothingElse /\ \A g \in Waiting(t) : SeesNow(g)
          /\ \A p \in Source(t) : p # f.src /\ ~Left(f, p) /\ ~Behind(t, p) => IsDone(p)
      BY <1>13, <1>22, <2>1 DEF WasFile
    <2>3. f.dst \in Paths /\ fs'[f.dst] = Node("cut", Was(t, f.src).of)
      BY <1>0, <1>22, <2>1, PutIs DEF HasRoom
    <2>4. SeesNow(AtPlace(f, "data"))
      BY <1>14, <1>22, <2>1, <2>3 DEF SeesNow
    <2>5. \A p \in Source(t) : ~Pending(t, p)' => IsDone(p)
      BY <1>14, <1>22, <2>1, <2>2
    <2>6. QED
      BY <1>10, <1>14, <1>22, <2>2, <2>4, <2>5
  <1>23. CASE /\ f.at = "data" /\ Pops(t)
              /\ Put(f.dst, IF Kind(f.dst) = "cut" THEN Node("file", fs[f.dst].of) ELSE fs[f.dst])
    <2>1. f.src \in Source(t) /\ WasFile(t, f.src) /\ fs[f.src] = Was(t, f.src)
      BY <1>21, <1>23
    <2>2. f.dst \in Paths /\ fs[f.dst] = Node("cut", Was(t, f.src).of)
      BY <1>9, <1>23 DEF Sees
    <2>3. Kind(f.dst) = "cut" /\ Put(f.dst, Copied(Was(t, f.src)))
      BY <1>23, <2>1, <2>2 DEF Kind, Node, Copied, WasFile
    <2>4. /\ NothingElse /\ \A g \in Waiting(t) : SeesNow(g)
          /\ \A p \in Source(t) : p # f.src /\ ~Left(f, p) /\ ~Behind(t, p) => IsDone(p)
      BY <1>13, <1>23, <2>1, <2>3 DEF WasFile
    <2>5. IsDone(f.src)
      BY <1>0, <1>4, <2>2, <2>3, PutIs DEF IsDone
    <2>6. \A p \in Source(t) : Left(f, p) => p = f.src
      <3>1. Kind(f.src) # "dir"
        BY <2>1 DEF WasFile, Kind
      <3>2. QED
        BY <1>0, <1>4, <1>6, <3>1, NothingInFiles DEF Left, Kind
    <2>7. Active(t)' = Waiting(t) /\ \A p : Pending(t, p)' <=> Behind(t, p)
      BY <1>0, <1>23, ActiveIs, PendingIs
    <2>8. QED
      BY <1>10, <2>4, <2>5, <2>6, <2>7
  <1>24. CASE f.at = "data" /\ UNCHANGED fs /\ \E r \in {Cancelled, Failed} : GoUndo(t, r)
    <2>1. PICK r \in {Cancelled, Failed} : GoUndo(t, r)
      BY <1>24
    <2> DEFINE g == Undoing(f, r)
    <2>2. g \in AnyFrame /\ g.fn = f.fn /\ g.src = f.src /\ g.at = "undo"
      BY <1>4, UndoingIs
    <2>3. Turns(t, g)
      BY <1>0, <2>1, HelpersTurn DEF f
    <2> HIDE DEF g
    <2>4. Active(t)' = Waiting(t) \cup {g} /\ \A p : Pending(t, p)' <=> Left(g, p) \/ Behind(t, p)
      BY <1>0, <2>2, <2>3, ActiveIs, PendingIs
    <2>5. \A p : Left(g, p) <=> Left(f, p)
      BY <1>24, <2>2 DEF Left
    <2>6. SeesNow(g)
      BY <2>2 DEF SeesNow
    <2>7. QED
      BY <1>10, <1>12, <1>24, <2>4, <2>5, <2>6
  <1>25. QED
    BY <1>3, <1>11, <1>15, <1>16, <1>17, <1>18, <1>19, <1>20, <1>22, <1>23, <1>24 DEF CopyGoesOn, f

\* A call that is made has all of its source before it.
LEMMA StartDone ==
    ASSUME CalmInv, MoveDoneInv, CopyDoneInv, NEW t \in Threads, NEW c \in Calls[t], Start(t, c)
    PROVE  MoveDoneInv' /\ CopyDoneInv'
  <1>1. /\ UNCHANGED fs /\ call'[t] = c /\ before'[t] = fs
        /\ stack'[t] # <<>> /\ Len(stack'[t]) = 1 /\ stack'[t][1] = Frame(c.fn, c.src, c.dst)
        /\ \A u \in Threads \ {t} : ~alone'[u]
    BY StartCalm
  <1> DEFINE f == Frame(c.fn, c.src, c.dst)
  <1>2. f.at = "enter" /\ f.src = c.src
    BY DEF Frame
  <1>3. Active(t)' = {f}
    BY <1>1 DEF Active
  <1> HIDE DEF f
  <1>4. \A p \in Source(t)' : Pending(t, p)'
    BY <1>1, <1>2, <1>3 DEF Pending, Left, Source
  <1>5. \A p : Was(t, p)' = fs[p]
    BY <1>1 DEF Was
  <1>6. MoveDone(t)'
    BY <1>1, <1>2, <1>3, <1>4, <1>5 DEF MoveDone
  <1>7. Thorough(t)' => CopyDone(t)'
    <2> SUFFICES ASSUME Thorough(t)' PROVE CopyDone(t)'
      OBVIOUS
    <2>1. \A p \in Source(t)' : Was(t, p)'.kind = "dir" /\ Target(t, p)' \in Paths => ~IsFile(Target(t, p))'
      BY <1>1, <1>5 DEF Thorough, Hidden, WasFile, IsFile, Kind
    <2>2. Sees(t, f)'
      BY <1>2 DEF Sees
    <2>3. QED
      BY <1>1, <1>3, <1>4, <1>5, <2>1, <2>2 DEF CopyDone
  <1>8. QED
    BY <1>1, <1>6, <1>7 DEF MoveDoneInv, CopyDoneInv, Smooth, Thorough, Alone

\* copyPath, unless the listing of a directory breaks off or a write is short, and
\* movePath with both flags, unless a listing breaks off or its first sceIoRename
\* fails but for EEXIST, return 1 only when all of the source, however deep it is, is
\* where it belongs; copyPath changes nothing else, and movePath leaves nothing of it
\* behind but directories that could not be removed.
THEOREM SuccessIsTrue == Spec => []SuccessIsWhole
  <1> DEFINE Inv == CalmInv /\ RefusedInv /\ MoveInv /\ MoveDoneInv /\ CopyDoneInv
  <1>1. Init => Inv
    BY InitCalm, NotCalled
    DEF Init, RefusedInv, MoveInv, MoveDoneInv, CopyDoneInv, Smooth, Thorough, Inside, Alone, NoCall
  <1>2. Inv /\ [Next]_vars => Inv'
    <2> SUFFICES ASSUME Inv, [Next]_vars PROVE Inv'
      OBVIOUS
    <2>1. CASE UNCHANGED vars
      <3>1. CalmInv' /\ RefusedInv' /\ MoveInv'
        BY <2>1, CalmStutters
        DEF vars, RefusedInv, Inside, Top, MoveInv, MovesFiles, Alone, Proper, Apart, Was, WasFile, Target
      <3>2. MoveDoneInv'
        BY <2>1
        DEF vars, MoveDoneInv, Smooth, MoveDone, Cleared, Alone, Proper, Apart, Inside, Was, Target, Source, Pending,
            Active, Kind
      <3>3. CopyDoneInv'
        BY <2>1
        DEF vars, CopyDoneInv, Thorough, CopyDone, Alone, Proper, Apart, Inside, Was, WasFile, Target, Source,
            Pending, Active, Kind, IsFile, Hidden, Sees
      <3>4. QED
        BY <3>1, <3>2, <3>3
    <2>2. ASSUME NEW t \in Threads, Step(t) PROVE Inv'
      BY <2>2, StepCalm, StepRefused, StepMove, StepMoveDone, StepCopyDone
    <2>3. ASSUME NEW t \in Threads, NEW c \in Calls[t], Start(t, c) PROVE Inv'
      BY <2>3, StartCalm, StartRefused, StartMove, StartDone
    <2>4. QED
      BY <2>1, <2>2, <2>3 DEF Next
  <1>3. Inv => SuccessIsWhole
    <2> SUFFICES ASSUME Inv, NEW t \in Threads, Done(t), ret[t] = Okay, Apart(t),
                        Alone(t, {"copy", "move"})
                 PROVE  CopyIsWhole(t) /\ MoveIsWhole(t)
      BY DEF SuccessIsWhole, CopyIsWhole, MoveIsWhole, Alone
    <2>1. Proper(t)
      BY DEF Proper, Alone, RefusedInv, Done, Okay, Failed, Running
    <2>2. \A p : ~Pending(t, p)
      BY DEF Done, Pending, Active
    <2>3. CopyIsWhole(t)
      BY <2>1, <2>2 DEF CopyIsWhole, CopyDoneInv, Thorough, CopyDone, Copied, WasFile
    <2>4. MoveIsWhole(t)
      BY <2>1, <2>2 DEF MoveIsWhole, MoveDoneInv, Smooth, MoveDone, Cleared
    <2>5. QED
      BY <2>3, <2>4
  <1>4. QED
    BY <1>1, <1>2, <1>3, PTL DEF Spec
=============================================================================
