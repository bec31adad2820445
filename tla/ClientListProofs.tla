-------------------------- MODULE ClientListProofs --------------------------
(***************************************************************************)
(* What the pointer surgery of ClientList does to a well-formed list, for  *)
(* every set of clients and every length.                                  *)
(***************************************************************************)
EXTENDS ClientList, TLAPS

\* client_list_add on a well-formed list: one link more, the new client in front.
THEOREM AddFrontChain ==
    ASSUME NEW l \in ListType, NEW n \in Nat, NEW e, Chain(l, e, n),
           NEW c \in Clients, c \notin Members(e, n)
    PROVE  /\ AddFront(l, c) \in ListType
           /\ \E f : /\ Chain(AddFront(l, c), f, n + 1)
                     /\ Members(f, n + 1) = Members(e, n) \cup {c}
<1> DEFINE f == [i \in 1..(n + 1) |-> IF i = 1 THEN c ELSE e[i - 1]]
           m == AddFront(l, c)
<1>1. /\ n \in Nat
      /\ e \in [1..n -> Clients]
      /\ \A i \in 1..n : e[i] \in Clients /\ e[i] # c
      /\ l.head \in Pointers /\ l.prev \in [Clients -> Pointers] /\ l.next \in [Clients -> Pointers]
  BY DEF Chain, Members, ListType
<1>2. n = 0 <=> l.head = NULL
  BY <1>1, NullIsNoClient DEF Chain
<1>3. m \in ListType
  BY <1>1, NullIsNoClient DEF AddFront, ListType, Pointers
<1>4. f \in [1..(n + 1) -> Clients]
  BY <1>1
<1>5. \A i, j \in 1..(n + 1) : f[i] = f[j] => i = j
  BY <1>1 DEF Chain
<1>6. m.head = f[1]
  BY <1>1 DEF AddFront
<1>7. ASSUME NEW i \in 1..(n + 1)
      PROVE  m.next[f[i]] = IF i = n + 1 THEN NULL ELSE f[i + 1]
  <2>1. m.next = [l.next EXCEPT ![c] = l.head]
    BY <1>1 DEF AddFront, ListType
  <2>2. CASE i = 1
    BY <1>1, <2>1, <2>2 DEF Chain
  <2>3. CASE i # 1
    <3>1. i - 1 \in 1..n /\ f[i] = e[i - 1] /\ e[i - 1] # c
      BY <1>1, <2>3
    <3>2. m.next[f[i]] = IF i - 1 = n THEN NULL ELSE e[(i - 1) + 1]
      BY <1>1, <2>1, <3>1 DEF Chain
    <3> QED BY <1>1, <2>3, <3>1, <3>2
  <2> QED BY <2>2, <2>3
<1>8. ASSUME NEW i \in 1..(n + 1)
      PROVE  m.prev[f[i]] = IF i = 1 THEN NULL ELSE f[i - 1]
  BY <1>1, <1>2 DEF AddFront, Chain, Pointers, ListType
<1>9. Chain(m, f, n + 1)
  BY <1>1, <1>4, <1>5, <1>6, <1>7, <1>8 DEF Chain
<1>10. Members(f, n + 1) = Members(e, n) \cup {c}
  <2>1. ASSUME NEW d \in Members(f, n + 1) PROVE d \in Members(e, n) \cup {c}
    BY <1>1, <2>1 DEF Members
  <2>2. ASSUME NEW d \in Members(e, n) PROVE d \in Members(f, n + 1)
    <3>1. PICK i \in 1..n : d = e[i]
      BY DEF Members
    <3>2. i + 1 \in 1..(n + 1) /\ f[i + 1] = e[i]
      BY <1>1, <3>1
    <3> QED BY <3>1, <3>2 DEF Members
  <2>3. c \in Members(f, n + 1)
    <3>1. 1 \in 1..(n + 1) /\ f[1] = c
      BY <1>1
    <3> QED BY <3>1 DEF Members
  <2> QED BY <2>1, <2>2, <2>3
<1> QED
  BY <1>3, <1>9, <1>10

\* client_list_delete of a member: one link less, and nobody else is lost.
THEOREM UnlinkChain ==
    ASSUME NEW l \in ListType, NEW n \in Nat, NEW e, Chain(l, e, n),
           NEW c \in Clients, c \in Members(e, n)
    PROVE  /\ Unlink(l, c) \in ListType
           /\ \E f : /\ Chain(Unlink(l, c), f, n - 1)
                     /\ Members(f, n - 1) = Members(e, n) \ {c}
<1>1. PICK k \in 1..n : c = e[k]
  BY DEF Members
<1> DEFINE f == [i \in 1..(n - 1) |-> IF i < k THEN e[i] ELSE e[i + 1]]
           m == Unlink(l, c)
<1>2. /\ n \in Nat /\ n > 0
      /\ e \in [1..n -> Clients]
      /\ c \in Clients
      /\ l.head = e[1]
      /\ \A i, j \in 1..n : e[i] = e[j] => i = j
      /\ \A i \in 1..n : /\ l.next[e[i]] = IF i = n THEN NULL ELSE e[i + 1]
                         /\ l.prev[e[i]] = IF i = 1 THEN NULL ELSE e[i - 1]
      /\ l.head \in Pointers /\ l.prev \in [Clients -> Pointers] /\ l.next \in [Clients -> Pointers]
  BY <1>1 DEF Chain, ListType
<1>3. m \in ListType
  BY <1>2 DEF Unlink, ListType
<1>4. f \in [1..(n - 1) -> Clients]
  BY <1>2
<1>5. \A i, j \in 1..(n - 1) : f[i] = f[j] => i = j
  BY <1>2
<1>6. m.head = IF n - 1 = 0 THEN NULL ELSE f[1]
  BY <1>1, <1>2 DEF Unlink
<1>7. ASSUME NEW i \in 1..(n - 1)
      PROVE  m.next[f[i]] = IF i = n - 1 THEN NULL ELSE f[i + 1]
  BY <1>1, <1>2, NullIsNoClient DEF Unlink
<1>8. ASSUME NEW i \in 1..(n - 1)
      PROVE  m.prev[f[i]] = IF i = 1 THEN NULL ELSE f[i - 1]
  BY <1>1, <1>2, NullIsNoClient DEF Unlink
<1>9. Chain(m, f, n - 1)
  BY <1>2, <1>4, <1>5, <1>6, <1>7, <1>8 DEF Chain
<1>10. Members(f, n - 1) = Members(e, n) \ {c}
  <2>1. ASSUME NEW d \in Members(f, n - 1) PROVE d \in Members(e, n) \ {c}
    BY <1>1, <1>2, <2>1 DEF Members
  <2>2. ASSUME NEW d \in Members(e, n) \ {c} PROVE d \in Members(f, n - 1)
    <3>1. PICK i \in 1..n : d = e[i]
      BY DEF Members
    <3>2. CASE i < k
      BY <1>2, <3>1, <3>2 DEF Members
    <3>3. CASE i > k
      <4>1. i - 1 \in 1..(n - 1) /\ f[i - 1] = e[i]
        BY <1>2, <3>1, <3>3
      <4> QED BY <3>1, <4>1 DEF Members
    <3> QED BY <1>1, <3>1, <3>2, <3>3
  <2> QED BY <2>1, <2>2
<1> QED
  BY <1>3, <1>9, <1>10
=============================================================================
