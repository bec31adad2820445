----------------------------- MODULE ClientList -----------------------------
(***************************************************************************)
(* The doubly linked list of FTP clients of ftpvita.c: a head pointer and  *)
(* the prev/next fields of the client records.  A record's address stands  *)
(* for the record; NULL is no address.  The operators are the pointer      *)
(* surgery of client_list_add and client_list_delete, nothing else; Chain  *)
(* is the reference they are judged by.                                    *)
(***************************************************************************)
EXTENDS Integers

CONSTANTS Clients,   \* the addresses malloc can return for a client record
          NULL       \* the null pointer, and "no thread"

ASSUME NullIsNoClient == NULL \notin Clients

Pointers == Clients \cup {NULL}

ListType == [head : Pointers,
             prev : [Clients -> Pointers],
             next : [Clients -> Pointers]]

\* client_list and the fields of records never allocated yet.
EmptyList == [head |-> NULL,
              prev |-> [c \in Clients |-> NULL],
              next |-> [c \in Clients |-> NULL]]

\* client_list_add: the new client becomes the head.
AddFront(l, c) ==
    IF l.head = NULL
    THEN [l EXCEPT !.head = c, !.prev[c] = NULL, !.next[c] = NULL]
    ELSE [head |-> c,
          prev |-> [l.prev EXCEPT ![l.head] = c, ![c] = NULL],
          next |-> [l.next EXCEPT ![c] = l.head]]

\* Mutant: the head is not moved when the first client goes.
UnlinkKeepsHead(l, c) ==
    [head |-> IF c = l.head /\ l.next[c] = NULL THEN NULL ELSE l.head,
     prev |-> [d \in Clients |-> IF d = l.next[c] THEN l.prev[c] ELSE l.prev[d]],
     next |-> [d \in Clients |-> IF d = l.prev[c] THEN l.next[c] ELSE l.next[d]]]

\* Mutant: client->next->prev is written without asking whether there is a next.
UnlinkNoNullCheck(l, c) ==
    [head |-> IF c = l.head THEN l.next[c] ELSE l.head,
     prev |-> [d \in Clients \cup {l.next[c]} |-> IF d = l.next[c] THEN l.prev[c] ELSE l.prev[d]],
     next |-> [d \in Clients |-> IF d = l.prev[c] THEN l.next[c] ELSE l.next[d]]]

\* client_list_delete: bridge the neighbours, then move the head if c was it.
Unlink(l, c) ==
    [head |-> IF c = l.head THEN l.next[c] ELSE l.head,
     prev |-> [d \in Clients |-> IF d = l.next[c] THEN l.prev[c] ELSE l.prev[d]],
     next |-> [d \in Clients |-> IF d = l.prev[c] THEN l.next[c] ELSE l.next[d]]]

(***************************************************************************)
(* Chain(l, e, n): following next from the head visits e[1], ..., e[n] and *)
(* then NULL, prev runs the same way back, and no record occurs twice.     *)
(***************************************************************************)
Chain(l, e, n) ==
    /\ n \in Nat
    /\ e \in [1..n -> Clients]
    /\ \A i, j \in 1..n : e[i] = e[j] => i = j
    /\ l.head = IF n = 0 THEN NULL ELSE e[1]
    /\ \A i \in 1..n :
         /\ l.next[e[i]] = IF i = n THEN NULL ELSE e[i + 1]
         /\ l.prev[e[i]] = IF i = 1 THEN NULL ELSE e[i - 1]

\* The records a chain of n links visits.
Members(e, n) == {e[i] : i \in 1..n}
=============================================================================
