--------------------------- MODULE FtpVitaProofs ---------------------------
(***************************************************************************)
(* Proofs about FtpVita, for any number of clients, any number of server   *)
(* identifiers and any number of connections and restarts, when a single   *)
(* thread calls ftpvita_init and ftpvita_fini.                             *)
(*                                                                         *)
(* The list is what matters, and what protects it is not one lock: fini    *)
(* relies on having joined the server thread (so that nobody adds) and on  *)
(* holding the mutex (so that nobody removes).  The inductive invariant    *)
(* says who can be where: PhaseInv and ServerInv tie the server thread to  *)
(* the caller's position, MutexInv ties each critical section to the owner *)
(* of the mutex, ClientInv bounds who may have been aborted, and ListInv   *)
(* names the chain of records and, in fini's walk, the link it has reached.*)
(***************************************************************************)
EXTENDS FtpVita, ClientListProofs

MutexSteps == {"init_start", "init_done", "fini_close", "fini_join_server", "fini_lock",
               "fini_delete"} \cup WalkSteps

PhaseInv(f) ==
    /\ pc[f] \in InitSteps => ~ftpInitialized
    /\ pc[f] \in FiniSteps => ftpInitialized
    /\ mtxExists <=> pc[f] \in MutexSteps \/ (pc[f] = "idle" /\ ftpInitialized)

ServerInv(f) ==
    /\ \A s \in Servers : srvPc[s] # "gone" =>
         /\ s = serverThid /\ mtxExists
         /\ pc[f] \in {"idle", "init_start", "init_done", "fini_close", "fini_join_server"}
    /\ \A s \in Servers : srvPc[s] \in {"lock", "add", "start"} =>
         srvCli[s] \in Clients /\ cliPc[srvCli[s]] = "dormant"
    /\ \A c \in Clients : cliPc[c] = "dormant" =>
         \E s \in Servers : srvPc[s] \in {"lock", "add", "start"} /\ srvCli[s] = c

MutexInv(f) ==
    /\ ~mtxExists => mtxOwner = NULL
    /\ pc[f] \in WalkSteps <=> mtxOwner = f
    /\ \A s \in Servers : srvPc[s] = "add" <=> mtxOwner = s
    /\ \A c \in Clients : cliPc[c] = "unlink" <=> mtxOwner = c

ClientInv(f) ==
    /\ ~mtxExists \/ pc[f] = "fini_delete" => Listed = {}
    /\ pc[f] \notin WalkSteps => \A c \in aborted : cliPc[c] = "gone"

\* fini has reached link k of the chain e: the links before it have ended, and
\* the ones after it have not been touched.
WalkAt(f, e, k) ==
    /\ k \in 1..(numberClients + 1)
    /\ it[f] = IF k = numberClients + 1 THEN NULL ELSE e[k]
    /\ \A c \in Listed : \E i \in k..numberClients : c = e[i]
    /\ \A i \in k..numberClients :
         i > k \/ pc[f] = "fini_walk" => cliPc[e[i]] \in {"recv", "cmd", "lock"} /\ e[i] \notin aborted
    /\ pc[f] = "fini_join_client" =>
         /\ k <= numberClients
         /\ nxt[f] = IF k = numberClients THEN NULL ELSE e[k + 1]

\* The list as a well-formed chain through exactly the listed clients, and the
\* link fini's walk has reached.
ListedChain == \E e : Chain(list, e, numberClients) /\ Members(e, numberClients) = Listed
WalkedChain(f) == \E e : Chain(list, e, numberClients) /\ \E k : WalkAt(f, e, k)

ListInv(f) ==
    /\ ~mtxExists /\ pc[f] # "fini_reset" => list.head = NULL /\ numberClients = 0
    /\ mtxExists /\ pc[f] \notin WalkSteps \cup {"fini_delete"} => ListedChain
    /\ pc[f] \in WalkSteps => WalkedChain(f)

IInv(f) ==
    TypeOK /\ PhaseInv(f) /\ ServerInv(f) /\ MutexInv(f) /\ ClientInv(f) /\ ListInv(f)

-----------------------------------------------------------------------------
LEMMA AddFrontType ==
    ASSUME NEW l \in ListType, NEW c \in Pointers
    PROVE  AddFront(l, c) \in ListType
BY DEF AddFront, ListType, Pointers

LEMMA UnlinkType ==
    ASSUME NEW l \in ListType, NEW c \in Clients
    PROVE  Unlink(l, c) \in ListType
BY DEF Unlink, ListType, Pointers

LEMMA TypeStep == TypeOK /\ [Next]_vars => TypeOK'
<1> SUFFICES ASSUME TypeOK, [Next]_vars PROVE TypeOK'
  OBVIOUS
<1> USE DEF TypeOK, InitSteps, FiniSteps, WalkSteps, Resources, Pointers,
            callerVars, netVars, listVars, mtxVars, srvVars, cliVars
<1>1. ASSUME NEW f \in Callers, CallerNext(f) PROVE TypeOK'
  <2>1. CASE InitCall(f) \/ InitInfo(f) \/ FiniCall(f) \/ FiniJoinServer(f)
    BY <2>1 DEF InitCall, InitInfo, FiniCall, FiniJoinServer, CallerStep
  <2>2. CASE InitNetAlreadyUp(f) \/ InitNetUp(f) \/ InitNetError(f) \/ InitNetCtl(f) \/ InitFail(f)
    BY <2>2 DEF InitNetAlreadyUp, InitNetUp, InitNetError, InitNetCtl, InitFail, CallerStep
  <2>3. CASE InitCreate(f) \/ InitStart(f) \/ InitDone(f)
    BY <2>3 DEF InitCreate, InitStart, InitDone, CallerStep, ServerStep
  <2>4. CASE FiniClose(f) \/ FiniLock(f) \/ FiniJoinClient(f) \/ FiniUnlock(f) \/ FiniDelete(f)
    BY <2>4 DEF FiniClose, FiniLock, FiniJoinClient, FiniUnlock, FiniDelete, CallerStep,
                Acquire, Release, ListType
  <2>5. CASE FiniAbort(f)
    BY <2>5 DEF FiniAbort, CallerStep, ListType
  <2>6. CASE FiniReset(f)
    <3>1. list' \in ListType
      BY <2>6 DEF FiniReset, ListType
    <3> QED BY <2>6, <3>1 DEF FiniReset, CallerStep
  <2>7. CASE FiniNet(f) \/ FiniDone(f)
    BY <2>7 DEF FiniNet, FiniDone, CallerStep
  <2> QED BY <1>1, <2>1, <2>2, <2>3, <2>4, <2>5, <2>6, <2>7 DEF CallerNext
<1>2. ASSUME NEW s \in Servers, ServerNext(s) PROVE TypeOK'
  <2>1. CASE ServerSocket(s) \/ ServerAcceptError(s) \/ ServerLock(s)
    BY <2>1 DEF ServerSocket, ServerAcceptError, ServerLock, ServerStep, Acquire
  <2>4. CASE ServerStart(s)
    BY <2>4 DEF ServerStart, ServerStep, ClientStep
  <2>2. CASE \E c \in Clients : ServerAccept(s, c)
    BY <2>2 DEF ServerAccept, ServerStep, ClientStep
  <2>3. CASE ServerAdd(s)
    <3>1. list' \in ListType
      BY <2>3, AddFrontType DEF ServerAdd
    <3> QED BY <2>3, <3>1 DEF ServerAdd, ServerStep, Release
  <2> QED BY <1>2, <2>1, <2>2, <2>3, <2>4 DEF ServerNext
<1>3. ASSUME NEW c \in Clients, ClientNext(c) PROVE TypeOK'
  <2>1. CASE ClientUnlink(c)
    <3>1. list' \in ListType
      BY <2>1, UnlinkType DEF ClientUnlink
    <3> QED BY <2>1, <3>1 DEF ClientUnlink, ClientStep, ClientUnchanged, Release
  <2>2. CASE \/ ClientRecvCommand(c) \/ ClientCommandDone(c) \/ ClientPeerGone(c)
             \/ ClientAborted(c) \/ ClientLock(c) \/ ClientClose(c) \/ ClientExit(c)
    BY <2>2 DEF ClientRecvCommand, ClientCommandDone, ClientPeerGone, ClientAborted, ClientLock,
                ClientClose, ClientExit, ClientStep, ClientUnchanged, Acquire
  <2> QED BY <1>3, <2>1, <2>2 DEF ClientNext
<1>4. CASE UNCHANGED vars
  BY <1>4 DEF vars
<1> QED BY <1>1, <1>2, <1>3, <1>4 DEF Next

LEMMA InitType == Init => TypeOK
<1>1. EmptyList \in ListType
  BY DEF EmptyList, ListType, Pointers
<1> SUFFICES ASSUME Init PROVE TypeOK
  OBVIOUS
<1>2. /\ pc \in [Callers -> {"idle"} \cup InitSteps \cup FiniSteps]
      /\ it \in [Callers -> Pointers] /\ nxt \in [Callers -> Pointers]
  BY DEF Init, Pointers
<1>3. /\ srvPc \in [Servers -> {"gone", "dormant", "socket", "accept", "lock", "add", "start"}]
      /\ srvCli \in [Servers -> Pointers]
  BY DEF Init, Pointers
<1>4. cliPc \in [Clients -> {"gone", "dormant", "recv", "cmd", "lock", "unlink", "close", "free"}]
  BY DEF Init
<1>5. ftpInitialized \in BOOLEAN /\ mtxExists \in BOOLEAN
  BY Zenon DEF Init
<1>9. numberClients \in Int
  BY DEF Init
<1>6. /\ held \in SUBSET Resources /\ owned \in SUBSET Resources
      /\ openSocks \in SUBSET Servers /\ aborted \in SUBSET Clients
  BY DEF Init
<1>7. /\ serverThid \in Servers \cup {NULL} /\ serverSockfd \in Servers \cup {NULL}
      /\ mtxOwner \in Callers \cup Servers \cup Clients \cup {NULL}
  BY DEF Init
<1>8. list \in ListType
  BY <1>1 DEF Init
<1> QED BY <1>2, <1>3, <1>4, <1>5, <1>6, <1>7, <1>8, <1>9 DEF TypeOK

\* Whatever the callers do, every variable keeps its type.
THEOREM TypeCorrect == Spec => []TypeOK
BY InitType, TypeStep, PTL DEF Spec

-----------------------------------------------------------------------------
\* What the steps of the server and client threads leave alone.
LEMMA ServerFrame ==
    ASSUME NEW s \in Servers, ServerNext(s)
    PROVE  UNCHANGED <<pc, it, nxt, ftpInitialized, held, owned, mtxExists, serverThid>>
BY DEF ServerNext, ServerSocket, ServerAccept, ServerAcceptError, ServerLock, ServerAdd, ServerStart,
       Acquire, Release, callerVars, netVars, mtxVars

LEMMA ClientFrame ==
    ASSUME NEW c \in Clients, ClientNext(c)
    PROVE  UNCHANGED <<pc, it, nxt, ftpInitialized, held, owned, mtxExists, serverThid, serverSockfd,
                       srvPc, srvCli, openSocks, aborted>>
BY DEF ClientNext, ClientRecvCommand, ClientCommandDone, ClientPeerGone, ClientAborted, ClientLock,
       ClientUnlink, ClientClose, ClientExit, ClientUnchanged, Acquire, Release,
       callerVars, netVars, mtxVars, srvVars

\* The caller's position tells whether the server is initialized and the mutex there.
LEMMA PhaseStep ==
    ASSUME NEW f, Callers = {f}, TypeOK, PhaseInv(f), [Next]_vars
    PROVE  PhaseInv(f)'
<1> USE DEF PhaseInv, InitSteps, FiniSteps, WalkSteps, MutexSteps
<1>0. /\ pc \in [Callers -> {"idle"} \cup InitSteps \cup FiniSteps] /\ f \in Callers
      /\ ftpInitialized \in BOOLEAN /\ mtxExists \in BOOLEAN
  BY DEF TypeOK
<1>1. ASSUME CallerNext(f) PROVE PhaseInv(f)'
  <2> USE <1>0 DEF CallerStep, netVars, mtxVars
  <2>1. CASE InitCall(f)
    BY <2>1 DEF InitCall
  <2>2. CASE InitNetAlreadyUp(f) \/ InitNetUp(f) \/ InitNetError(f)
    BY <2>2 DEF InitNetAlreadyUp, InitNetUp, InitNetError
  <2>3. CASE InitNetCtl(f) \/ InitInfo(f) \/ InitFail(f)
    BY <2>3 DEF InitNetCtl, InitInfo, InitFail
  <2>4. CASE InitCreate(f)
    BY <2>4 DEF InitCreate
  <2>5. CASE InitStart(f)
    BY <2>5 DEF InitStart
  <2>6. CASE InitDone(f)
    BY <2>6 DEF InitDone
  <2>7. CASE FiniCall(f) \/ FiniClose(f) \/ FiniJoinServer(f)
    BY <2>7 DEF FiniCall, FiniClose, FiniJoinServer
  <2>8. CASE FiniLock(f) \/ FiniAbort(f) \/ FiniJoinClient(f) \/ FiniUnlock(f)
    BY <2>8 DEF FiniLock, FiniAbort, FiniJoinClient, FiniUnlock, Acquire, Release
  <2>9. CASE FiniDelete(f)
    BY <2>9 DEF FiniDelete
  <2>10. CASE FiniReset(f) \/ FiniNet(f) \/ FiniDone(f)
    BY <2>10 DEF FiniReset, FiniNet, FiniDone
  <2> QED
    BY <1>1, <2>1, <2>2, <2>3, <2>4, <2>5, <2>6, <2>7, <2>8, <2>9, <2>10 DEF CallerNext
<1>2. CASE UNCHANGED <<pc, ftpInitialized, mtxExists>>
  BY <1>2
<1> QED
  BY <1>1, <1>2, ServerFrame, ClientFrame DEF Next, vars, callerVars, netVars, mtxVars

\* One server thread at most, none once fini has joined it, and a client thread
\* is dormant exactly while the server thread registers it.
LEMMA ServerStepInv ==
    ASSUME NEW f, Callers = {f}, TypeOK, PhaseInv(f), ServerInv(f), [Next]_vars
    PROVE  ServerInv(f)'
<1> USE DEF ServerInv
<1>0. /\ pc \in [Callers -> {"idle"} \cup InitSteps \cup FiniSteps] /\ f \in Callers
      /\ srvPc \in [Servers -> {"gone", "dormant", "socket", "accept", "lock", "add", "start"}]
      /\ srvCli \in [Servers -> Pointers]
      /\ cliPc \in [Clients -> {"gone", "dormant", "recv", "cmd", "lock", "unlink", "close", "free"}]
      /\ serverThid \in Servers \cup {NULL}
      /\ mtxExists \in BOOLEAN
  BY DEF TypeOK
<1>1. ASSUME CallerNext(f) PROVE ServerInv(f)'
  <2> USE <1>0 DEF CallerStep, netVars, mtxVars, srvVars, cliVars
  <2>1. CASE InitCreate(f)
    <3>1. \A s \in Servers : srvPc[s] = "gone"
      BY <2>1 DEF InitCreate, PhaseInv, MutexSteps, WalkSteps
    <3>2. /\ pc[f]' = "init_start" /\ mtxExists' = TRUE /\ UNCHANGED <<srvCli, cliPc>>
          /\ \A s \in Servers : srvPc'[s] \in {"gone", "dormant"}
          /\ \A s \in Servers : srvPc'[s] # "gone" => s = serverThid'
      BY <2>1, <3>1 DEF InitCreate, ServerStep
    <3> QED BY <3>1, <3>2
  <2>2. CASE InitStart(f)
    BY <2>2 DEF InitStart, ServerStep
  <2>3. CASE FiniJoinServer(f)
    BY <2>3, ThreadsAreDistinct DEF FiniJoinServer
  <2>4. CASE FiniDelete(f)
    BY <2>4 DEF FiniDelete
  <2>5. CASE InitCall(f)
    <3>1. \A s \in Servers : srvPc[s] = "gone"
      BY <2>5 DEF InitCall, PhaseInv, MutexSteps, WalkSteps
    <3> QED BY <2>5, <3>1 DEF InitCall
  <2>9. CASE InitNetAlreadyUp(f) \/ InitNetUp(f) \/ InitNetError(f)
    BY <2>9 DEF InitNetAlreadyUp, InitNetUp, InitNetError
  <2>8. CASE InitNetCtl(f) \/ InitInfo(f) \/ InitFail(f)
    BY <2>8 DEF InitNetCtl, InitInfo, InitFail
  <2>6. CASE InitDone(f) \/ FiniCall(f) \/ FiniClose(f)
    BY <2>6 DEF InitDone, FiniCall, FiniClose
  <2>7. CASE \/ FiniLock(f) \/ FiniAbort(f) \/ FiniJoinClient(f) \/ FiniUnlock(f) \/ FiniReset(f)
             \/ FiniNet(f) \/ FiniDone(f)
    BY <2>7 DEF FiniLock, FiniAbort, FiniJoinClient, FiniUnlock, FiniReset, FiniNet, FiniDone,
                Acquire, Release
  <2> QED
    BY <1>1, <2>1, <2>2, <2>3, <2>4, <2>5, <2>6, <2>7, <2>8, <2>9 DEF CallerNext
<1>2. ASSUME NEW s \in Servers, ServerNext(s) PROVE ServerInv(f)'
  <2> USE <1>0, <1>2, ServerFrame DEF ServerStep, ClientStep
  <2>1. CASE ServerSocket(s) \/ ServerAcceptError(s) \/ ServerLock(s)
    BY <2>1 DEF ServerSocket, ServerAcceptError, ServerLock, cliVars
  <2>2. ASSUME NEW c \in Clients, ServerAccept(s, c) PROVE ServerInv(f)'
    BY <2>2 DEF ServerAccept
  <2>3. CASE ServerAdd(s)
    BY <2>3 DEF ServerAdd, cliVars
  <2>4. CASE ServerStart(s)
    BY <2>4 DEF ServerStart
  <2> QED BY <2>1, <2>2, <2>3, <2>4 DEF ServerNext
<1>3. ASSUME NEW c \in Clients, ClientNext(c) PROVE ServerInv(f)'
  <2>1. /\ cliPc[c] # "dormant" /\ cliPc'[c] # "dormant"
        /\ \A d \in Clients : d # c => cliPc'[d] = cliPc[d]
    BY <1>0, <1>3 DEF ClientNext, ClientRecvCommand, ClientCommandDone, ClientPeerGone, ClientAborted,
         ClientLock, ClientUnlink, ClientClose, ClientExit, ClientStep
  <2> QED BY <1>0, <1>3, <2>1, ClientFrame
<1>4. CASE UNCHANGED vars
  BY <1>4 DEF vars, callerVars, mtxVars, srvVars, cliVars
<1> QED BY <1>1, <1>2, <1>3, <1>4 DEF Next

\* Whoever is inside a critical section owns the mutex, and nobody else does.
LEMMA MutexStep ==
    ASSUME NEW f, Callers = {f}, TypeOK, PhaseInv(f), ServerInv(f), MutexInv(f), ClientInv(f),
           [Next]_vars
    PROVE  MutexInv(f)'
<1> USE DEF MutexInv, WalkSteps
<1>0. /\ pc \in [Callers -> {"idle"} \cup InitSteps \cup FiniSteps] /\ f \in Callers
      /\ srvPc \in [Servers -> {"gone", "dormant", "socket", "accept", "lock", "add", "start"}]
      /\ cliPc \in [Clients -> {"gone", "dormant", "recv", "cmd", "lock", "unlink", "close", "free"}]
      /\ mtxExists \in BOOLEAN
      /\ NULL \notin Clients \cup Servers /\ f # NULL
      /\ f \notin Servers \cup Clients /\ Servers \cap Clients = {}
  BY ThreadsAreDistinct, NullIsNoClient DEF TypeOK
<1>1. ASSUME CallerNext(f) PROVE MutexInv(f)'
  <2> USE <1>0 DEF CallerStep, mtxVars, srvVars, cliVars
  <2>1. CASE \/ InitCall(f) \/ InitNetAlreadyUp(f) \/ InitNetUp(f) \/ InitNetError(f)
             \/ InitNetCtl(f) \/ InitInfo(f) \/ InitFail(f) \/ InitDone(f)
    BY <2>1 DEF InitCall, InitNetAlreadyUp, InitNetUp, InitNetError, InitNetCtl, InitInfo, InitFail,
                InitDone
  <2>2. CASE InitCreate(f)
    <3>1. ~mtxExists /\ pc[f] = "init_create"
      BY <2>2 DEF InitCreate, PhaseInv, MutexSteps, InitSteps
    <3> QED BY <2>2, <3>1 DEF InitCreate, ServerStep
  <2>3. CASE InitStart(f)
    BY <2>3 DEF InitStart, ServerStep
  <2>4. CASE \/ FiniCall(f) \/ FiniClose(f) \/ FiniJoinServer(f) \/ FiniAbort(f)
             \/ FiniJoinClient(f) \/ FiniReset(f) \/ FiniNet(f) \/ FiniDone(f)
    BY <2>4 DEF FiniCall, FiniClose, FiniJoinServer, FiniAbort, FiniJoinClient, FiniReset, FiniNet,
                FiniDone
  <2>5. CASE FiniLock(f)
    <3>1. mtxExists
      BY <2>5 DEF FiniLock, PhaseInv, MutexSteps
    <3> QED BY <2>5, <3>1 DEF FiniLock, Acquire
  <2>6. CASE FiniUnlock(f)
    BY <2>6 DEF FiniUnlock, Release
  <2>7. CASE FiniDelete(f)
    <3>1. \A s \in Servers : srvPc[s] # "add"
      BY <2>7 DEF FiniDelete, ServerInv
    <3>2. \A c \in Clients : cliPc[c] # "unlink"
      BY <2>7 DEF FiniDelete, ClientInv, Listed
    <3> QED BY <2>7, <3>1, <3>2 DEF FiniDelete
  <2> QED
    BY <1>1, <2>1, <2>2, <2>3, <2>4, <2>5, <2>6, <2>7 DEF CallerNext
<1>2. ASSUME NEW s \in Servers, ServerNext(s) PROVE MutexInv(f)'
  <2>0. UNCHANGED <<pc, mtxExists>>
    BY <1>2, ServerFrame
  <2> USE <1>0, <2>0 DEF ServerStep, ClientStep, mtxVars, cliVars
  <2>1. CASE ServerSocket(s) \/ ServerAcceptError(s) \/ ServerStart(s)
    BY <2>1 DEF ServerSocket, ServerAcceptError, ServerStart
  <2>2. ASSUME NEW c \in Clients, ServerAccept(s, c) PROVE MutexInv(f)'
    BY <2>2 DEF ServerAccept
  <2>3. CASE ServerLock(s)
    <3>1. mtxExists
      BY <2>3 DEF ServerLock, ServerInv
    <3> QED BY <2>3, <3>1 DEF ServerLock, Acquire
  <2>4. CASE ServerAdd(s)
    BY <2>4 DEF ServerAdd, Release
  <2> QED BY <1>2, <2>1, <2>2, <2>3, <2>4 DEF ServerNext
<1>3. ASSUME NEW c \in Clients, ClientNext(c) PROVE MutexInv(f)'
  <2>0. UNCHANGED <<pc, mtxExists, srvPc>>
    BY <1>3, ClientFrame
  <2> USE <1>0, <2>0 DEF ClientStep, mtxVars
  <2>1. CASE \/ ClientRecvCommand(c) \/ ClientCommandDone(c) \/ ClientPeerGone(c)
             \/ ClientAborted(c) \/ ClientClose(c) \/ ClientExit(c)
    BY <2>1 DEF ClientRecvCommand, ClientCommandDone, ClientPeerGone, ClientAborted, ClientClose,
                ClientExit
  <2>2. CASE ClientLock(c)
    <3>1. mtxExists
      BY <2>2 DEF ClientLock, ClientInv, Listed
    <3> QED BY <2>2, <3>1 DEF ClientLock, Acquire
  <2>3. CASE ClientUnlink(c)
    BY <2>3 DEF ClientUnlink, Release
  <2> QED BY <1>3, <2>1, <2>2, <2>3 DEF ClientNext
<1>4. CASE UNCHANGED vars
  BY <1>4 DEF vars, callerVars, mtxVars, srvVars, cliVars
<1> QED BY <1>1, <1>2, <1>3, <1>4 DEF Next

-----------------------------------------------------------------------------
\* Types the remaining proofs use, and the names of threads kept apart.
LEMMA Facts ==
    ASSUME NEW f, Callers = {f}, TypeOK
    PROVE  /\ pc \in [Callers -> {"idle"} \cup InitSteps \cup FiniSteps] /\ f \in Callers
           /\ it \in [Callers -> Pointers] /\ nxt \in [Callers -> Pointers]
           /\ srvPc \in [Servers -> {"gone", "dormant", "socket", "accept", "lock", "add", "start"}]
           /\ srvCli \in [Servers -> Pointers]
           /\ cliPc \in [Clients ->
                 {"gone", "dormant", "recv", "cmd", "lock", "unlink", "close", "free"}]
           /\ aborted \in SUBSET Clients /\ list \in ListType /\ numberClients \in Int
           /\ mtxExists \in BOOLEAN
           /\ NULL \notin Clients \cup Servers /\ f # NULL /\ f \notin Servers \cup Clients
           /\ Servers \cap Clients = {}
BY ThreadsAreDistinct, NullIsNoClient DEF TypeOK

\* The client fini is about to abort is running, and not on its way out.
LEMMA WalkReached ==
    ASSUME NEW f, Callers = {f}, TypeOK, ListInv(f), pc[f] = "fini_walk", it[f] # NULL
    PROVE  it[f] \in Clients /\ cliPc[it[f]] \in {"recv", "cmd", "lock"}
<1>1. PICK e : Chain(list, e, numberClients) /\ \E k : WalkAt(f, e, k)
  BY DEF ListInv, WalkedChain, WalkSteps
<1>2. PICK k : WalkAt(f, e, k)
  BY <1>1
<1>3. numberClients \in Nat /\ e \in [1..numberClients -> Clients]
  BY <1>1 DEF Chain
<1>4. k \in 1..numberClients /\ it[f] = e[k]
  BY <1>2, <1>3 DEF WalkAt
<1> QED BY <1>2, <1>3, <1>4 DEF WalkAt

\* init and fini neither list nor unlist a client.
LEMMA CallerListed ==
    ASSUME NEW f, Callers = {f}, TypeOK, ServerInv(f), ListInv(f), CallerNext(f)
    PROVE  Listed' = Listed
<1> USE Facts DEF CallerStep
<1>1. CASE FiniAbort(f)
  <2>1. it[f] \in Clients /\ cliPc[it[f]] \in {"recv", "cmd", "lock"}
    BY <1>1, WalkReached DEF FiniAbort
  <2>2. UNCHANGED <<srvPc, srvCli, cliPc>> /\ aborted' = aborted \cup {it[f]}
    BY <1>1 DEF FiniAbort, srvVars
  <2> QED BY <2>1, <2>2 DEF Listed
<1>2. CASE InitCreate(f)
  <2>1. (\E s \in Servers : ServerStep(s, "gone", "dormant")) \/ UNCHANGED srvPc
    BY <1>2 DEF InitCreate
  <2>2. UNCHANGED <<srvCli, cliPc, aborted>>
    BY <1>2 DEF InitCreate, cliVars
  <2> QED BY <2>1, <2>2 DEF Listed, ServerStep
<1>3. CASE InitStart(f)
  BY <1>3 DEF InitStart, Listed, ServerStep, ServerInv, cliVars
<1>4. CASE \/ InitCall(f) \/ InitNetAlreadyUp(f) \/ InitNetUp(f) \/ InitNetError(f)
           \/ InitNetCtl(f) \/ InitInfo(f) \/ InitFail(f) \/ InitDone(f)
  <2>1. UNCHANGED <<srvPc, srvCli, cliPc, aborted>>
    BY <1>4 DEF InitCall, InitNetAlreadyUp, InitNetUp, InitNetError, InitNetCtl, InitInfo, InitFail,
              InitDone, srvVars, cliVars
  <2> QED BY <2>1 DEF Listed
<1>5. CASE \/ FiniCall(f) \/ FiniClose(f) \/ FiniJoinServer(f) \/ FiniLock(f) \/ FiniJoinClient(f)
           \/ FiniUnlock(f) \/ FiniDelete(f) \/ FiniReset(f) \/ FiniNet(f) \/ FiniDone(f)
  <2>1. UNCHANGED <<srvPc, srvCli, cliPc, aborted>>
    BY <1>5 DEF FiniCall, FiniClose, FiniJoinServer, FiniLock, FiniJoinClient, FiniUnlock, FiniDelete,
              FiniReset, FiniNet, FiniDone, srvVars, cliVars
  <2> QED BY <2>1 DEF Listed
<1> QED BY <1>1, <1>2, <1>3, <1>4, <1>5 DEF CallerNext

\* The server thread lists a client in client_list_add and nowhere else.
LEMMA ServerListed ==
    ASSUME NEW f, Callers = {f}, TypeOK, ServerInv(f), NEW s \in Servers, ServerNext(s)
    PROVE  Listed' = IF ServerAdd(s) THEN Listed \cup {srvCli[s]} ELSE Listed
<1> USE Facts DEF ServerStep, ClientStep
<1>1. CASE ServerAdd(s)
  BY <1>1 DEF ServerAdd, Listed, cliVars, ServerInv
<1>2. CASE ServerStart(s)
  BY <1>2 DEF ServerStart, ServerAdd, Listed, ServerInv
<1>3. ASSUME NEW c \in Clients, ServerAccept(s, c)
      PROVE  Listed' = Listed /\ ~ServerAdd(s)
  BY <1>3 DEF ServerAccept, ServerAdd, Listed, ServerInv
<1>4. CASE ServerSocket(s) \/ ServerAcceptError(s) \/ ServerLock(s)
  BY <1>4 DEF ServerSocket, ServerAcceptError, ServerLock, ServerAdd, Listed, cliVars
<1> QED BY <1>1, <1>2, <1>3, <1>4 DEF ServerNext

\* A client thread unlists itself in client_list_delete, or by ending while
\* it is still in the list because fini aborted it.
LEMMA ClientListed ==
    ASSUME NEW f, Callers = {f}, TypeOK, ServerInv(f), MutexInv(f), ClientInv(f),
           NEW c \in Clients, ClientNext(c)
    PROVE  Listed' = IF ClientUnlink(c) \/ ClientExit(c) THEN Listed \ {c} ELSE Listed
<1> USE Facts DEF ClientStep
<1>0. UNCHANGED <<pc, srvPc, srvCli, aborted>>
  BY ClientFrame
<1>1. CASE ClientUnlink(c)
  <2>1. c \notin aborted
    BY <1>1 DEF ClientUnlink, MutexInv, ClientInv
  <2> QED BY <1>0, <1>1, <2>1 DEF ClientUnlink, Listed, ServerInv
<1>2. CASE ClientExit(c)
  BY <1>0, <1>2 DEF ClientExit, ClientUnlink, Listed, ServerInv
<1>3. CASE \/ ClientRecvCommand(c) \/ ClientCommandDone(c) \/ ClientPeerGone(c)
           \/ ClientAborted(c) \/ ClientLock(c) \/ ClientClose(c)
  BY <1>0, <1>3 DEF ClientRecvCommand, ClientCommandDone, ClientPeerGone, ClientAborted, ClientLock,
       ClientClose, ClientUnlink, ClientExit, Listed
<1> QED BY <1>1, <1>2, <1>3 DEF ClientNext

\* In the walk, a client that is not listed has no thread.
LEMMA WalkUnlisted ==
    ASSUME NEW f, Callers = {f}, TypeOK, ServerInv(f), pc[f] \in WalkSteps,
           NEW c \in aborted, c \notin Listed
    PROVE  cliPc[c] = "gone"
BY Facts DEF ServerInv, Listed, WalkSteps

\* fini unlocks once nobody is listed.
LEMMA WalkEnds ==
    ASSUME NEW f, Callers = {f}, TypeOK, ListInv(f), FiniUnlock(f)
    PROVE  Listed = {}
<1>0. pc[f] = "fini_walk" /\ it[f] = NULL
  BY DEF FiniUnlock, CallerStep
<1>1. PICK e : Chain(list, e, numberClients) /\ \E k : WalkAt(f, e, k)
  BY <1>0 DEF ListInv, WalkedChain, WalkSteps
<1>2. PICK k : WalkAt(f, e, k)
  BY <1>1
<1>3. numberClients \in Nat /\ e \in [1..numberClients -> Clients]
  BY <1>1 DEF Chain
<1>4. k = numberClients + 1
  BY <1>0, <1>2, <1>3, NullIsNoClient DEF WalkAt
<1> QED BY <1>2, <1>3, <1>4 DEF WalkAt

\* Without a mutex nobody is listed, and only fini's walk has aborted clients
\* that are still running.
LEMMA ClientStepInv ==
    ASSUME NEW f, Callers = {f}, TypeOK, PhaseInv(f), ServerInv(f), MutexInv(f), ClientInv(f),
           ListInv(f), [Next]_vars
    PROVE  ClientInv(f)'
<1> USE Facts DEF ClientInv, WalkSteps
<1>1. ASSUME CallerNext(f) PROVE ClientInv(f)'
  <2>0. Listed' = Listed
    BY <1>1, CallerListed
  <2> USE <2>0 DEF CallerStep, mtxVars, srvVars, cliVars
  <2>1. CASE \/ InitCall(f) \/ InitNetAlreadyUp(f) \/ InitNetUp(f) \/ InitNetError(f)
             \/ InitNetCtl(f) \/ InitInfo(f) \/ InitFail(f) \/ InitDone(f)
    BY <2>1 DEF InitCall, InitNetAlreadyUp, InitNetUp, InitNetError, InitNetCtl, InitInfo, InitFail,
                InitDone
  <2>2. CASE InitCreate(f) \/ InitStart(f)
    BY <2>2 DEF InitCreate, InitStart
  <2>3. CASE \/ FiniCall(f) \/ FiniClose(f) \/ FiniJoinServer(f) \/ FiniReset(f) \/ FiniNet(f)
             \/ FiniDone(f)
    BY <2>3 DEF FiniCall, FiniClose, FiniJoinServer, FiniReset, FiniNet, FiniDone
  <2>4. CASE FiniLock(f) \/ FiniAbort(f) \/ FiniJoinClient(f)
    BY <2>4 DEF FiniLock, FiniAbort, FiniJoinClient, Acquire
  <2>5. CASE FiniUnlock(f)
    <3>1. Listed = {} /\ UNCHANGED <<cliPc, aborted>>
      BY <2>5, WalkEnds DEF FiniUnlock
    <3>2. \A c \in aborted : cliPc[c] = "gone"
      BY <2>5, <3>1, WalkUnlisted DEF FiniUnlock
    <3> QED BY <2>5, <3>1, <3>2 DEF FiniUnlock
  <2>6. CASE FiniDelete(f)
    BY <2>6 DEF FiniDelete
  <2> QED
    BY <1>1, <2>1, <2>2, <2>3, <2>4, <2>5, <2>6 DEF CallerNext
<1>2. ASSUME NEW s \in Servers, ServerNext(s) PROVE ClientInv(f)'
  <2>1. srvPc[s] # "gone"
    BY <1>2 DEF ServerNext, ServerSocket, ServerAccept, ServerAcceptError, ServerLock, ServerAdd,
         ServerStart, ServerStep
  <2>2. mtxExists /\ pc[f] \notin WalkSteps \cup {"fini_delete"}
    BY <2>1 DEF ServerInv
  <2>3. mtxExists' /\ pc'[f] \notin WalkSteps \cup {"fini_delete"}
    BY <1>2, <2>2, ServerFrame
  <2>4. \A c \in aborted' : cliPc'[c] = "gone"
    <3>1. CASE ServerStart(s)
      BY <2>2, <3>1 DEF ServerStart, ServerStep, ClientStep, ServerInv
    <3>2. CASE \E c \in Clients : ServerAccept(s, c)
      BY <2>2, <3>2 DEF ServerAccept, ClientStep
    <3>3. CASE ServerSocket(s) \/ ServerAcceptError(s) \/ ServerLock(s) \/ ServerAdd(s)
      BY <2>2, <3>3 DEF ServerSocket, ServerAcceptError, ServerLock, ServerAdd, cliVars
    <3> QED BY <1>2, <3>1, <3>2, <3>3 DEF ServerNext
  <2> QED BY <2>3, <2>4
<1>3. ASSUME NEW c \in Clients, ClientNext(c) PROVE ClientInv(f)'
  <2>1. UNCHANGED <<pc, mtxExists, aborted>>
    BY <1>3, ClientFrame
  <2>2. Listed' \subseteq Listed
    BY <1>3, ClientListed
  <2>3. cliPc[c] # "gone" /\ \A d \in Clients : d # c => cliPc'[d] = cliPc[d]
    BY <1>3 DEF ClientNext, ClientRecvCommand, ClientCommandDone, ClientPeerGone, ClientAborted,
         ClientLock, ClientUnlink, ClientClose, ClientExit, ClientStep
  <2> QED BY <2>1, <2>2, <2>3
<1>4. CASE UNCHANGED vars
  BY <1>4 DEF vars, callerVars, mtxVars, srvVars, cliVars, Listed
<1> QED BY <1>1, <1>2, <1>3, <1>4 DEF Next

\* client_list_add keeps the list a chain through the listed clients.
LEMMA AddKeepsChain ==
    ASSUME NEW f, Callers = {f}, TypeOK, ServerInv(f), ListedChain, NEW s \in Servers, ServerAdd(s)
    PROVE  ListedChain'
<1> USE Facts
<1>1. PICK e : Chain(list, e, numberClients) /\ Members(e, numberClients) = Listed
  BY DEF ListedChain
<1>2. srvCli[s] \in Clients /\ srvCli[s] \notin Listed
  BY DEF ServerAdd, ServerStep, ServerInv, Listed
<1>3. \E g : /\ Chain(AddFront(list, srvCli[s]), g, numberClients + 1)
             /\ Members(g, numberClients + 1) = Listed \cup {srvCli[s]}
  <2>1. list \in ListType /\ Chain(list, e, numberClients) /\ numberClients \in Nat
    BY <1>1 DEF Chain
  <2> QED BY <1>1, <1>2, <2>1, AddFrontChain
<1>4. Listed' = Listed \cup {srvCli[s]}
  BY ServerListed DEF ServerNext
<1> QED BY <1>3, <1>4 DEF ServerAdd, ListedChain

\* client_list_delete keeps the list a chain through the listed clients.
LEMMA UnlinkKeepsChain ==
    ASSUME NEW f, Callers = {f}, TypeOK, ServerInv(f), MutexInv(f), ClientInv(f), ListedChain,
           NEW c \in Clients, ClientUnlink(c)
    PROVE  ListedChain'
<1> USE Facts
<1>1. PICK e : Chain(list, e, numberClients) /\ Members(e, numberClients) = Listed
  BY DEF ListedChain
<1>2. c \in Members(e, numberClients)
  BY <1>1 DEF ClientUnlink, ClientStep, Listed
<1>3. \E g : /\ Chain(Unlink(list, c), g, numberClients - 1)
             /\ Members(g, numberClients - 1) = Listed \ {c}
  <2>1. list \in ListType /\ Chain(list, e, numberClients) /\ numberClients \in Nat
    BY <1>1 DEF Chain
  <2>2. \E g : /\ Chain(Unlink(list, c), g, numberClients - 1)
               /\ Members(g, numberClients - 1) = Members(e, numberClients) \ {c}
    BY <1>2, <2>1, UnlinkChain
  <2> QED BY <1>1, <2>2
<1>4. Listed' = Listed \ {c}
  BY ClientListed DEF ClientNext
<1> QED BY <1>3, <1>4 DEF ClientUnlink, ListedChain

\* fini's walk starts at the first link of a chain whose clients all run.
LEMMA LockStartsWalk ==
    ASSUME NEW f, Callers = {f}, TypeOK, PhaseInv(f), ServerInv(f), MutexInv(f), ClientInv(f),
           ListedChain, FiniLock(f)
    PROVE  WalkedChain(f)'
<1> USE Facts
<1>1. PICK e : Chain(list, e, numberClients) /\ Members(e, numberClients) = Listed
  BY DEF ListedChain
<1>2. /\ pc[f] = "fini_lock" /\ pc'[f] = "fini_walk" /\ it'[f] = list.head
      /\ UNCHANGED <<list, numberClients, srvPc, srvCli, cliPc, aborted>>
  BY DEF FiniLock, CallerStep, listVars, srvVars, cliVars
<1>3. mtxExists /\ mtxOwner = NULL
  BY <1>2 DEF FiniLock, Acquire, PhaseInv, MutexSteps
<1>4. \A c \in Listed : cliPc[c] \in {"recv", "cmd", "lock"} /\ c \notin aborted
  BY <1>2, <1>3 DEF Listed, ServerInv, MutexInv, ClientInv, WalkSteps
<1>5. \A i \in 1..numberClients : e[i] \in Listed
  BY <1>1 DEF Members
<1>6. Listed' = Listed
  BY <1>2 DEF Listed
<1>7. WalkAt(f, e, 1)'
  <2>1. numberClients \in Nat /\ list.head = IF numberClients = 0 THEN NULL ELSE e[1]
    BY <1>1 DEF Chain
  <2>2. \A c \in Listed : \E i \in 1..numberClients : c = e[i]
    BY <1>1 DEF Members
  <2> QED BY <1>2, <1>4, <1>5, <1>6, <2>1, <2>2 DEF WalkAt
<1> QED BY <1>1, <1>2, <1>7 DEF WalkedChain

\* fini aborts the client at its link and reads the next link of the chain.
LEMMA AbortStaysInWalk ==
    ASSUME NEW f, Callers = {f}, TypeOK, ServerInv(f), ListInv(f), WalkedChain(f), FiniAbort(f)
    PROVE  WalkedChain(f)'
<1> USE Facts
<1>1. PICK e : Chain(list, e, numberClients) /\ \E k : WalkAt(f, e, k)
  BY DEF WalkedChain
<1>2. PICK k : WalkAt(f, e, k)
  BY <1>1
<1>3. /\ pc[f] = "fini_walk" /\ pc'[f] = "fini_join_client" /\ it[f] # NULL
      /\ nxt'[f] = list.next[it[f]] /\ aborted' = aborted \cup {it[f]}
      /\ UNCHANGED <<it, list, numberClients, cliPc>>
  BY DEF FiniAbort, CallerStep, listVars
<1>4. Listed' = Listed
  BY CallerListed DEF CallerNext
<1>5. /\ numberClients \in Nat
      /\ k \in 1..numberClients /\ it[f] = e[k]
      /\ list.next[e[k]] = IF k = numberClients THEN NULL ELSE e[k + 1]
      /\ \A i \in 1..numberClients : i # k => e[i] # e[k]
  BY <1>1, <1>2, <1>3 DEF Chain, WalkAt
<1>6. WalkAt(f, e, k)'
  <2>1. \A i \in k..numberClients :
          i > k => cliPc[e[i]] \in {"recv", "cmd", "lock"} /\ e[i] \notin aborted'
    BY <1>2, <1>3, <1>5 DEF WalkAt
  <2>2. \A c \in Listed : \E i \in k..numberClients : c = e[i]
    BY <1>2 DEF WalkAt
  <2> QED BY <1>3, <1>4, <1>5, <2>1, <2>2 DEF WalkAt
<1> QED BY <1>1, <1>3, <1>6 DEF WalkedChain

\* Once the client at its link has ended fini moves on to the next link.
LEMMA JoinMovesOn ==
    ASSUME NEW f, Callers = {f}, TypeOK, ServerInv(f), ListInv(f), WalkedChain(f), FiniJoinClient(f)
    PROVE  WalkedChain(f)'
<1> USE Facts
<1>1. PICK e : Chain(list, e, numberClients) /\ \E k : WalkAt(f, e, k)
  BY DEF WalkedChain
<1>2. PICK k : WalkAt(f, e, k)
  BY <1>1
<1>3. /\ pc[f] = "fini_join_client" /\ pc'[f] = "fini_walk" /\ cliPc[it[f]] = "gone"
      /\ it'[f] = nxt[f]
      /\ UNCHANGED <<list, numberClients, cliPc, aborted>>
  BY DEF FiniJoinClient, CallerStep, listVars, cliVars
<1>4. Listed' = Listed
  BY CallerListed DEF CallerNext
<1>5. /\ numberClients \in Nat
      /\ k \in 1..numberClients /\ it[f] = e[k]
      /\ nxt[f] = IF k = numberClients THEN NULL ELSE e[k + 1]
  BY <1>1, <1>2, <1>3 DEF Chain, WalkAt
<1>6. e[k] \notin Listed
  BY <1>3, <1>5 DEF Listed, ServerInv
<1>7. WalkAt(f, e, k + 1)'
  <2>1. \A i \in (k + 1)..numberClients :
          cliPc[e[i]] \in {"recv", "cmd", "lock"} /\ e[i] \notin aborted
    BY <1>2, <1>5 DEF WalkAt
  <2>2. \A c \in Listed : \E i \in (k + 1)..numberClients : c = e[i]
    BY <1>2, <1>5, <1>6 DEF WalkAt
  <2> QED BY <1>3, <1>4, <1>5, <2>1, <2>2 DEF WalkAt
<1> QED BY <1>1, <1>3, <1>7 DEF WalkedChain

\* The clients cannot disturb the walk: the only edit of the list they make
\* needs the mutex fini holds.
LEMMA ClientsKeepWalk ==
    ASSUME NEW f, Callers = {f}, TypeOK, PhaseInv(f), ServerInv(f), MutexInv(f), ClientInv(f),
           pc[f] \in WalkSteps, WalkedChain(f), NEW c \in Clients, ClientNext(c)
    PROVE  WalkedChain(f)'
<1> USE Facts
<1>1. PICK e : Chain(list, e, numberClients) /\ \E k : WalkAt(f, e, k)
  BY DEF WalkedChain
<1>2. PICK k : WalkAt(f, e, k)
  BY <1>1
<1>3. mtxOwner = f /\ mtxExists
  BY DEF MutexInv, PhaseInv, MutexSteps
<1>4. ~ClientUnlink(c) /\ ~ClientLock(c)
  BY <1>3 DEF MutexInv, ClientUnlink, ClientLock, ClientStep, Acquire
<1>5. UNCHANGED <<pc, it, nxt, aborted, list, numberClients>>
  BY <1>4, ClientFrame DEF ClientNext, ClientRecvCommand, ClientCommandDone, ClientPeerGone,
     ClientAborted, ClientClose, ClientExit, listVars
<1>6. Listed' \subseteq Listed
  BY ClientListed
<1>7. \A d \in Clients : cliPc[d] \in {"recv", "cmd", "lock"} /\ d \notin aborted
                           => cliPc'[d] \in {"recv", "cmd", "lock"}
  BY <1>4 DEF ClientNext, ClientRecvCommand, ClientCommandDone, ClientPeerGone, ClientAborted,
              ClientClose, ClientExit, ClientStep
<1>8. \A i \in k..numberClients : e[i] \in Clients
  BY <1>1, <1>2 DEF Chain, WalkAt
<1>9. WalkAt(f, e, k)'
  BY <1>2, <1>5, <1>6, <1>7, <1>8 DEF WalkAt
<1> QED BY <1>1, <1>5, <1>9 DEF WalkedChain

\* The list is well formed, and fini's walk is on one of its links.
LEMMA ListStep ==
    ASSUME NEW f, Callers = {f}, TypeOK, PhaseInv(f), ServerInv(f), MutexInv(f), ClientInv(f),
           ListInv(f), [Next]_vars
    PROVE  ListInv(f)'
<1> USE Facts DEF WalkSteps
<1>1. ASSUME CallerNext(f) PROVE ListInv(f)'
  <2>0. Listed' = Listed
    BY <1>1, CallerListed
  <2>1. ASSUME UNCHANGED listVars, ListedChain PROVE ListedChain'
    BY <2>0, <2>1 DEF ListedChain, listVars
  <2> USE DEF CallerStep
  <2>2. CASE \/ InitCall(f) \/ InitNetAlreadyUp(f) \/ InitNetUp(f) \/ InitNetError(f)
             \/ InitNetCtl(f) \/ InitInfo(f) \/ InitFail(f) \/ InitDone(f)
    <3>1. /\ UNCHANGED <<listVars, mtxExists>> /\ pc[f] \in InitSteps \cup {"idle"}
          /\ pc'[f] \in InitSteps \cup {"idle"}
      BY <2>2 DEF InitCall, InitNetAlreadyUp, InitNetUp, InitNetError, InitNetCtl, InitInfo, InitFail,
                  InitDone, mtxVars, InitSteps
    <3>2. pc[f] \notin WalkSteps \cup {"fini_delete", "fini_reset"}
          /\ pc'[f] \notin WalkSteps \cup {"fini_delete", "fini_reset"}
      BY <3>1 DEF InitSteps
    <3> QED BY <2>1, <3>1, <3>2 DEF ListInv, listVars
  <2>3. CASE InitCreate(f)
    <3>1. ~mtxExists /\ pc[f] = "init_create" /\ pc'[f] = "init_start"
      BY <2>3 DEF InitCreate, PhaseInv, MutexSteps
    <3>2. list.head = NULL /\ numberClients = 0 /\ Listed = {}
      BY <3>1 DEF ListInv, ClientInv
    <3>3. ListedChain
      <4> DEFINE e == [i \in 1..0 |-> NULL]
      <4>1. Chain(list, e, numberClients) /\ Members(e, numberClients) = {}
        BY <3>2 DEF Chain, Members
      <4> QED BY <3>2, <4>1 DEF ListedChain
    <3>4. mtxExists' /\ UNCHANGED listVars
      BY <2>3 DEF InitCreate
    <3> QED BY <2>1, <3>1, <3>3, <3>4 DEF ListInv
  <2>4. CASE InitStart(f) \/ FiniCall(f) \/ FiniClose(f) \/ FiniJoinServer(f)
    <3>1. UNCHANGED <<listVars, mtxExists>>
      BY <2>4 DEF InitStart, FiniCall, FiniClose, FiniJoinServer, mtxVars
    <3>2. pc[f] \notin WalkSteps \cup {"fini_delete", "fini_reset"}
          /\ pc'[f] \notin WalkSteps \cup {"fini_delete", "fini_reset"}
      BY <2>4 DEF InitStart, FiniCall, FiniClose, FiniJoinServer
    <3> QED BY <2>1, <3>1, <3>2 DEF ListInv, listVars
  <2>5. CASE FiniLock(f)
    <3>1. mtxExists /\ mtxExists' /\ pc[f] = "fini_lock" /\ pc'[f] = "fini_walk"
      BY <2>5 DEF FiniLock, Acquire, PhaseInv, MutexSteps
    <3>2. WalkedChain(f)'
      BY <2>5, <3>1, LockStartsWalk DEF ListInv
    <3> QED BY <3>1, <3>2 DEF ListInv
  <2>6. CASE FiniAbort(f) \/ FiniJoinClient(f)
    <3>1. pc[f] \in WalkSteps /\ pc'[f] \in WalkSteps /\ mtxExists /\ UNCHANGED mtxExists
      BY <2>6 DEF FiniAbort, FiniJoinClient, PhaseInv, MutexSteps, mtxVars
    <3>2. WalkedChain(f)'
      BY <2>6, <3>1, AbortStaysInWalk, JoinMovesOn DEF ListInv
    <3> QED BY <3>1, <3>2 DEF ListInv
  <2>7. CASE FiniUnlock(f)
    <3>1. mtxExists /\ UNCHANGED mtxExists /\ pc'[f] = "fini_delete"
      BY <2>7 DEF FiniUnlock, Release, PhaseInv, MutexSteps
    <3> QED BY <3>1 DEF ListInv
  <2>8. CASE FiniDelete(f)
    BY <2>8 DEF FiniDelete, ListInv
  <2>9. CASE FiniReset(f)
    <3>1. list'.head = NULL /\ numberClients' = 0 /\ pc'[f] = "fini_net"
      BY <2>9 DEF FiniReset, ListType
    <3>2. ~mtxExists /\ UNCHANGED mtxExists
      BY <2>9 DEF FiniReset, PhaseInv, MutexSteps, mtxVars
    <3> QED BY <3>1, <3>2 DEF ListInv
  <2>10. CASE FiniNet(f) \/ FiniDone(f)
    <3>1. /\ ~mtxExists /\ UNCHANGED <<listVars, mtxExists>>
          /\ pc[f] \in {"fini_net", "fini_done"} /\ pc'[f] \in {"fini_done", "idle"}
      BY <2>10 DEF FiniNet, FiniDone, PhaseInv, MutexSteps, mtxVars
    <3> QED BY <3>1 DEF ListInv, listVars
  <2> QED
    BY <1>1, <2>2, <2>3, <2>4, <2>5, <2>6, <2>7, <2>8, <2>9, <2>10 DEF CallerNext
<1>2. ASSUME NEW s \in Servers, ServerNext(s) PROVE ListInv(f)'
  <2>1. srvPc[s] # "gone"
    BY <1>2 DEF ServerNext, ServerSocket, ServerAccept, ServerAcceptError, ServerLock, ServerAdd,
         ServerStart, ServerStep
  <2>2. mtxExists /\ pc[f] \notin WalkSteps \cup {"fini_delete"}
    BY <2>1 DEF ServerInv
  <2>3. mtxExists' /\ pc'[f] \notin WalkSteps \cup {"fini_delete"}
    BY <1>2, <2>2, ServerFrame
  <2>4. ListedChain
    BY <2>2 DEF ListInv
  <2>5. ListedChain'
    <3>1. CASE ServerAdd(s)
      BY <2>4, <3>1, AddKeepsChain
    <3>2. CASE ~ServerAdd(s)
      <4>1. UNCHANGED listVars
        BY <1>2, <3>2 DEF ServerNext, ServerSocket, ServerAccept, ServerAcceptError, ServerLock,
             ServerStart
      <4>2. Listed' = Listed
        BY <1>2, <3>2, ServerListed
      <4> QED BY <2>4, <4>1, <4>2 DEF ListedChain, listVars
    <3> QED BY <3>1, <3>2
  <2> QED BY <2>3, <2>5 DEF ListInv
<1>3. ASSUME NEW c \in Clients, ClientNext(c) PROVE ListInv(f)'
  <2>0. UNCHANGED <<pc, mtxExists, aborted>>
    BY <1>3, ClientFrame
  <2>1. CASE ~mtxExists
    <3>1. ~ClientUnlink(c)
      BY <2>1 DEF ClientUnlink, ClientStep, MutexInv
    <3>2. UNCHANGED listVars
      BY <1>3, <3>1 DEF ClientNext, ClientRecvCommand, ClientCommandDone, ClientPeerGone,
           ClientAborted, ClientLock, ClientClose, ClientExit
    <3> QED BY <2>0, <2>1, <3>2 DEF ListInv, PhaseInv, MutexSteps, listVars
  <2>2. CASE mtxExists /\ pc[f] \in WalkSteps
    <3>1. WalkedChain(f)'
      BY <1>3, <2>2, ClientsKeepWalk DEF ListInv
    <3> QED BY <2>0, <2>2, <3>1 DEF ListInv
  <2>3. CASE mtxExists /\ pc[f] \notin WalkSteps \cup {"fini_delete"}
    <3>1. ListedChain
      BY <2>3 DEF ListInv
    <3>2. CASE ClientUnlink(c)
      BY <2>0, <2>3, <3>1, <3>2, UnlinkKeepsChain DEF ListInv
    <3>3. CASE ~ClientUnlink(c)
      <4>1. UNCHANGED listVars
        BY <1>3, <3>3 DEF ClientNext, ClientRecvCommand, ClientCommandDone, ClientPeerGone,
             ClientAborted, ClientLock, ClientClose, ClientExit
      <4>2. ClientExit(c) => c \notin Listed
        BY <2>3 DEF ClientExit, ClientStep, ClientInv, Listed, ServerInv
      <4>3. Listed' = Listed
        BY <1>3, <3>3, <4>2, ClientListed
      <4>4. ListedChain'
        BY <3>1, <4>1, <4>3 DEF ListedChain, listVars
      <4> QED BY <2>0, <2>3, <4>4 DEF ListInv
    <3> QED BY <3>2, <3>3
  <2>4. CASE mtxExists /\ pc[f] = "fini_delete"
    BY <2>0, <2>4 DEF ListInv
  <2> QED BY <2>1, <2>2, <2>3, <2>4
<1>4. CASE UNCHANGED vars
  <2>1. UNCHANGED <<pc, it, nxt, list, numberClients, mtxExists, srvPc, srvCli, cliPc, aborted>>
    BY <1>4 DEF vars, callerVars, listVars, mtxVars, srvVars, cliVars
  <2>2. Listed' = Listed
    BY <2>1 DEF Listed
  <2> QED BY <2>1, <2>2 DEF ListInv, ListedChain, WalkedChain, WalkAt
<1> QED BY <1>1, <1>2, <1>3, <1>4 DEF Next

-----------------------------------------------------------------------------
LEMMA InitIInv ==
    ASSUME NEW f, Callers = {f}, Init, TypeOK
    PROVE  IInv(f)
<1> USE Facts DEF Init
<1>1. pc[f] = "idle" /\ ~ftpInitialized /\ ~mtxExists
  OBVIOUS
<1>2. PhaseInv(f)
  BY <1>1 DEF PhaseInv, InitSteps, FiniSteps, WalkSteps, MutexSteps
<1>3. ServerInv(f)
  BY <1>1 DEF ServerInv
<1>4. MutexInv(f)
  BY <1>1 DEF MutexInv, WalkSteps
<1>5. Listed = {}
  BY DEF Listed
<1>6. ClientInv(f)
  BY <1>5 DEF ClientInv
<1>7. ListInv(f)
  BY <1>1 DEF ListInv, EmptyList, WalkSteps
<1> QED BY <1>2, <1>3, <1>4, <1>6, <1>7 DEF IInv

LEMMA IInvStep ==
    ASSUME NEW f, Callers = {f}, IInv(f), [Next]_vars
    PROVE  IInv(f)'
BY TypeStep, PhaseStep, ServerStepInv, MutexStep, ClientStepInv, ListStep DEF IInv

\* The inductive invariant holds of every behaviour with one caller.
THEOREM Invariance ==
    ASSUME NEW f, Callers = {f}
    PROVE  Spec => []IInv(f)
<1>1. Init => IInv(f)
  <2> SUFFICES ASSUME Init PROVE IInv(f)
    OBVIOUS
  <2>1. TypeOK
    BY InitType
  <2> QED BY <2>1, InitIInv
<1>2. IInv(f) /\ [Next]_vars => IInv(f)'
  BY IInvStep
<1> QED BY <1>1, <1>2, PTL DEF Spec

\* The list stays a doubly linked list of number_clients records through
\* exactly the clients client_list_add put in and client_list_delete left.
THEOREM ListStaysFaithful ==
    ASSUME NEW f, Callers = {f}
    PROVE  Spec => []ListFaithful
<1>1. IInv(f) => ListFaithful
  <2> SUFFICES ASSUME IInv(f), mtxExists, ~(\E g \in Callers : pc[g] = "fini_delete")
               PROVE  /\ numberClients \in Nat
                      /\ \E e \in [1..numberClients -> Clients] :
                           /\ Chain(list, e, numberClients)
                           /\ Listed \subseteq Members(e, numberClients)
                           /\ ~Walking => Members(e, numberClients) = Listed
    BY DEF ListFaithful
  <2>1. pc[f] # "fini_delete" /\ (Walking <=> pc[f] \in WalkSteps)
    BY DEF Walking
  <2>2. CASE Walking
    <3>1. PICK e : Chain(list, e, numberClients) /\ \E k : WalkAt(f, e, k)
      BY <2>1, <2>2 DEF IInv, ListInv, WalkedChain
    <3>2. PICK k : WalkAt(f, e, k)
      BY <3>1
    <3>3. numberClients \in Nat /\ e \in [1..numberClients -> Clients]
      BY <3>1 DEF Chain
    <3>4. \A c \in Listed : \E i \in 1..numberClients : c = e[i]
      BY <3>2, <3>3 DEF WalkAt
    <3>5. Listed \subseteq Members(e, numberClients)
      BY <3>4 DEF Members
    <3> QED BY <2>2, <3>1, <3>3, <3>5
  <2>3. CASE ~Walking
    <3>1. PICK e : Chain(list, e, numberClients) /\ Members(e, numberClients) = Listed
      BY <2>1, <2>3 DEF IInv, ListInv, ListedChain
    <3>2. numberClients \in Nat /\ e \in [1..numberClients -> Clients]
      BY <3>1 DEF Chain
    <3> QED BY <3>1, <3>2
  <2> QED BY <2>2, <2>3
<1> QED BY <1>1, Invariance, PTL

\* client_list_thread_end only follows live records and joins started threads,
\* and it unlocks when nobody is listed any more.
THEOREM WalkStaysSafe ==
    ASSUME NEW f, Callers = {f}
    PROVE  Spec => []FiniWalkIsSafe
<1>1. IInv(f) => FiniWalkIsSafe
  <2> SUFFICES ASSUME IInv(f) PROVE FiniWalkIsSafe
    OBVIOUS
  <2> USE Facts DEF IInv
  <2>1. pc[f] = "fini_walk" /\ it[f] # NULL => cliPc[it[f]] \notin {"gone", "dormant"}
    BY WalkReached
  <2>2. ASSUME pc[f] = "fini_join_client" PROVE cliPc[it[f]] # "dormant"
    <3>1. PICK e : Chain(list, e, numberClients) /\ \E k : WalkAt(f, e, k)
      BY <2>2 DEF ListInv, WalkedChain, WalkSteps
    <3>2. PICK k : WalkAt(f, e, k)
      BY <3>1
    <3>3. numberClients \in Nat /\ e \in [1..numberClients -> Clients]
      BY <3>1 DEF Chain
    <3>4. it[f] \in Clients
      BY <2>2, <3>2, <3>3 DEF WalkAt
    <3> QED BY <2>2, <3>4 DEF ServerInv
  <2>3. pc[f] = "fini_delete" => Listed = {}
    BY DEF ClientInv
  <2> QED BY <2>1, <2>2, <2>3 DEF FiniWalkIsSafe
<1> QED BY <1>1, Invariance, PTL

\* Once ftpvita_fini has returned, the client threads there still are have left
\* the list and are on their way out; none whose sockets fini aborted is left.
THEOREM OnlyTheDepartedAreLeft ==
    ASSUME NEW f, Callers = {f}
    PROVE  Spec => []FiniLeavesOnlyTheDeparted
<1>1. IInv(f) => FiniLeavesOnlyTheDeparted
  <2> SUFFICES ASSUME IInv(f), pc[f] = "idle", ~ftpInitialized, NEW c \in Clients, cliPc[c] # "gone"
               PROVE  cliPc[c] \in {"close", "free"} /\ c \notin aborted
    BY DEF FiniLeavesOnlyTheDeparted
  <2> USE DEF IInv
  <2>1. ~mtxExists /\ pc[f] \notin WalkSteps
    BY DEF PhaseInv, MutexSteps, WalkSteps
  <2>2. Listed = {}
    BY <2>1 DEF ClientInv
  <2>3. cliPc[c] # "dormant"
    BY <2>1 DEF ServerInv
  <2>4. c \notin aborted
    BY <2>1 DEF ClientInv
  <2>5. cliPc[c] \notin {"recv", "cmd", "lock", "unlink"}
    BY <2>2 DEF Listed
  <2> QED BY <2>3, <2>4, <2>5 DEF TypeOK
<1> QED BY <1>1, Invariance, PTL

\* client_list_mtx keeps the list to one thread at a time.
THEOREM ListStaysExclusive ==
    ASSUME NEW f, Callers = {f}
    PROVE  Spec => []ListExclusive
<1>1. IInv(f) => ListExclusive
  <2> SUFFICES ASSUME IInv(f), NEW t \in InCriticalSection PROVE mtxExists /\ mtxOwner = t
    BY DEF ListExclusive
  <2> USE Facts DEF IInv
  <2>1. CASE t = f /\ pc[f] \in WalkSteps
    BY <2>1 DEF MutexInv, PhaseInv, MutexSteps
  <2>2. CASE t \in Servers /\ srvPc[t] = "add"
    BY <2>2 DEF MutexInv, ServerInv
  <2>3. CASE t \in Clients /\ cliPc[t] = "unlink"
    BY <2>3 DEF MutexInv, ClientInv, Listed
  <2> QED BY <2>1, <2>2, <2>3 DEF InCriticalSection
<1> QED BY <1>1, Invariance, PTL

-----------------------------------------------------------------------------
\* What the flags net_memory, net_init and netctl_init say of the resources.
NetInv(f) ==
    /\ pc[f] # "fini_done" => held = owned
    /\ pc[f] = "fini_done" => owned = {}
    /\ pc[f] = "init_net" \/ (pc[f] = "idle" /\ ~ftpInitialized) => held = {}
    /\ pc[f] = "init_netctl" => "netctl" \notin held

LEMMA NetStep ==
    ASSUME NEW f, Callers = {f}, TypeOK, PhaseInv(f), NetInv(f), [Next]_vars
    PROVE  NetInv(f)'
<1> USE DEF NetInv
<1>0. pc \in [Callers -> {"idle"} \cup InitSteps \cup FiniSteps] /\ f \in Callers
  BY DEF TypeOK
<1>1. ASSUME CallerNext(f) PROVE NetInv(f)'
  <2> USE <1>0 DEF CallerStep, netVars
  <2>1. CASE InitCall(f) \/ InitInfo(f) \/ InitCreate(f) \/ InitStart(f) \/ InitDone(f)
    BY <2>1 DEF InitCall, InitInfo, InitCreate, InitStart, InitDone
  <2>2. CASE InitNetAlreadyUp(f) \/ InitNetUp(f) \/ InitNetError(f)
    BY <2>2 DEF InitNetAlreadyUp, InitNetUp, InitNetError
  <2>3. CASE InitNetCtl(f)
    BY <2>3 DEF InitNetCtl
  <2>4. CASE InitFail(f)
    BY <2>4 DEF InitFail
  <2>5. CASE \/ FiniCall(f) \/ FiniClose(f) \/ FiniJoinServer(f) \/ FiniLock(f) \/ FiniAbort(f)
             \/ FiniJoinClient(f) \/ FiniUnlock(f) \/ FiniDelete(f) \/ FiniReset(f)
    BY <2>5 DEF FiniCall, FiniClose, FiniJoinServer, FiniLock, FiniAbort, FiniJoinClient, FiniUnlock,
                FiniDelete, FiniReset
  <2>6. CASE FiniNet(f) \/ FiniDone(f)
    BY <2>6 DEF FiniNet, FiniDone
  <2> QED BY <1>1, <2>1, <2>2, <2>3, <2>4, <2>5, <2>6 DEF CallerNext
<1>2. CASE UNCHANGED <<pc, ftpInitialized, held, owned>>
  BY <1>2
<1> QED BY <1>1, <1>2, ServerFrame, ClientFrame DEF Next, vars, callerVars, netVars

\* Every way out of ftpvita_init and ftpvita_fini releases what was acquired,
\* once, and keeps what belongs to others.
THEOREM NetStaysBalanced ==
    ASSUME NEW f, Callers = {f}
    PROVE  Spec => []NetBalanced
<1>1. Init => NetInv(f)
  BY DEF Init, NetInv
<1>2. IInv(f) /\ NetInv(f) /\ [Next]_vars => NetInv(f)'
  BY NetStep DEF IInv
<1>3. NetInv(f) => NetBalanced
  BY DEF NetInv, NetBalanced
<1> QED BY <1>1, <1>2, <1>3, Invariance, PTL DEF Spec

(***************************************************************************)
(* FtpVita implements FtpService: each action of the threads is one of the *)
(* service's actions or leaves the service's state alone.                  *)
(***************************************************************************)

\* The three parts of the service's state, and one caller's part in the phase.
LEMMA PhaseOfCaller ==
    ASSUME NEW f, Callers = {f}
    PROVE  Phase = IF ~mtxExists THEN "down"
                   ELSE IF pc[f] \in WalkSteps \cup {"fini_delete"} THEN "draining" ELSE "up"
BY DEF Phase

LEMMA CallerRefines ==
    ASSUME NEW f, Callers = {f}, IInv(f), CallerNext(f)
    PROVE  [Service!Next]_(Service!vars)
<1> USE Facts DEF IInv, CallerStep
<1>0. Listed' = Listed
  BY CallerListed
<1>1. cliPc' = cliPc
  BY DEF CallerNext, InitCall, InitNetAlreadyUp, InitNetUp, InitNetError, InitNetCtl, InitInfo,
     InitFail, InitCreate, InitStart, InitDone, FiniCall, FiniClose, FiniJoinServer, FiniLock,
     FiniAbort, FiniJoinClient, FiniUnlock, FiniDelete, FiniReset, FiniNet, FiniDone, cliVars
<1>2. Serving' = Serving
  BY <1>1 DEF Serving
<1>3. Phase' = IF ~mtxExists' THEN "down"
               ELSE IF pc'[f] \in WalkSteps \cup {"fini_delete"} THEN "draining" ELSE "up"
  BY PhaseOfCaller DEF Phase
<1>4. CASE InitCreate(f)
  <2>1. Phase = "down" /\ Phase' = "up"
    BY <1>3, <1>4, PhaseOfCaller DEF InitCreate, PhaseInv, MutexSteps, WalkSteps
  <2> QED BY <1>0, <1>2, <2>1 DEF Service!Next, Service!Start
<1>5. CASE FiniLock(f)
  <2>1. mtxExists /\ mtxOwner = NULL
    BY <1>5 DEF FiniLock, Acquire, PhaseInv, MutexSteps
  <2>2. Phase = "up" /\ Phase' = "draining"
    BY <1>3, <1>5, <2>1, PhaseOfCaller DEF FiniLock, Acquire, WalkSteps
  <2>3. Listed \subseteq Serving
    BY <1>5 DEF FiniLock, Listed, Serving, ServerInv
  <2> QED BY <1>0, <1>2, <2>2, <2>3 DEF Service!Next, Service!Drain
<1>6. CASE FiniDelete(f)
  <2>1. Phase = "draining" /\ Phase' = "down"
    BY <1>3, <1>6, PhaseOfCaller DEF FiniDelete, PhaseInv, MutexSteps
  <2>2. Listed = {}
    BY <1>6 DEF FiniDelete, ClientInv
  <2> QED BY <1>0, <1>2, <2>1, <2>2 DEF Service!Next, Service!Stop
<1>7. CASE \/ InitCall(f) \/ InitNetAlreadyUp(f) \/ InitNetUp(f) \/ InitNetError(f)
           \/ InitNetCtl(f) \/ InitInfo(f) \/ InitFail(f) \/ InitStart(f) \/ InitDone(f)
           \/ FiniCall(f) \/ FiniClose(f) \/ FiniJoinServer(f)
           \/ FiniReset(f) \/ FiniNet(f) \/ FiniDone(f)
  <2>1. /\ mtxExists' = mtxExists
        /\ pc[f] \notin WalkSteps \cup {"fini_delete"} /\ pc'[f] \notin WalkSteps \cup {"fini_delete"}
    BY <1>7 DEF InitCall, InitNetAlreadyUp, InitNetUp, InitNetError, InitNetCtl, InitInfo, InitFail,
       InitStart, InitDone, FiniCall, FiniClose, FiniJoinServer, FiniReset, FiniNet, FiniDone,
       mtxVars, WalkSteps
  <2>2. Phase' = Phase
    BY <1>3, <2>1, PhaseOfCaller
  <2> QED BY <1>0, <1>2, <2>2 DEF Service!vars
<1>8. CASE FiniAbort(f) \/ FiniJoinClient(f) \/ FiniUnlock(f)
  <2>1. /\ mtxExists' = mtxExists
        /\ pc[f] \in WalkSteps \cup {"fini_delete"} /\ pc'[f] \in WalkSteps \cup {"fini_delete"}
    BY <1>8 DEF FiniAbort, FiniJoinClient, FiniUnlock, Release, mtxVars, WalkSteps
  <2>2. Phase' = Phase
    BY <1>3, <2>1, PhaseOfCaller
  <2> QED BY <1>0, <1>2, <2>2 DEF Service!vars
<1> QED BY <1>4, <1>5, <1>6, <1>7, <1>8 DEF CallerNext

LEMMA ServerRefines ==
    ASSUME NEW f, Callers = {f}, IInv(f), NEW s \in Servers, ServerNext(s)
    PROVE  [Service!Next]_(Service!vars)
<1> USE Facts DEF IInv, ServerStep, ClientStep
<1>1. srvPc[s] # "gone"
  BY DEF ServerNext, ServerSocket, ServerAccept, ServerAcceptError, ServerLock, ServerAdd, ServerStart
<1>2. Phase = "up" /\ Phase' = "up"
  <2>1. mtxExists /\ pc[f] \notin WalkSteps \cup {"fini_delete"}
    BY <1>1 DEF ServerInv, WalkSteps
  <2>2. UNCHANGED <<mtxExists, pc>>
    BY ServerFrame
  <2> QED BY <2>1, <2>2 DEF Phase
<1>3. CASE ServerAdd(s)
  <2>1. srvCli[s] \in Clients /\ srvCli[s] \notin Listed \cup Serving
    BY <1>3 DEF ServerAdd, ServerInv, Listed, Serving
  <2>2. Listed' = Listed \cup {srvCli[s]}
    BY <1>3, ServerListed
  <2>3. Serving' = Serving
    BY <1>3 DEF ServerAdd, Serving, cliVars
  <2>4. Service!Register(srvCli[s])
    BY <1>2, <2>1, <2>2, <2>3 DEF Service!Register
  <2> QED BY <2>1, <2>4 DEF Service!Next
<1>4. CASE ServerStart(s)
  <2>1. srvCli[s] \in Clients /\ srvCli[s] \in Listed \ Serving
    BY <1>4 DEF ServerStart, ServerInv, Listed, Serving
  <2>2. Listed' = Listed
    BY <1>4, ServerListed DEF ServerAdd, ServerStart
  <2>3. Serving' = Serving \cup {srvCli[s]}
    BY <1>4, <2>1 DEF ServerStart, Serving
  <2>4. Service!Serve(srvCli[s])
    BY <1>2, <2>1, <2>2, <2>3 DEF Service!Serve
  <2> QED BY <2>1, <2>4 DEF Service!Next
<1>5. CASE ~ServerAdd(s) /\ ~ServerStart(s)
  <2>1. Listed' = Listed
    BY <1>5, ServerListed
  <2>2. Serving' = Serving
    BY <1>5 DEF ServerNext, ServerSocket, ServerAccept, ServerAcceptError, ServerLock, Serving, cliVars
  <2> QED BY <1>2, <2>1, <2>2 DEF Service!vars
<1> QED BY <1>3, <1>4, <1>5

LEMMA ClientRefines ==
    ASSUME NEW f, Callers = {f}, IInv(f), NEW c \in Clients, ClientNext(c)
    PROVE  [Service!Next]_(Service!vars)
<1> USE Facts DEF IInv, ClientStep
<1>0. UNCHANGED <<pc, mtxExists, aborted>>
  BY ClientFrame
<1>1. Phase' = Phase
  BY <1>0 DEF Phase
<1>2. Phase = IF ~mtxExists THEN "down"
              ELSE IF pc[f] \in WalkSteps \cup {"fini_delete"} THEN "draining" ELSE "up"
  BY PhaseOfCaller
<1>3. CASE ClientUnlink(c)
  <2>1. c \in Listed \cap Serving
    BY <1>3 DEF ClientUnlink, Listed, Serving
  <2>2. Phase = "up"
    <3>1. mtxOwner = c /\ Listed # {}
      BY <1>3, <2>1 DEF ClientUnlink, MutexInv
    <3> QED BY <1>2, <3>1 DEF MutexInv, ClientInv
  <2>3. Listed' = Listed \ {c} /\ Serving' = Serving
    BY <1>3, ClientListed DEF ClientUnlink, Serving
  <2>4. Service!Leave(c)
    BY <1>1, <2>1, <2>2, <2>3 DEF Service!Leave
  <2> QED BY <2>4 DEF Service!Next
<1>4. CASE ClientExit(c)
  <2>1. c \in Serving /\ Serving' = Serving \ {c} /\ Listed' = Listed \ {c}
    BY <1>4, ClientListed DEF ClientExit, Serving
  <2>2. CASE c \notin Listed
    <3>1. Service!End(c)
      BY <1>1, <2>1, <2>2 DEF Service!End
    <3> QED BY <3>1 DEF Service!Next
  <2>3. CASE c \in Listed
    <3>1. c \in aborted /\ mtxExists
      BY <1>4, <2>3 DEF ClientExit, Listed, ServerInv, ClientInv
    <3>2. Phase = "draining"
      BY <1>2, <1>4, <3>1 DEF ClientExit, ClientInv
    <3>3. Service!EndDrained(c)
      BY <1>1, <2>1, <2>3, <3>2 DEF Service!EndDrained
    <3> QED BY <3>3 DEF Service!Next
  <2> QED BY <2>2, <2>3
<1>5. CASE ~ClientUnlink(c) /\ ~ClientExit(c)
  <2>1. Listed' = Listed
    BY <1>5, ClientListed
  <2>2. Serving' = Serving
    BY <1>5 DEF ClientNext, ClientRecvCommand, ClientCommandDone, ClientPeerGone, ClientAborted,
       ClientLock, ClientClose, Serving
  <2> QED BY <1>1, <2>1, <2>2 DEF Service!vars
<1> QED BY <1>3, <1>4, <1>5

\* With one caller, ftpvita_init and ftpvita_fini and the threads they manage
\* are the abstract service: nobody registers while it drains, and it goes down
\* with nobody registered.
THEOREM Refines ==
    ASSUME NEW f, Callers = {f}
    PROVE  Spec => ImplementsService
<1>1. Init => Service!Init
  BY DEF Init, Service!Init, Phase, Listed, Serving
<1>2. IInv(f) /\ [Next]_vars => [Service!Next]_(Service!vars)
  <2> SUFFICES ASSUME IInv(f), [Next]_vars PROVE [Service!Next]_(Service!vars)
    OBVIOUS
  <2>1. CASE CallerNext(f)
    BY <2>1, CallerRefines
  <2>2. CASE \E s \in Servers : ServerNext(s)
    BY <2>2, ServerRefines
  <2>3. CASE \E c \in Clients : ClientNext(c)
    BY <2>3, ClientRefines
  <2>4. CASE UNCHANGED vars
    BY <2>4 DEF vars, callerVars, mtxVars, srvVars, cliVars, Service!vars, Phase, Listed, Serving
  <2> QED BY <2>1, <2>2, <2>3, <2>4 DEF Next
<1> QED BY <1>1, <1>2, Invariance, PTL DEF Spec, ImplementsService, Service!Spec
=============================================================================
