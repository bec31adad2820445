------------------------------ MODULE FtpVita ------------------------------
(***************************************************************************)
(* Life cycle of the FTP server of ftpvita.c: ftpvita_init, ftpvita_fini,  *)
(* the server thread that accepts connections and the threads that serve   *)
(* the clients, sharing the client list, its mutex and the sockets.        *)
(*                                                                         *)
(* Every step that touches shared state is an action; the critical section *)
(* of client_list_add / client_list_delete is one action between the lock  *)
(* and the unlock it ends with.  What a client's commands do is module     *)
(* FtpSession; here a command is a stretch of time during which the thread *)
(* is not waiting for its control socket.                                  *)
(*                                                                         *)
(* A client is the address of its record: malloc may hand the address out  *)
(* again once the record is freed.  Its thread ends by freeing the record, *)
(* so cliPc[c] = "gone" says both that the record is not allocated and     *)
(* that there is no thread to wait for.                                    *)
(*                                                                         *)
(* Assumed: the mutex is created (ftpvita_init ignores the result), a      *)
(* thread that was created can be started, and server_thread gets a thread *)
(* and a record for each client (it checks neither).                       *)
(***************************************************************************)
EXTENDS ClientList

CONSTANTS Callers,   \* threads that call ftpvita_fini
          Starters,  \* those of them that also call ftpvita_init
          Servers    \* identifiers for server threads and their sockets

ASSUME StartersAreCallers == Starters \subseteq Callers

ASSUME ThreadsAreDistinct ==
    /\ NULL \notin Callers \cup Servers
    /\ Callers \cap Servers = {}
    /\ Clients \cap (Callers \cup Servers) = {}

VARIABLES
    \* the callers
    pc,              \* where each caller is in init or fini
    it, nxt,         \* the locals of client_list_thread_end
    \* the globals of ftpvita.c
    ftpInitialized,
    held,            \* net_memory # NULL, net_init = 0, netctl_init = 0
    owned,           \* what this plugin really holds of the same three
    serverThid, serverSockfd,
    list,            \* client_list and the records' prev/next
    numberClients,
    mtxExists, mtxOwner,
    \* the server threads
    srvPc, srvCli,   \* srvCli: the client being registered
    openSocks,       \* listening sockets not closed yet
    \* the client threads
    cliPc,
    aborted          \* control sockets fini has aborted

callerVars == <<pc, it, nxt>>
netVars    == <<ftpInitialized, held, owned>>
listVars   == <<list, numberClients>>
mtxVars    == <<mtxExists, mtxOwner>>
srvVars    == <<serverThid, serverSockfd, srvPc, srvCli, openSocks>>
cliVars    == <<cliPc, aborted>>
vars == <<callerVars, netVars, listVars, mtxVars, srvVars, cliVars>>

Resources == {"memory", "net", "netctl"}

InitSteps == {"init_net", "init_netctl", "init_info", "init_fail",
              "init_create", "init_start", "init_done"}
WalkSteps == {"fini_walk", "fini_join_client"}
FiniSteps == {"fini_close", "fini_join_server", "fini_lock", "fini_delete",
              "fini_reset", "fini_net", "fini_done"} \cup WalkSteps

TypeOK ==
    /\ pc \in [Callers -> {"idle"} \cup InitSteps \cup FiniSteps]
    /\ it \in [Callers -> Pointers] /\ nxt \in [Callers -> Pointers]
    /\ ftpInitialized \in BOOLEAN
    /\ held \in SUBSET Resources /\ owned \in SUBSET Resources
    /\ serverThid \in Servers \cup {NULL} /\ serverSockfd \in Servers \cup {NULL}
    /\ list \in ListType
    /\ numberClients \in Int
    /\ mtxExists \in BOOLEAN
    /\ mtxOwner \in Callers \cup Servers \cup Clients \cup {NULL}
    /\ srvPc \in [Servers -> {"gone", "dormant", "socket", "accept", "lock", "add", "start"}]
    /\ srvCli \in [Servers -> Pointers]
    /\ openSocks \in SUBSET Servers
    /\ cliPc \in [Clients -> {"gone", "dormant", "recv", "cmd", "lock", "unlink", "close", "free"}]
    /\ aborted \in SUBSET Clients

Init ==
    /\ pc = [f \in Callers |-> "idle"]
    /\ it = [f \in Callers |-> NULL] /\ nxt = [f \in Callers |-> NULL]
    /\ ftpInitialized = FALSE
    /\ held = {} /\ owned = {}
    /\ serverThid = NULL /\ serverSockfd = NULL
    /\ list = EmptyList
    /\ numberClients = 0
    /\ mtxExists = FALSE /\ mtxOwner = NULL
    /\ srvPc = [s \in Servers |-> "gone"] /\ srvCli = [s \in Servers |-> NULL]
    /\ openSocks = {}
    /\ cliPc = [c \in Clients |-> "gone"]
    /\ aborted = {}

\* sceKernelLockMutex; its result is ignored, so a mutex that is not there
\* (any more) stops nobody.
Acquire(t) ==
    /\ mtxExists => mtxOwner = NULL
    /\ mtxOwner' = IF mtxExists THEN t ELSE mtxOwner
    /\ UNCHANGED mtxExists

Release(t) ==
    /\ mtxOwner' = IF mtxOwner = t THEN NULL ELSE mtxOwner
    /\ UNCHANGED mtxExists

CallerStep(f, from, to) == pc[f] = from /\ pc' = [pc EXCEPT ![f] = to]
ServerStep(s, from, to) == srvPc[s] = from /\ srvPc' = [srvPc EXCEPT ![s] = to]
ClientStep(c, from, to) == cliPc[c] = from /\ cliPc' = [cliPc EXCEPT ![c] = to]

(***************************************************************************)
(* ftpvita_init                                                            *)
(***************************************************************************)
InitCall(f) ==
    /\ f \in Starters
    /\ CallerStep(f, "idle", "init_net")
    /\ ~ftpInitialized
    /\ UNCHANGED <<it, nxt, netVars, listVars, mtxVars, srvVars, cliVars>>

\* The network library is up already (brought up by somebody else, too).
InitNetAlreadyUp(f) ==
    /\ CallerStep(f, "init_net", "init_netctl")
    /\ held' = held \ {"net"}
    /\ UNCHANGED <<it, nxt, ftpInitialized, owned, listVars, mtxVars, srvVars, cliVars>>

InitNetUp(f) ==
    /\ CallerStep(f, "init_net", "init_netctl")
    /\ "net" \notin owned
    /\ held' = held \cup {"memory", "net"}
    /\ owned' = owned \cup {"memory", "net"}
    /\ UNCHANGED <<it, nxt, ftpInitialized, listVars, mtxVars, srvVars, cliVars>>

\* sceNetInit failed (its memory is freed again), or sceNetShowNetstat did.
InitNetError(f) ==
    /\ CallerStep(f, "init_net", "idle")
    /\ \/ "net" \notin owned /\ held' = held \ {"memory", "net"}
       \/ UNCHANGED held
    /\ UNCHANGED <<it, nxt, ftpInitialized, owned, listVars, mtxVars, srvVars, cliVars>>

InitNetCtl(f) ==
    /\ \/ CallerStep(f, "init_netctl", "init_info") /\ held' = held \cup {"netctl"}
          /\ owned' = owned \cup {"netctl"}
       \* NET_CTL_ERROR_NOT_TERMINATED: in use by others, and good enough
       \/ CallerStep(f, "init_netctl", "init_info") /\ held' = held \ {"netctl"} /\ UNCHANGED owned
       \/ CallerStep(f, "init_netctl", "init_fail") /\ held' = held \ {"netctl"} /\ UNCHANGED owned
    /\ UNCHANGED <<it, nxt, ftpInitialized, listVars, mtxVars, srvVars, cliVars>>

InitInfo(f) ==
    /\ CallerStep(f, "init_info", "init_create") \/ CallerStep(f, "init_info", "init_fail")
    /\ UNCHANGED <<it, nxt, netVars, listVars, mtxVars, srvVars, cliVars>>

\* Mutant: the labels are entered one too late, and sceNetCtlTerm is missed.
InitFailSkipsNetCtl(f) ==
    /\ CallerStep(f, "init_fail", "idle")
    /\ owned' = owned \ (held \ {"netctl"})
    /\ held' = {}
    /\ UNCHANGED <<it, nxt, ftpInitialized, listVars, mtxVars, srvVars, cliVars>>

\* The error labels: undo what the flags say was done.
InitFail(f) ==
    /\ CallerStep(f, "init_fail", "idle")
    /\ owned' = owned \ held
    /\ held' = {}
    /\ UNCHANGED <<it, nxt, ftpInitialized, listVars, mtxVars, srvVars, cliVars>>

\* Nobody looks whether the server thread could be created.
InitCreate(f) ==
    /\ CallerStep(f, "init_create", "init_start")
    /\ \/ \E s \in Servers \ openSocks : ServerStep(s, "gone", "dormant") /\ serverThid' = s
       \/ serverThid' = NULL /\ UNCHANGED srvPc
    /\ mtxExists' = TRUE /\ mtxOwner' = NULL
    /\ UNCHANGED <<it, nxt, netVars, listVars, serverSockfd, srvCli, openSocks, cliVars>>

InitStart(f) ==
    /\ CallerStep(f, "init_start", "init_done")
    /\ \/ serverThid # NULL /\ ServerStep(serverThid, "dormant", "socket")
       \/ serverThid = NULL /\ UNCHANGED srvPc
    /\ UNCHANGED <<it, nxt, netVars, listVars, mtxVars, serverThid, serverSockfd, srvCli,
                   openSocks, cliVars>>

InitDone(f) ==
    /\ CallerStep(f, "init_done", "idle")
    /\ ftpInitialized' = TRUE
    /\ UNCHANGED <<it, nxt, held, owned, listVars, mtxVars, srvVars, cliVars>>

(***************************************************************************)
(* ftpvita_fini, with client_list_thread_end from fini_lock to fini_walk   *)
(***************************************************************************)
FiniCall(f) ==
    /\ CallerStep(f, "idle", "fini_close")
    /\ ftpInitialized
    /\ UNCHANGED <<it, nxt, netVars, listVars, mtxVars, srvVars, cliVars>>

\* Closes whatever server_sockfd holds now.
FiniClose(f) ==
    /\ CallerStep(f, "fini_close", "fini_join_server")
    /\ openSocks' = openSocks \ {serverSockfd}
    /\ UNCHANGED <<it, nxt, netVars, listVars, mtxVars, serverThid, serverSockfd, srvPc, srvCli,
                   cliVars>>

\* Mutant: fini does not wait for the server thread.
FiniJoinServerNoWait(f) ==
    /\ CallerStep(f, "fini_join_server", "fini_lock")
    /\ UNCHANGED <<it, nxt, netVars, listVars, mtxVars, srvVars, cliVars>>

FiniJoinServer(f) ==
    /\ CallerStep(f, "fini_join_server", "fini_lock")
    /\ serverThid # NULL => srvPc[serverThid] = "gone"
    /\ UNCHANGED <<it, nxt, netVars, listVars, mtxVars, srvVars, cliVars>>

FiniLock(f) ==
    /\ CallerStep(f, "fini_lock", "fini_walk")
    /\ Acquire(f)
    /\ it' = [it EXCEPT ![f] = list.head]
    /\ UNCHANGED <<nxt, netVars, listVars, srvVars, cliVars>>

\* Mutant: the control socket is not aborted.
FiniAbortNothing(f) ==
    /\ CallerStep(f, "fini_walk", "fini_join_client")
    /\ it[f] # NULL
    /\ nxt' = [nxt EXCEPT ![f] = list.next[it[f]]]
    /\ UNCHANGED <<it, netVars, listVars, mtxVars, srvVars, cliVars>>

FiniAbort(f) ==
    /\ CallerStep(f, "fini_walk", "fini_join_client")
    /\ it[f] # NULL
    /\ nxt' = [nxt EXCEPT ![f] = list.next[it[f]]]
    /\ aborted' = aborted \cup {it[f]}
    /\ UNCHANGED <<it, netVars, listVars, mtxVars, srvVars, cliPc>>

\* Mutant: fini does not wait for the client thread.
FiniJoinClientNoWait(f) ==
    /\ CallerStep(f, "fini_join_client", "fini_walk")
    /\ it' = [it EXCEPT ![f] = nxt[f]]
    /\ UNCHANGED <<nxt, netVars, listVars, mtxVars, srvVars, cliVars>>

FiniJoinClient(f) ==
    /\ CallerStep(f, "fini_join_client", "fini_walk")
    /\ cliPc[it[f]] = "gone"
    /\ it' = [it EXCEPT ![f] = nxt[f]]
    /\ UNCHANGED <<nxt, netVars, listVars, mtxVars, srvVars, cliVars>>

FiniUnlock(f) ==
    /\ CallerStep(f, "fini_walk", "fini_delete")
    /\ it[f] = NULL
    /\ Release(f)
    /\ UNCHANGED <<it, nxt, netVars, listVars, srvVars, cliVars>>

FiniDelete(f) ==
    /\ CallerStep(f, "fini_delete", "fini_reset")
    /\ mtxExists' = FALSE /\ mtxOwner' = NULL
    /\ UNCHANGED <<it, nxt, netVars, listVars, srvVars, cliVars>>

FiniReset(f) ==
    /\ CallerStep(f, "fini_reset", "fini_net")
    /\ list' = [list EXCEPT !.head = NULL]
    /\ numberClients' = 0
    /\ UNCHANGED <<it, nxt, netVars, mtxVars, srvVars, cliVars>>

FiniNet(f) ==
    /\ CallerStep(f, "fini_net", "fini_done")
    /\ owned' = owned \ held
    /\ UNCHANGED <<it, nxt, ftpInitialized, held, listVars, mtxVars, srvVars, cliVars>>

FiniDone(f) ==
    /\ CallerStep(f, "fini_done", "idle")
    /\ held' = {}
    /\ ftpInitialized' = FALSE
    /\ UNCHANGED <<it, nxt, owned, listVars, mtxVars, srvVars, cliVars>>

(***************************************************************************)
(* server_thread                                                           *)
(***************************************************************************)
\* Socket, bind, listen; the socket may not be had, and nobody looks.
ServerSocket(s) ==
    /\ ServerStep(s, "socket", "accept")
    /\ \/ serverSockfd' = s /\ openSocks' = openSocks \cup {s}
       \/ serverSockfd' = NULL /\ UNCHANGED openSocks
    /\ UNCHANGED <<callerVars, netVars, listVars, mtxVars, serverThid, srvCli, cliVars>>

\* A connection: a thread is created (not started) and a record allocated.
ServerAccept(s, c) ==
    /\ ServerStep(s, "accept", "lock")
    /\ serverSockfd \in openSocks
    /\ ClientStep(c, "gone", "dormant")
    /\ srvCli' = [srvCli EXCEPT ![s] = c]
    /\ aborted' = aborted \ {c}
    /\ UNCHANGED <<callerVars, netVars, listVars, mtxVars, serverThid, serverSockfd, openSocks>>

\* Any error of sceNetAccept ends the thread, not only that of a closed socket.
ServerAcceptError(s) ==
    /\ ServerStep(s, "accept", "gone")
    /\ UNCHANGED <<callerVars, netVars, listVars, mtxVars, serverThid, serverSockfd, srvCli,
                   openSocks, cliVars>>

ServerLock(s) ==
    /\ ServerStep(s, "lock", "add")
    /\ Acquire(s)
    /\ UNCHANGED <<callerVars, netVars, listVars, serverThid, serverSockfd, srvCli, openSocks,
                   cliVars>>

\* client_list_add
ServerAdd(s) ==
    /\ ServerStep(s, "add", "start")
    /\ list' = AddFront(list, srvCli[s])
    /\ numberClients' = numberClients + 1
    /\ Release(s)
    /\ UNCHANGED <<callerVars, netVars, serverThid, serverSockfd, srvCli, openSocks, cliVars>>

ServerStart(s) ==
    /\ ServerStep(s, "start", "accept")
    /\ ClientStep(srvCli[s], "dormant", "recv")
    /\ UNCHANGED <<callerVars, netVars, listVars, mtxVars, serverThid, serverSockfd, srvCli,
                   openSocks, aborted>>

(***************************************************************************)
(* client_thread                                                           *)
(***************************************************************************)
ClientUnchanged == UNCHANGED <<callerVars, netVars, srvVars, aborted>>

ClientRecvCommand(c) ==
    /\ ClientStep(c, "recv", "cmd")
    /\ c \notin aborted
    /\ ClientUnchanged /\ UNCHANGED <<listVars, mtxVars>>

ClientCommandDone(c) ==
    /\ ClientStep(c, "cmd", "recv")
    /\ ClientUnchanged /\ UNCHANGED <<listVars, mtxVars>>

\* n_recv = 0, or an error that is not EINTR
ClientPeerGone(c) ==
    /\ ClientStep(c, "recv", "lock")
    /\ c \notin aborted
    /\ ClientUnchanged /\ UNCHANGED <<listVars, mtxVars>>

\* n_recv = SCE_NET_ERROR_EINTR; the abort is kept for a later recv too.
ClientAborted(c) ==
    /\ ClientStep(c, "recv", "close")
    /\ c \in aborted
    /\ ClientUnchanged /\ UNCHANGED <<listVars, mtxVars>>

\* Mutant: the client edits the list without the mutex.
ClientLockNothing(c) ==
    /\ ClientStep(c, "lock", "unlink")
    /\ ClientUnchanged /\ UNCHANGED <<listVars, mtxVars>>

ClientLock(c) ==
    /\ ClientStep(c, "lock", "unlink")
    /\ Acquire(c)
    /\ ClientUnchanged /\ UNCHANGED listVars

\* Mutant: client_list_delete returns without unlocking.
ClientUnlinkKeepsLock(c) ==
    /\ ClientStep(c, "unlink", "close")
    /\ list' = Unlink(list, c)
    /\ numberClients' = numberClients - 1
    /\ UNCHANGED mtxVars
    /\ ClientUnchanged

\* client_list_delete
ClientUnlink(c) ==
    /\ ClientStep(c, "unlink", "close")
    /\ list' = Unlink(list, c)
    /\ numberClients' = numberClients - 1
    /\ Release(c)
    /\ ClientUnchanged

ClientClose(c) ==
    /\ ClientStep(c, "close", "free")
    /\ ClientUnchanged /\ UNCHANGED <<listVars, mtxVars>>

\* free(client), sceKernelExitDeleteThread
ClientExit(c) ==
    /\ ClientStep(c, "free", "gone")
    /\ ClientUnchanged /\ UNCHANGED <<listVars, mtxVars>>

-----------------------------------------------------------------------------
CallerNext(f) ==
    \/ InitCall(f) \/ InitNetAlreadyUp(f) \/ InitNetUp(f) \/ InitNetError(f)
    \/ InitNetCtl(f) \/ InitInfo(f) \/ InitFail(f) \/ InitCreate(f) \/ InitStart(f) \/ InitDone(f)
    \/ FiniCall(f) \/ FiniClose(f) \/ FiniJoinServer(f) \/ FiniLock(f) \/ FiniAbort(f)
    \/ FiniJoinClient(f) \/ FiniUnlock(f) \/ FiniDelete(f) \/ FiniReset(f) \/ FiniNet(f)
    \/ FiniDone(f)

ServerNext(s) ==
    \/ ServerSocket(s) \/ ServerAcceptError(s) \/ ServerLock(s) \/ ServerAdd(s) \/ ServerStart(s)
    \/ \E c \in Clients : ServerAccept(s, c)

ClientNext(c) ==
    \/ ClientRecvCommand(c) \/ ClientCommandDone(c) \/ ClientPeerGone(c) \/ ClientAborted(c)
    \/ ClientLock(c) \/ ClientUnlink(c) \/ ClientClose(c) \/ ClientExit(c)

Next == \/ \E f \in Callers : CallerNext(f)
        \/ \E s \in Servers : ServerNext(s)
        \/ \E c \in Clients : ClientNext(c)

Spec == Init /\ [][Next]_vars

(***************************************************************************)
(* Fairness.  A thread that can run runs; whether init or fini is called,  *)
(* what the network does, and that a command comes to an end (it may wait  *)
(* for its peer, or try a file it cannot read for ever) is nobody's duty.  *)
(* sceNetAccept is only sure to return when its socket is not open.  The   *)
(* mutex is created with attribute 0, which queues its waiters first come  *)
(* first served: a client that waits for it gets it although others keep   *)
(* passing (SF).                                                           *)
(***************************************************************************)
CallerFair(f) ==
    WF_vars(\/ InitNetAlreadyUp(f) \/ InitNetUp(f) \/ InitNetError(f)
            \/ InitNetCtl(f) \/ InitInfo(f) \/ InitFail(f) \/ InitCreate(f) \/ InitStart(f)
            \/ InitDone(f) \/ FiniClose(f) \/ FiniJoinServer(f) \/ FiniLock(f) \/ FiniAbort(f)
            \/ FiniJoinClient(f) \/ FiniUnlock(f) \/ FiniDelete(f) \/ FiniReset(f) \/ FiniNet(f)
            \/ FiniDone(f))
ServerFair(s) ==
    WF_vars(\/ ServerSocket(s) \/ (serverSockfd \notin openSocks /\ ServerAcceptError(s))
            \/ ServerLock(s) \/ ServerAdd(s) \/ ServerStart(s))
ClientFair(c) ==
    /\ WF_vars(ClientAborted(c) \/ ClientUnlink(c) \/ ClientClose(c) \/ ClientExit(c))
    /\ SF_vars(ClientLock(c))

FairSpec == /\ Spec
            /\ \A f \in Callers : CallerFair(f)
            /\ \A s \in Servers : ServerFair(s)
            /\ \A c \in Clients : ClientFair(c)

-----------------------------------------------------------------------------
(***************************************************************************)
(* Properties                                                              *)
(***************************************************************************)
\* The clients the list stands for: added and not yet removed.  One that fini
\* aborted never removes itself; it stays on the books until its thread ends.
Listed ==
    {c \in Clients : \/ cliPc[c] \in {"recv", "cmd", "lock", "unlink"}
                     \/ cliPc[c] \in {"close", "free"} /\ c \in aborted
                     \/ \E s \in Servers : srvPc[s] = "start" /\ srvCli[s] = c}

Walking == \E f \in Callers : pc[f] \in WalkSteps

\* As long as the mutex exists the list is a proper doubly linked list of
\* number_clients records, through exactly the clients that were added and have
\* not removed themselves (during fini's walk: at least those still running).
ListFaithful ==
    mtxExists /\ ~(\E f \in Callers : pc[f] = "fini_delete") =>
        /\ numberClients \in Nat
        /\ \E e \in [1..numberClients -> Clients] :
             /\ Chain(list, e, numberClients)
             /\ Listed \subseteq Members(e, numberClients)
             /\ ~Walking => Members(e, numberClients) = Listed

\* client_list_thread_end reads only live records, waits only for threads that
\* have been started, and leaves no listed client behind when it unlocks.
FiniWalkIsSafe ==
    \A f \in Callers :
        /\ pc[f] = "fini_walk" /\ it[f] # NULL => cliPc[it[f]] \notin {"gone", "dormant"}
        /\ pc[f] = "fini_join_client" => cliPc[it[f]] # "dormant"
        /\ pc[f] = "fini_delete" => Listed = {}

\* The threads between locking and unlocking client_list_mtx.
InCriticalSection ==
    {f \in Callers : pc[f] \in WalkSteps}
        \cup {s \in Servers : srvPc[s] = "add"}
        \cup {c \in Clients : cliPc[c] = "unlink"}

\* The list is only touched by one thread at a time, under a mutex that exists.
ListExclusive ==
    \A t, u \in InCriticalSection : t = u /\ mtxExists /\ mtxOwner = t

\* Neither init's error exits nor fini lose a network resource or release one
\* twice: with no call in progress the flags say exactly what is held, and
\* nothing is held while the server is off.
NetBalanced ==
    /\ \A f \in Callers : pc[f] \in {"init_fail", "fini_net"} => held \subseteq owned
    /\ (\A f \in Callers : pc[f] = "idle") =>
           held = owned /\ (~ftpInitialized => held = {})

\* When fini has returned, the only client threads still there are those that had
\* removed themselves from the list, and so are past their last look at the list
\* and at the network but for the closing of their own sockets.  (The comment
\* "Wait until the client threads ends" promises more: these are not waited for.)
FiniLeavesOnlyTheDeparted ==
    (\A f \in Callers : pc[f] = "idle") /\ ~ftpInitialized =>
        \A c \in Clients : cliPc[c] # "gone" => cliPc[c] \in {"close", "free"} /\ c \notin aborted

\* No FTP command goes on for ever.  The code does not see to it: RETR repeats a
\* read that fails, and fini aborts neither what a client sends on its control
\* socket nor a socket that its record does not hold (any more).
CommandsEnd == \A c \in Clients : []<>(cliPc[c] # "cmd")

\* Aborting a client's socket ends its thread, provided its command ends: fini
\* gets past each join ("Wait until the client threads ends").
ClientsAreJoined ==
    CommandsEnd =>
        \A f \in Callers : pc[f] = "fini_join_client" ~> pc[f] # "fini_join_client"

\* Two circumstances in which fini gets stuck do not arise: the server thread has
\* not yet made the socket that fini is about to close, and a client is on its
\* way out as fini walks.
Orderly ==
    \A f \in Callers :
        /\ pc[f] = "fini_close" => \A s \in Servers : srvPc[s] # "socket"
        /\ pc[f] \in WalkSteps => \A c \in Clients : cliPc[c] # "lock"

\* Those two and a command that does not end are all: whatever else happens, and
\* whichever call of init or of the server thread has failed, fini returns.
OrderlyFiniReturns ==
    []Orderly /\ CommandsEnd => \A f \in Callers : pc[f] = "fini_close" ~> pc[f] = "idle"

\* A client whose peer went away frees its record unless fini is in its walk.
DepartedClientEnds ==
    \A c \in Clients : cliPc[c] = "lock" ~> (cliPc[c] = "gone" \/ Walking)

\* How the server's state reads as a state of the abstract service.
Phase ==
    IF ~mtxExists THEN "down"
    ELSE IF \E f \in Callers : pc[f] \in WalkSteps \cup {"fini_delete"} THEN "draining"
    ELSE "up"
Serving == {c \in Clients : cliPc[c] \notin {"gone", "dormant"}}

Service == INSTANCE FtpService WITH phase <- Phase, registered <- Listed, serving <- Serving

\* The server implements the abstract service: fini stops it with every listed
\* client running, waits for all of them and only then takes it down.
ImplementsService == Service!Spec
=============================================================================
