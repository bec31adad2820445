----------------------------- MODULE FtpSession -----------------------------
(***************************************************************************)
(* What the commands of an FTP client do to the state that outlives the    *)
(* command: the data connection (PASV, PORT, and the transfers that use    *)
(* and close it), the restore point (REST, APPE), the open file and the    *)
(* socket numbers, which all client threads draw from one pool.            *)
(*                                                                         *)
(* A file is its length in chunks, NoFile if it does not exist; a transfer *)
(* moves one chunk per step.  mishaps records what has gone wrong so far,  *)
(* so that a property can say under which of them it holds:                *)
(*   "refused"    a RETR, STOR or APPE whose file cannot be opened: 550    *)
(*   "no_memory"  the same, because its buffer cannot be allocated         *)
(*   "no_write"   a write to the file failed (the card is full)            *)
(*   "again"      PASV or PORT although a data connection is set up        *)
(*   "bare"       a transfer without PASV or PORT before it                *)
(*   "drop"       the client goes away between PASV and its transfer       *)
(***************************************************************************)
EXTENDS Integers, FiniteSets

CONSTANTS Clients, Files,
          Fds, NoFd,      \* the socket numbers, and a negative one
          Garbage,        \* what an uninitialised socket number may hold
          MaxLength       \* bound: chunks in a file

NoFile == -1
NoRest == -1
None   == "none"

ASSUME NoFdIsNone == NoFd \notin Fds
ASSUME GarbageIsFds == Garbage \subseteq Fds \cup {NoFd} /\ Garbage # {}
ASSUME MaxLengthIsNat == MaxLength \in Nat
ASSUME NoneIsNoClient == None \notin Clients

VARIABLES
    \* ftpvita_client_info_t, one per client
    pc,             \* "gone", "idle" between commands, or inside a transfer
    ctrlFd, dataFd, pasvFd, conType, restorePoint,
    \* the locals of the transfer in progress
    op,             \* "send", "receive" or "list"
    file, position, \* the file and the offset read from
    \* the world
    owner,          \* of each open socket number
    size,           \* of each file
    handles,        \* open file handles nobody closed yet, per client
    \* history, for the properties
    asked,          \* offset of a REST that holds for the next transfer
    expected,       \* RETR: chunks due; STOR: the file's length due
    moved,          \* chunks moved
    mishaps         \* see above

conVars  == <<ctrlFd, dataFd, pasvFd, conType, owner>>
fileVars == <<op, file, position, size, handles>>
history  == <<asked, expected, moved, mishaps>>
vars == <<pc, conVars, restorePoint, fileVars, history>>

Transferring == {"connect", "transfer", "close"}

TypeOK ==
    /\ pc \in [Clients -> {"gone", "idle"} \cup Transferring]
    /\ ctrlFd \in [Clients -> Fds \cup {NoFd}]
    /\ dataFd \in [Clients -> Fds \cup {NoFd}] /\ pasvFd \in [Clients -> Fds \cup {NoFd}]
    /\ conType \in [Clients -> {"NONE", "ACTIVE", "PASSIVE"}]
    /\ restorePoint \in [Clients -> -1..MaxLength]
    /\ op \in [Clients -> {"send", "receive", "list"}]
    /\ file \in [Clients -> Files] /\ position \in [Clients -> 0..MaxLength]
    /\ owner \in [Fds -> Clients \cup {None}]
    /\ size \in [Files -> 0..MaxLength \cup {NoFile}]
    /\ handles \in [Clients -> 0..2]
    /\ asked \in [Clients -> 0..MaxLength \cup {NoRest}]
    /\ expected \in [Clients -> 0..MaxLength] /\ moved \in [Clients -> 0..MaxLength]
    /\ mishaps \subseteq {"refused", "no_memory", "no_write", "again", "bare", "drop"}

Init ==
    /\ pc = [c \in Clients |-> "gone"]
    /\ ctrlFd = [c \in Clients |-> NoFd]
    /\ dataFd = [c \in Clients |-> NoFd] /\ pasvFd = [c \in Clients |-> NoFd]
    /\ conType = [c \in Clients |-> "NONE"]
    /\ restorePoint = [c \in Clients |-> 0]
    /\ op = [c \in Clients |-> "list"]
    /\ file \in [Clients -> Files] /\ position = [c \in Clients |-> 0]
    /\ owner = [s \in Fds |-> None]
    /\ size \in [Files -> {NoFile, MaxLength}]
    /\ handles = [c \in Clients |-> 0]
    /\ asked = [c \in Clients |-> NoRest]
    /\ expected = [c \in Clients |-> 0] /\ moved = [c \in Clients |-> 0]
    /\ mishaps = {}

-----------------------------------------------------------------------------
Mishap(m, happens) == mishaps' = IF happens THEN mishaps \cup {m} ELSE mishaps

FreeFds == {s \in Fds : owner[s] = None}

OwnerAfterClosing(closed) == [s \in Fds |-> IF s \in closed THEN None ELSE owner[s]]

\* Mutant: the passive socket is closed whatever the connection type.
DataFdsAlwaysBoth(c) == {dataFd[c], pasvFd[c]}

\* The numbers client_thread and client_close_data_connection close for the
\* data connection: they trust data_con_type, not the sockets.
DataFds(c) == {dataFd[c]} \cup (IF conType[c] = "PASSIVE" THEN {pasvFd[c]} ELSE {})

\* A connection is accepted: the record is malloc'ed, so the socket numbers the
\* server thread does not set hold anything.
Connect(c) ==
    /\ pc[c] = "gone"
    /\ pc' = [pc EXCEPT ![c] = "idle"]
    /\ \E s \in FreeFds : /\ ctrlFd' = [ctrlFd EXCEPT ![c] = s]
                          /\ owner' = [owner EXCEPT ![s] = c]
    /\ \E g \in Garbage : dataFd' = [dataFd EXCEPT ![c] = g]
    /\ \E g \in Garbage : pasvFd' = [pasvFd EXCEPT ![c] = g]
    /\ conType' = [conType EXCEPT ![c] = "NONE"]
    /\ restorePoint' = [restorePoint EXCEPT ![c] = 0]
    /\ asked' = [asked EXCEPT ![c] = NoRest]
    /\ UNCHANGED <<fileVars, expected, moved, mishaps>>

\* The control socket is closed or aborted: client_thread closes its sockets.
Disconnect(c) ==
    /\ pc[c] = "idle"
    /\ Mishap("drop", conType[c] = "PASSIVE")
    /\ pc' = [pc EXCEPT ![c] = "gone"]
    /\ owner' = OwnerAfterClosing({ctrlFd[c]} \cup (IF conType[c] = "NONE" THEN {} ELSE DataFds(c)))
    /\ ctrlFd' = [ctrlFd EXCEPT ![c] = NoFd]
    /\ dataFd' = [dataFd EXCEPT ![c] = NoFd] /\ pasvFd' = [pasvFd EXCEPT ![c] = NoFd]
    /\ conType' = [conType EXCEPT ![c] = "NONE"]
    /\ UNCHANGED <<restorePoint, fileVars, asked, expected, moved>>

\* cmd_PASV_func and cmd_PORT_func: a new data socket, whatever there was before,
\* and if it cannot be had, its negative number.
SetUp(c, type) ==
    /\ pc[c] = "idle"
    /\ Mishap("again", conType[c] # "NONE")
    /\ \/ \E s \in FreeFds : /\ dataFd' = [dataFd EXCEPT ![c] = s]
                             /\ owner' = [owner EXCEPT ![s] = c]
       \/ dataFd' = [dataFd EXCEPT ![c] = NoFd] /\ UNCHANGED owner
    /\ conType' = [conType EXCEPT ![c] = type]
    /\ UNCHANGED <<pc, ctrlFd, pasvFd, restorePoint, fileVars, asked, expected, moved>>

Pasv(c) == SetUp(c, "PASSIVE")
Port(c) == SetUp(c, "ACTIVE")

\* cmd_REST_func
Rest(c, n) ==
    /\ pc[c] = "idle"
    /\ restorePoint' = [restorePoint EXCEPT ![c] = n]
    /\ asked' = [asked EXCEPT ![c] = n]
    /\ UNCHANGED <<pc, conVars, fileVars, expected, moved, mishaps>>

(***************************************************************************)
(* Transfers.  Nobody else has the file open: what sceIoOpen does to a     *)
(* file in use is not known from this code.                                *)
(***************************************************************************)
InUse(f) == \E d \in Clients : pc[d] \in {"connect", "transfer"} /\ op[d] # "list" /\ file[d] = f

\* The file or directory is open: on to client_open_data_connection.  A REST
\* holds for the next file transfer, whether that is refused or not.
Opened(c, o, f) ==
    /\ pc[c] = "idle" /\ pc' = [pc EXCEPT ![c] = "connect"]
    /\ op' = [op EXCEPT ![c] = o] /\ file' = [file EXCEPT ![c] = f]
    /\ handles' = [handles EXCEPT ![c] = @ + 1]
    /\ moved' = [moved EXCEPT ![c] = 0]
    /\ asked' = IF o = "list" THEN asked ELSE [asked EXCEPT ![c] = NoRest]
    /\ Mishap("bare", conType[c] = "NONE")

\* cmd_LIST_func, cmd_RETR_func, cmd_STOR_func and cmd_APPE_func as far as the
\* opening of the file.
List(c) ==
    /\ Opened(c, "list", file[c])
    /\ UNCHANGED <<conVars, restorePoint, size, position, expected>>

Retr(c, f) ==
    /\ ~InUse(f) /\ size[f] # NoFile
    /\ Opened(c, "send", f)
    /\ LET start == IF restorePoint[c] < 0 THEN 0 ELSE restorePoint[c]
           due == size[f] - (IF asked[c] = NoRest THEN 0 ELSE asked[c])
       IN /\ position' = [position EXCEPT ![c] = start]
          /\ expected' = [expected EXCEPT ![c] = IF due > 0 THEN due ELSE 0]
    /\ UNCHANGED <<conVars, restorePoint, size>>

Length(f) == IF size[f] = NoFile THEN 0 ELSE size[f]

\* receive_file: append if there is a restore point, else overwrite; resumes
\* says what the client wants.
Receive(c, f, restore, resumes) ==
    /\ ~InUse(f)
    /\ Opened(c, "receive", f)
    /\ size' = [size EXCEPT ![f] = IF restore # 0 THEN Length(f) ELSE 0]
    /\ expected' = [expected EXCEPT ![c] = IF resumes THEN Length(f) ELSE 0]
    /\ UNCHANGED <<conVars, position>>

Stor(c, f) ==
    /\ Receive(c, f, restorePoint[c], asked[c] \notin {NoRest, 0})
    /\ UNCHANGED restorePoint

Appe(c, f) ==
    /\ Receive(c, f, -1, TRUE)
    /\ restorePoint' = [restorePoint EXCEPT ![c] = -1]

\* The file transfers answered "550" return at once: the file cannot be opened,
\* or, with the file open by then, there is no memory for the buffer.  APPE has
\* set the restore point already.  A LIST answered "550" changes nothing.
Refused(c) ==
    /\ pc[c] = "idle"
    /\ UNCHANGED restorePoint \/ restorePoint' = [restorePoint EXCEPT ![c] = -1]
    /\ asked' = [asked EXCEPT ![c] = NoRest]
    /\ \/ UNCHANGED handles /\ Mishap("refused", TRUE)
       \/ handles[c] = 0 /\ handles' = [handles EXCEPT ![c] = 1] /\ Mishap("no_memory", TRUE)
    /\ UNCHANGED <<pc, conVars, op, file, position, size, expected, moved>>

\* client_open_data_connection: connect (its result is ignored), or accept on
\* whatever socket the number stands for, which may fail or be aborted.
OpenConnection(c) ==
    /\ pc[c] = "connect"
    /\ pc' = [pc EXCEPT ![c] = "transfer"]
    /\ IF conType[c] = "ACTIVE"
       THEN UNCHANGED <<pasvFd, owner>>
       ELSE \/ /\ dataFd[c] \in Fds /\ owner[dataFd[c]] # None
               /\ \E s \in FreeFds : /\ pasvFd' = [pasvFd EXCEPT ![c] = s]
                                     /\ owner' = [owner EXCEPT ![s] = c]
            \/ pasvFd' = [pasvFd EXCEPT ![c] = NoFd] /\ UNCHANGED owner
    /\ UNCHANGED <<ctrlFd, dataFd, conType, restorePoint, fileVars, history>>

\* One round of the loop of send_file or receive_file.
Move(c) ==
    /\ pc[c] = "transfer"
    /\ moved' = [moved EXCEPT ![c] = @ + 1]
    /\ \/ /\ op[c] = "send" /\ position[c] < size[file[c]]
          /\ position' = [position EXCEPT ![c] = @ + 1]
          /\ UNCHANGED <<size, expected, mishaps>>
       \/ /\ op[c] = "receive" /\ size[file[c]] < MaxLength /\ expected[c] < MaxLength
          /\ expected' = [expected EXCEPT ![c] = @ + 1]
          /\ \/ size' = [size EXCEPT ![file[c]] = @ + 1] /\ UNCHANGED mishaps
             \/ Mishap("no_write", TRUE) /\ UNCHANGED size
          /\ UNCHANGED position
    /\ UNCHANGED <<pc, conVars, restorePoint, op, file, handles, asked>>

\* Mutant: the restore point survives the transfer.
FinishKeepsRestorePoint(c) ==
    /\ pc[c] = "transfer"
    /\ pc' = [pc EXCEPT ![c] = "close"]
    /\ handles' = [handles EXCEPT ![c] = @ - 1]
    /\ UNCHANGED restorePoint
    /\ \/ op[c] = "send" /\ position[c] >= size[file[c]] /\ UNCHANGED size
       \/ op[c] \in {"list", "receive"} /\ UNCHANGED size
       \/ op[c] = "receive" /\ size' = [size EXCEPT ![file[c]] = NoFile]
    /\ op' = [op EXCEPT ![c] = "list"] /\ position' = [position EXCEPT ![c] = 0]
    /\ expected' = [expected EXCEPT ![c] = 0] /\ moved' = [moved EXCEPT ![c] = 0]
    /\ UNCHANGED <<conVars, file, asked, mishaps>>

\* Mutant: the file is closed twice.
FinishClosesTwice(c) ==
    /\ pc[c] = "transfer"
    /\ pc' = [pc EXCEPT ![c] = "close"]
    /\ handles' = [handles EXCEPT ![c] = @ - 2]
    /\ restorePoint' = IF op[c] = "list" THEN restorePoint ELSE [restorePoint EXCEPT ![c] = 0]
    /\ \/ op[c] = "send" /\ position[c] >= size[file[c]] /\ UNCHANGED size
       \/ op[c] \in {"list", "receive"} /\ UNCHANGED size
       \/ op[c] = "receive" /\ size' = [size EXCEPT ![file[c]] = NoFile]
    /\ op' = [op EXCEPT ![c] = "list"] /\ position' = [position EXCEPT ![c] = 0]
    /\ expected' = [expected EXCEPT ![c] = 0] /\ moved' = [moved EXCEPT ![c] = 0]
    /\ UNCHANGED <<conVars, file, asked, mishaps>>

\* The loop ends: the file is closed, the restore point cleared, the reply sent.
\* An upload whose connection broke is removed.  The locals are gone with it.
Finish(c) ==
    /\ pc[c] = "transfer"
    /\ pc' = [pc EXCEPT ![c] = "close"]
    /\ handles' = [handles EXCEPT ![c] = @ - 1]
    /\ restorePoint' = IF op[c] = "list" THEN restorePoint ELSE [restorePoint EXCEPT ![c] = 0]
    /\ \/ op[c] = "send" /\ position[c] >= size[file[c]] /\ UNCHANGED size
       \/ op[c] \in {"list", "receive"} /\ UNCHANGED size
       \/ op[c] = "receive" /\ size' = [size EXCEPT ![file[c]] = NoFile]
    /\ op' = [op EXCEPT ![c] = "list"] /\ position' = [position EXCEPT ![c] = 0]
    /\ expected' = [expected EXCEPT ![c] = 0] /\ moved' = [moved EXCEPT ![c] = 0]
    /\ UNCHANGED <<conVars, file, asked, mishaps>>

\* Mutant: data_con_type is cleared before it is looked at.
CloseConnectionTypeFirst(c) ==
    /\ pc[c] = "close"
    /\ pc' = [pc EXCEPT ![c] = "idle"]
    /\ owner' = OwnerAfterClosing({dataFd[c]})
    /\ conType' = [conType EXCEPT ![c] = "NONE"]
    /\ UNCHANGED <<ctrlFd, dataFd, pasvFd, restorePoint, fileVars, history>>

\* client_close_data_connection, and back to waiting for a command.
CloseConnection(c) ==
    /\ pc[c] = "close"
    /\ pc' = [pc EXCEPT ![c] = "idle"]
    /\ owner' = OwnerAfterClosing(DataFds(c))
    /\ conType' = [conType EXCEPT ![c] = "NONE"]
    /\ UNCHANGED <<ctrlFd, dataFd, pasvFd, restorePoint, fileVars, history>>

\* cmd_DELE_func
Dele(c, f) ==
    /\ pc[c] = "idle" /\ ~InUse(f)
    /\ size' = [size EXCEPT ![f] = NoFile]
    /\ UNCHANGED <<pc, conVars, restorePoint, op, file, position, handles, history>>

ClientNext(c) ==
    \/ Connect(c) \/ Disconnect(c) \/ Pasv(c) \/ Port(c)
    \/ \E n \in 0..MaxLength : Rest(c, n)
    \/ List(c)
    \/ \E f \in Files : Retr(c, f) \/ Stor(c, f) \/ Appe(c, f) \/ Dele(c, f)
    \/ Refused(c) \/ OpenConnection(c) \/ Move(c) \/ Finish(c) \/ CloseConnection(c)

Next == \E c \in Clients : ClientNext(c)

Spec == Init /\ [][Next]_vars

-----------------------------------------------------------------------------
\* The open sockets and files are those some client still knows to be its own:
\* its control socket, the data sockets data_con_type tells it to close, and the
\* file of the transfer in progress.
NothingLeaks ==
    /\ \A s \in Fds : owner[s] # None =>
         LET c == owner[s]
         IN /\ pc[c] # "gone"
            /\ \/ s = ctrlFd[c]
               \/ s = dataFd[c] /\ conType[c] # "NONE"
               \/ s = pasvFd[c] /\ conType[c] = "PASSIVE" /\ pc[c] \in {"transfer", "close"}
    /\ \A c \in Clients : handles[c] = IF pc[c] \in {"connect", "transfer"} THEN 1 ELSE 0

\* Nothing leaks before a PASV or PORT finds the data connection set up already
\* (also by one whose transfer was refused), a transfer finds none, or memory runs
\* out.  Each of these does leak: a socket whose number is overwritten, the accepted
\* socket that nothing tells to close, a file.  Refused transfers, full cards and
\* clients that go away do not.
NothingLeaksFromTheOrderly ==
    mishaps \cap {"again", "bare", "no_memory"} = {} => NothingLeaks

\* Although numbers go round among the clients, a socket is closed by nobody but
\* the client that opened it, before one of two things has happened: a transfer
\* without a data connection, which closes data_sockfd whatever data_con_type is,
\* or a client's going away between PASV and the transfer, when it closes the
\* pasv_sockfd of an earlier one.  Both may hit another client's socket.
StrayClosesAreOfTwoKinds ==
    [][mishaps' \cap {"bare", "drop"} = {} =>
           \A s \in Fds : owner[s] # None /\ owner'[s] = None => pc'[owner[s]] # pc[owner[s]]]_vars

\* What a file being stored holds is what the client sent: after STOR nothing
\* of what was there before, after APPE or REST all of it.
StorReplaces ==
    \A c \in Clients :
        pc[c] = "transfer" /\ op[c] = "receive" => size[file[c]] = expected[c]

\* What a file being retrieved still has to give and what it gave add up to
\* what is due: all of it, or what follows the offset REST asked for.
RetrSendsTheRest ==
    \A c \in Clients :
        pc[c] = "transfer" /\ op[c] = "send" =>
            LET left == size[file[c]] - position[c]
            IN moved[c] + (IF left > 0 THEN left ELSE 0) = expected[c]

\* STOR replaces the file whenever the card takes what is written to it ("if we
\* resume broken - append missing part, else - overwrite file").
StorOverwrites == mishaps \subseteq {"refused"} => StorReplaces

\* Both hold of every transfer until one is refused or a write fails.
TransfersFaithful ==
    mishaps \cap {"refused", "no_memory", "no_write"} = {} => StorReplaces /\ RetrSendsTheRest
=============================================================================
