-------------------------- MODULE FtpSessionProofs --------------------------
(***************************************************************************)
(* Proofs about FtpSession for any clients, files, socket numbers and      *)
(* lengths, and whatever malloc leaves in a record: types, and, each as    *)
(* long as what its property names has not gone wrong, that nothing leaks, *)
(* that nobody closes another's socket, and that what is transferred is    *)
(* what was asked for.                                                     *)
(***************************************************************************)
EXTENDS FtpSession, TLAPS

(***************************************************************************)
(* Types.  Fits is what the counters need: a file is open in a transfer,   *)
(* and no more chunks have moved than the transfer has got through.        *)
(***************************************************************************)
InTransfer(c) == pc[c] \in {"connect", "transfer"}

Fits ==
    \A c \in Clients :
        IF InTransfer(c)
        THEN /\ handles[c] \in 1..2
             /\ op[c] = "send" => moved[c] <= position[c]
             /\ op[c] = "receive" => moved[c] <= expected[c]
        ELSE handles[c] \in 0..1

TypeInv == TypeOK /\ Fits

LEMMA TypeInit == Init => TypeInv
  BY MaxLengthIsNat DEF Init, TypeInv, TypeOK, Fits, InTransfer, NoFile, NoRest, None

\* The steps that set up and close connections.
LEMMA SocketsType ==
    ASSUME TypeInv, NEW c \in Clients,
           Connect(c) \/ Disconnect(c) \/ Pasv(c) \/ Port(c) \/ OpenConnection(c)
               \/ CloseConnection(c)
    PROVE  TypeInv'
  <1> USE GarbageIsFds, MaxLengthIsNat
      DEF TypeInv, TypeOK, Fits, InTransfer, Transferring, fileVars, history, Mishap
  <1>1. CASE Connect(c)
    BY <1>1 DEF Connect, FreeFds, NoRest
  <1>2. CASE Disconnect(c)
    BY <1>2 DEF Disconnect, OwnerAfterClosing
  <1>3. ASSUME NEW type \in {"PASSIVE", "ACTIVE"}, SetUp(c, type)
        PROVE  TypeInv'
    BY <1>3 DEF SetUp, FreeFds
  <1>4. CASE OpenConnection(c)
    BY <1>4 DEF OpenConnection, FreeFds
  <1>5. CASE CloseConnection(c)
    BY <1>5 DEF CloseConnection, OwnerAfterClosing
  <1>6. QED
    BY <1>1, <1>2, <1>3, <1>4, <1>5 DEF Pasv, Port

\* The steps that open a file, or fail to.
LEMMA OpeningType ==
    ASSUME TypeInv, NEW c \in Clients,
           \/ List(c) \/ Refused(c)
           \/ \E f \in Files : Retr(c, f) \/ Stor(c, f) \/ Appe(c, f)
    PROVE  TypeInv'
  <1> USE MaxLengthIsNat
      DEF TypeInv, TypeOK, Fits, InTransfer, Transferring, conVars, Opened, Mishap, NoRest, NoFile
  <1>1. CASE List(c)
    BY <1>1 DEF List
  <1>2. ASSUME NEW f \in Files, Retr(c, f) PROVE TypeInv'
    BY <1>2 DEF Retr
  <1>3. ASSUME NEW f \in Files PROVE Length(f) \in 0..MaxLength
    BY DEF Length
  <1>4. ASSUME NEW f \in Files, Stor(c, f) PROVE TypeInv'
    <2>1. UNCHANGED restorePoint
      BY <1>4 DEF Stor
    <2>2. /\ size' \in [Files -> 0..MaxLength \cup {NoFile}]
          /\ expected' \in [Clients -> 0..MaxLength]
          /\ \A d \in Clients \ {c} : expected'[d] = expected[d]
      BY <1>3, <1>4 DEF Stor, Receive
    <2>3. TypeOK'
      BY <1>4, <2>1, <2>2 DEF Stor, Receive
    <2>4. Fits'
      BY <1>4, <2>2 DEF Stor, Receive
    <2>5. QED
      BY <2>3, <2>4
  <1>5. ASSUME NEW f \in Files, Appe(c, f) PROVE TypeInv'
    <2>1. restorePoint' = [restorePoint EXCEPT ![c] = -1]
      BY <1>5 DEF Appe
    <2>2. /\ size' \in [Files -> 0..MaxLength \cup {NoFile}]
          /\ expected' \in [Clients -> 0..MaxLength]
          /\ \A d \in Clients \ {c} : expected'[d] = expected[d]
      BY <1>3, <1>5 DEF Appe, Receive
    <2>3. TypeOK'
      BY <1>5, <2>1, <2>2 DEF Appe, Receive
    <2>4. Fits'
      BY <1>5, <2>2 DEF Appe, Receive
    <2>5. QED
      BY <2>3, <2>4
  <1>6. CASE Refused(c)
    <2>1. restorePoint' \in [Clients -> -1..MaxLength]
      BY <1>6 DEF Refused
    <2>2. /\ handles' \in [Clients -> 0..2]
          /\ \A d \in Clients : handles'[d] = handles[d] \/ (d = c /\ handles'[d] = 1)
      BY <1>6 DEF Refused
    <2>3. mishaps' \subseteq {"refused", "no_memory", "no_write", "again", "bare", "drop"}
      BY <1>6 DEF Refused
    <2>4. TypeOK'
      BY <1>6, <2>1, <2>2, <2>3 DEF Refused
    <2>5. Fits'
      BY <1>6, <2>2 DEF Refused
    <2>6. QED
      BY <2>4, <2>5
  <1>7. QED
    BY <1>1, <1>2, <1>4, <1>5, <1>6

\* The rest of a transfer, and the commands without one.
LEMMA MovingType ==
    ASSUME TypeInv, NEW c \in Clients,
           \/ Move(c) \/ Finish(c)
           \/ \E n \in 0..MaxLength : Rest(c, n)
           \/ \E f \in Files : Dele(c, f)
    PROVE  TypeInv'
  <1> USE MaxLengthIsNat
      DEF TypeInv, TypeOK, Fits, InTransfer, Transferring, conVars, history, Mishap, NoFile
  <1>1. CASE Move(c)
    <2>1. file[c] \in Files /\ size[file[c]] \in -1..MaxLength
      BY <1>1
    <2>2. CASE op[c] = "send" /\ position[c] < size[file[c]]
      <3>1. moved[c] + 1 \in 0..MaxLength /\ position[c] + 1 \in 0..MaxLength
        BY <1>1, <2>1, <2>2 DEF Move
      <3>2. UNCHANGED <<size, expected, mishaps>>
        BY <1>1, <2>2 DEF Move
      <3>3. TypeOK'
        BY <1>1, <2>2, <3>1, <3>2 DEF Move
      <3>4. Fits'
        BY <1>1, <2>2, <3>1, <3>2 DEF Move
      <3>5. QED
        BY <3>3, <3>4
    <2>3. CASE op[c] = "receive" /\ size[file[c]] < MaxLength /\ expected[c] < MaxLength
      <3>1. /\ moved[c] + 1 \in 0..MaxLength /\ expected[c] + 1 \in 0..MaxLength
            /\ size[file[c]] + 1 \in 0..MaxLength
        BY <1>1, <2>1, <2>3 DEF Move
      <3>2. \/ UNCHANGED <<size, mishaps>>
            \/ size' = [size EXCEPT ![file[c]] = @ + 1] /\ UNCHANGED mishaps
            \/ UNCHANGED size /\ mishaps' = mishaps \cup {"no_write"}
        BY <1>1, <2>3 DEF Move
      <3>3. /\ expected' = [expected EXCEPT ![c] = @ + 1] /\ UNCHANGED position
        BY <1>1, <2>3 DEF Move
      <3>4. size' \in [Files -> 0..MaxLength \cup {NoFile}]
        BY <2>1, <3>1, <3>2
      <3>5. mishaps' \subseteq {"refused", "no_memory", "no_write", "again", "bare", "drop"}
        BY <3>2
      <3>6. TypeOK'
        BY <1>1, <2>3, <3>1, <3>3, <3>4, <3>5 DEF Move
      <3>7. Fits'
        BY <1>1, <2>3, <3>1, <3>3 DEF Move
      <3>8. QED
        BY <3>6, <3>7
    <2>4. QED
      BY <1>1, <2>2, <2>3 DEF Move
  <1>2. CASE Finish(c)
    BY <1>2 DEF Finish
  <1>3. CASE \E n \in 0..MaxLength : Rest(c, n)
    BY <1>3 DEF Rest, fileVars
  <1>4. CASE \E f \in Files : Dele(c, f)
    BY <1>4 DEF Dele
  <1>5. QED
    BY <1>1, <1>2, <1>3, <1>4

LEMMA TypeStep == TypeInv /\ [Next]_vars => TypeInv'
  <1> SUFFICES ASSUME TypeInv, [Next]_vars PROVE TypeInv'
    OBVIOUS
  <1>1. ASSUME NEW c \in Clients, ClientNext(c) PROVE TypeInv'
    BY <1>1, SocketsType, OpeningType, MovingType DEF ClientNext
  <1>2. CASE UNCHANGED vars
    BY <1>2 DEF TypeInv, TypeOK, Fits, InTransfer, vars, conVars, fileVars, history
  <1>3. QED
    BY <1>1, <1>2 DEF Next

\* Every variable keeps its type.
THEOREM TypeCorrect == Spec => []TypeOK
  <1>1. TypeInv => TypeOK
    BY DEF TypeInv
  <1>2. QED
    BY TypeInit, TypeStep, <1>1, PTL DEF Spec

-----------------------------------------------------------------------------
(***************************************************************************)
(* A step of a client changes that client's record and nobody else's, and  *)
(* what has gone wrong stays gone wrong.                                   *)
(***************************************************************************)
Same(d) ==
    /\ pc'[d] = pc[d] /\ ctrlFd'[d] = ctrlFd[d] /\ dataFd'[d] = dataFd[d] /\ pasvFd'[d] = pasvFd[d]
    /\ conType'[d] = conType[d] /\ restorePoint'[d] = restorePoint[d]
    /\ op'[d] = op[d] /\ file'[d] = file[d] /\ position'[d] = position[d]
    /\ handles'[d] = handles[d]
    /\ asked'[d] = asked[d] /\ expected'[d] = expected[d] /\ moved'[d] = moved[d]

LEMMA OthersSame ==
    ASSUME TypeOK, NEW c \in Clients, ClientNext(c), NEW d \in Clients, d # c
    PROVE  Same(d)
  <1> USE DEF TypeOK, Same, conVars, fileVars, history
  <1>1. CASE Connect(c) \/ Disconnect(c) \/ OpenConnection(c) \/ CloseConnection(c)
    BY <1>1 DEF Connect, Disconnect, OpenConnection, CloseConnection
  <1>2. CASE Pasv(c) \/ Port(c)
    BY <1>2 DEF Pasv, Port, SetUp
  <1>3. CASE List(c) \/ \E f \in Files : Retr(c, f)
    BY <1>3 DEF List, Retr, Opened
  <1>4. CASE \E f \in Files : Stor(c, f) \/ Appe(c, f)
    BY <1>4 DEF Stor, Appe, Receive, Opened
  <1>5. CASE Refused(c)
    BY <1>5 DEF Refused
  <1>6. CASE Move(c)
    BY <1>6 DEF Move
  <1>7. CASE Finish(c)
    BY <1>7 DEF Finish
  <1>8. CASE (\E n \in 0..MaxLength : Rest(c, n)) \/ \E f \in Files : Dele(c, f)
    BY <1>8 DEF Rest, Dele
  <1>9. QED
    BY <1>1, <1>2, <1>3, <1>4, <1>5, <1>6, <1>7, <1>8 DEF ClientNext

LEMMA MishapsStay ==
    ASSUME NEW c \in Clients, ClientNext(c)
    PROVE  mishaps \subseteq mishaps'
  BY DEF ClientNext, Connect, Disconnect, Pasv, Port, SetUp, Rest, List, Retr, Stor, Appe, Receive,
         Opened, Refused, OpenConnection, Move, Finish, CloseConnection, Dele, Mishap, history

-----------------------------------------------------------------------------
(***************************************************************************)
(* Whose sockets: what a client's record tells it to close is open and its *)
(* own.                                                                    *)
(***************************************************************************)
Orderly == mishaps \cap {"bare", "drop"} = {}

Owns(c) ==
    /\ pc[c] = "gone" => conType[c] = "NONE"
    /\ pc[c] \in Transferring => conType[c] # "NONE"
    /\ pc[c] # "gone" => ctrlFd[c] \in Fds /\ owner[ctrlFd[c]] = c
    /\ conType[c] # "NONE" =>
         dataFd[c] = NoFd \/ (dataFd[c] \in Fds /\ owner[dataFd[c]] = c /\ dataFd[c] # ctrlFd[c])
    /\ pc[c] \in {"transfer", "close"} /\ conType[c] = "PASSIVE" =>
         pasvFd[c] = NoFd \/ (pasvFd[c] \in Fds /\ owner[pasvFd[c]] = c /\ pasvFd[c] # ctrlFd[c])

OwnInv == Orderly => \A c \in Clients : Owns(c)

\* The steps that touch no socket.
NoSocketStep(c) ==
    \/ List(c) \/ Refused(c) \/ Move(c) \/ Finish(c)
    \/ \E n \in 0..MaxLength : Rest(c, n)
    \/ \E f \in Files : Retr(c, f) \/ Stor(c, f) \/ Appe(c, f) \/ Dele(c, f)

LEMMA NoSocket ==
    ASSUME TypeOK, NEW c \in Clients, NoSocketStep(c), "bare" \notin mishaps'
    PROVE  /\ UNCHANGED conVars
           /\ pc'[c] \in Transferring => pc[c] \in Transferring \/ conType[c] # "NONE"
           /\ pc'[c] = "gone" <=> pc[c] = "gone"
           /\ pc'[c] \in {"transfer", "close"} <=> pc[c] \in {"transfer", "close"}
  <1> USE DEF TypeOK, Transferring, Mishap, conVars
  <1>1. CASE List(c) \/ \E f \in Files : Retr(c, f)
    BY <1>1 DEF List, Retr, Opened
  <1>2. CASE \E f \in Files : Stor(c, f) \/ Appe(c, f)
    BY <1>2 DEF Stor, Appe, Receive, Opened
  <1>3. CASE Refused(c) \/ (\E n \in 0..MaxLength : Rest(c, n)) \/ \E f \in Files : Dele(c, f)
    BY <1>3 DEF Refused, Rest, Dele
  <1>4. CASE Move(c) \/ Finish(c)
    BY <1>4 DEF Move, Finish
  <1>5. QED
    BY <1>1, <1>2, <1>3, <1>4 DEF NoSocketStep

\* Nobody but c loses a socket.
LEMMA OthersKeepSockets ==
    ASSUME TypeOK, NEW c \in Clients, Owns(c), ClientNext(c), Orderly', NEW s \in Fds
    PROVE  owner[s] # c /\ owner[s] # None => owner'[s] = owner[s]
  <1> USE NoneIsNoClient DEF TypeOK, FreeFds
  <1>1. CASE Connect(c)
    BY <1>1 DEF Connect
  <1>2. CASE Disconnect(c)
    BY <1>2, NoFdIsNone DEF Disconnect, OwnerAfterClosing, Owns, DataFds, Orderly, Mishap
  <1>3. CASE Pasv(c) \/ Port(c)
    BY <1>3 DEF Pasv, Port, SetUp
  <1>4. CASE OpenConnection(c)
    BY <1>4 DEF OpenConnection
  <1>5. CASE CloseConnection(c)
    BY <1>5, NoFdIsNone DEF CloseConnection, OwnerAfterClosing, Owns, DataFds, Transferring
  <1>6. CASE NoSocketStep(c)
    BY <1>6, NoSocket DEF conVars, Orderly
  <1>7. QED
    BY <1>1, <1>2, <1>3, <1>4, <1>5, <1>6 DEF ClientNext, NoSocketStep

LEMMA OwnsStep ==
    ASSUME TypeOK, TypeOK', NEW c \in Clients, Owns(c), ClientNext(c), Orderly'
    PROVE  Owns(c)'
  <1> USE NoneIsNoClient DEF TypeOK, FreeFds, Owns, Transferring
  <1>1. CASE Connect(c)
    BY <1>1 DEF Connect
  <1>2. CASE Disconnect(c)
    BY <1>2 DEF Disconnect
  <1>3. CASE Pasv(c) \/ Port(c)
    BY <1>3 DEF Pasv, Port, SetUp
  <1>4. CASE OpenConnection(c)
    BY <1>4 DEF OpenConnection
  <1>5. CASE CloseConnection(c)
    BY <1>5, NoFdIsNone DEF CloseConnection, OwnerAfterClosing, DataFds
  <1>6. CASE NoSocketStep(c)
    BY <1>6, NoSocket DEF conVars, Orderly
  <1>7. QED
    BY <1>1, <1>2, <1>3, <1>4, <1>5, <1>6 DEF ClientNext, NoSocketStep

LEMMA OwnStep == TypeOK /\ TypeOK' /\ OwnInv /\ [Next]_vars => OwnInv'
  <1> SUFFICES ASSUME TypeOK, TypeOK', OwnInv, [Next]_vars, Orderly', NEW d \in Clients
               PROVE  Owns(d)'
    BY DEF OwnInv
  <1>1. ASSUME NEW c \in Clients, ClientNext(c) PROVE Owns(d)'
    <2>1. Owns(c) /\ Owns(d)
      BY <1>1, MishapsStay DEF OwnInv, Orderly
    <2>2. CASE d = c
      BY <1>1, <2>1, <2>2, OwnsStep
    <2>3. CASE d # c
      <3>1. Same(d)
        BY <1>1, <2>3, OthersSame
      <3>2. \A s \in Fds : owner[s] = d => owner'[s] = d
        BY <1>1, <2>1, <2>3, OthersKeepSockets, NoneIsNoClient
      <3>3. QED
        BY <2>1, <3>1, <3>2 DEF Same, Owns
    <2>4. QED
      BY <2>2, <2>3
  <1>2. CASE UNCHANGED vars
    <2>1. Owns(d)
      BY <1>2 DEF OwnInv, Orderly, vars, history
    <2>2. QED
      BY <1>2, <2>1 DEF Owns, vars, conVars
  <1>3. QED
    BY <1>1, <1>2 DEF Next

LEMMA OwnInit == Init => OwnInv
  BY DEF Init, OwnInv, Owns, Transferring

\* Only the ends of a client and of its data connection close sockets.
LEMMA ClosingMoves ==
    ASSUME TypeOK, NEW c \in Clients, ClientNext(c), Orderly',
           NEW s \in Fds, owner[s] # None, owner'[s] = None
    PROVE  pc'[c] # pc[c]
  <1> USE NoneIsNoClient DEF TypeOK, FreeFds
  <1>1. CASE Connect(c) \/ Disconnect(c) \/ CloseConnection(c) \/ OpenConnection(c)
    BY <1>1 DEF Connect, Disconnect, CloseConnection, OpenConnection
  <1>2. CASE Pasv(c) \/ Port(c)
    BY <1>2 DEF Pasv, Port, SetUp
  <1>3. CASE NoSocketStep(c)
    BY <1>3, NoSocket DEF conVars, Orderly
  <1>4. QED
    BY <1>1, <1>2, <1>3 DEF ClientNext, NoSocketStep

\* Nobody closes another client's socket before a transfer without a data
\* connection or a client's going away after PASV, for any number of clients and
\* sockets.
THEOREM NoOtherStrayCloses == Spec => StrayClosesAreOfTwoKinds
  <1>1. TypeOK /\ OwnInv /\ [Next]_vars =>
            [mishaps' \cap {"bare", "drop"} = {} =>
                \A s \in Fds : owner[s] # None /\ owner'[s] = None => pc'[owner[s]] # pc[owner[s]]]_vars
    <2> SUFFICES ASSUME TypeOK, OwnInv, NEW c \in Clients, ClientNext(c), Orderly',
                        NEW s \in Fds, owner[s] # None, owner'[s] = None
                 PROVE  pc'[owner[s]] # pc[owner[s]]
      BY DEF Next, Orderly
    <2>1. Owns(c)
      BY MishapsStay DEF OwnInv, Orderly
    <2>2. owner[s] = c
      BY <2>1, OthersKeepSockets
    <2>3. QED
      BY <2>2, ClosingMoves
  <1>2. TypeInv => TypeOK
    BY DEF TypeInv
  <1>3. QED
    BY TypeInit, TypeStep, OwnInit, OwnStep, <1>1, <1>2, PTL DEF Spec, StrayClosesAreOfTwoKinds

-----------------------------------------------------------------------------
(***************************************************************************)
(* Leaks: every open socket is one its owner's record tells it to close.   *)
(***************************************************************************)
Tidy == mishaps \cap {"again", "bare", "no_memory"} = {}

Known(c, s) ==
    /\ pc[c] # "gone"
    /\ \/ s = ctrlFd[c]
       \/ s = dataFd[c] /\ conType[c] # "NONE"
       \/ s = pasvFd[c] /\ conType[c] = "PASSIVE" /\ pc[c] \in {"transfer", "close"}

Opens(c) ==
    /\ pc[c] \in Transferring => conType[c] # "NONE"
    /\ handles[c] = IF pc[c] \in {"connect", "transfer"} THEN 1 ELSE 0
    /\ \A s \in Fds : owner[s] = c => Known(c, s)

LeakInv == Tidy => \A c \in Clients : Opens(c)

LEMMA LeakInit == Init => LeakInv
  <1> SUFFICES ASSUME Init, NEW c \in Clients PROVE Opens(c)
    BY DEF LeakInv
  <1>1. \A s \in Fds : owner[s] # c
    BY NoneIsNoClient DEF Init
  <1>2. QED
    BY <1>1 DEF Init, Opens, Transferring

LEMMA HandlesStep ==
    ASSUME TypeOK, NEW c \in Clients, Opens(c), ClientNext(c), Tidy'
    PROVE  handles'[c] = IF pc'[c] \in {"connect", "transfer"} THEN 1 ELSE 0
  <1> USE DEF TypeOK, Opens, Tidy, Mishap, fileVars, history
  <1>1. CASE Connect(c) \/ Disconnect(c) \/ OpenConnection(c) \/ CloseConnection(c)
    BY <1>1 DEF Connect, Disconnect, OpenConnection, CloseConnection
  <1>2. CASE Pasv(c) \/ Port(c) \/ (\E n \in 0..MaxLength : Rest(c, n)) \/ \E f \in Files : Dele(c, f)
    BY <1>2 DEF Pasv, Port, SetUp, Rest, Dele
  <1>3. CASE List(c) \/ \E f \in Files : Retr(c, f) \/ Stor(c, f) \/ Appe(c, f)
    BY <1>3 DEF List, Retr, Stor, Appe, Receive, Opened
  <1>4. CASE Refused(c)
    BY <1>4 DEF Refused
  <1>5. CASE Move(c) \/ Finish(c)
    BY <1>5 DEF Move, Finish
  <1>6. QED
    BY <1>1, <1>2, <1>3, <1>4, <1>5 DEF ClientNext

LEMMA OpensStep ==
    ASSUME TypeOK, TypeOK', NEW c \in Clients, Opens(c), ClientNext(c), Tidy'
    PROVE  Opens(c)'
  <1>1. handles'[c] = IF pc'[c] \in {"connect", "transfer"} THEN 1 ELSE 0
    BY HandlesStep
  <1> SUFFICES /\ pc'[c] \in Transferring => conType'[c] # "NONE"
               /\ \A s \in Fds : owner'[s] = c => Known(c, s)'
    BY <1>1 DEF Opens
  <1> USE NoneIsNoClient DEF TypeOK, FreeFds, Opens, Known, Transferring, Tidy, Mishap
  <1>2. CASE Connect(c)
    BY <1>2 DEF Connect
  <1>3. CASE Disconnect(c)
    BY <1>3 DEF Disconnect, OwnerAfterClosing, DataFds
  <1>4. CASE Pasv(c) \/ Port(c)
    BY <1>4 DEF Pasv, Port, SetUp
  <1>5. CASE OpenConnection(c)
    BY <1>5 DEF OpenConnection
  <1>6. CASE CloseConnection(c)
    BY <1>6 DEF CloseConnection, OwnerAfterClosing, DataFds
  <1>7. CASE NoSocketStep(c)
    <2>1. "bare" \notin mishaps'
      OBVIOUS
    <2>2. QED
      BY <1>7, <2>1, NoSocket DEF conVars
  <1>8. QED
    BY <1>2, <1>3, <1>4, <1>5, <1>6, <1>7 DEF ClientNext, NoSocketStep

\* A step of c gives no socket to anybody else.
LEMMA OthersGetNone ==
    ASSUME TypeOK, NEW c \in Clients, ClientNext(c), "bare" \notin mishaps',
           NEW s \in Fds, owner'[s] # c, owner'[s] # None
    PROVE  owner'[s] = owner[s]
  <1> USE NoneIsNoClient DEF TypeOK, FreeFds
  <1>1. CASE Connect(c) \/ Disconnect(c)
    BY <1>1 DEF Connect, Disconnect, OwnerAfterClosing
  <1>2. CASE Pasv(c) \/ Port(c) \/ OpenConnection(c)
    BY <1>2 DEF Pasv, Port, SetUp, OpenConnection
  <1>3. CASE CloseConnection(c)
    BY <1>3 DEF CloseConnection, OwnerAfterClosing
  <1>4. CASE NoSocketStep(c)
    BY <1>4, NoSocket DEF conVars
  <1>5. QED
    BY <1>1, <1>2, <1>3, <1>4 DEF ClientNext, NoSocketStep

LEMMA LeakStep == TypeOK /\ TypeOK' /\ LeakInv /\ [Next]_vars => LeakInv'
  <1> SUFFICES ASSUME TypeOK, TypeOK', LeakInv, [Next]_vars, Tidy', NEW d \in Clients
               PROVE  Opens(d)'
    BY DEF LeakInv
  <1>1. ASSUME NEW c \in Clients, ClientNext(c) PROVE Opens(d)'
    <2>1. Opens(c) /\ Opens(d)
      BY <1>1, MishapsStay DEF LeakInv, Tidy
    <2>2. CASE d = c
      BY <1>1, <2>1, <2>2, OpensStep
    <2>3. CASE d # c
      <3>1. Same(d)
        BY <1>1, <2>3, OthersSame
      <3>2. "bare" \notin mishaps'
        BY DEF Tidy
      <3>3. \A s \in Fds : owner'[s] = d => owner[s] = d
        BY <1>1, <2>3, <3>2, OthersGetNone, NoneIsNoClient
      <3>4. QED
        BY <2>1, <3>1, <3>3 DEF Same, Opens, Known
    <2>4. QED
      BY <2>2, <2>3
  <1>2. CASE UNCHANGED vars
    <2>1. Opens(d)
      BY <1>2 DEF LeakInv, Tidy, vars, history
    <2>2. QED
      BY <1>2, <2>1 DEF Opens, Known, vars, conVars, fileVars
  <1>3. QED
    BY <1>1, <1>2 DEF Next

\* No socket and no file leaks before a data connection is set up on top of
\* another, a transfer has none, or memory runs out, for any number of clients and
\* sockets, and even if sockets cannot be had, transfers are refused, the card is
\* full or clients go away.
THEOREM OrderlyLeaksNothing == Spec => []NothingLeaksFromTheOrderly
  <1>1. TypeOK /\ LeakInv => NothingLeaksFromTheOrderly
    <2> SUFFICES ASSUME TypeOK, LeakInv, Tidy PROVE NothingLeaks
      BY DEF NothingLeaksFromTheOrderly, Tidy
    <2>1. \A c \in Clients : Opens(c)
      BY DEF LeakInv
    <2>2. ASSUME NEW s \in Fds, owner[s] # None PROVE owner[s] \in Clients /\ Known(owner[s], s)
      BY <2>1, <2>2 DEF TypeOK, Opens
    <2>3. QED
      BY <2>1, <2>2 DEF NothingLeaks, Known, Opens
  <1>2. TypeInv => TypeOK
    BY DEF TypeInv
  <1>3. QED
    BY TypeInit, TypeStep, LeakInit, LeakStep, <1>1, <1>2, PTL DEF Spec

-----------------------------------------------------------------------------
(***************************************************************************)
(* Transfers: the restore point is what was asked for, a file is used by   *)
(* one transfer at a time, and what was moved and what is left add up.     *)
(***************************************************************************)
Calm == mishaps \cap {"refused", "no_memory", "no_write"} = {}

Uses(c) == InTransfer(c) /\ op[c] # "list"

Left(c) == LET left == size[file[c]] - position[c] IN IF left > 0 THEN left ELSE 0

RestoreIsAsked(c) ==
    IF Uses(c) THEN asked[c] = NoRest
    ELSE restorePoint[c] = IF asked[c] = NoRest THEN 0 ELSE asked[c]

AddsUp(c) ==
    /\ InTransfer(c) /\ op[c] = "receive" => size[file[c]] = expected[c]
    /\ InTransfer(c) /\ op[c] = "send" => moved[c] + Left(c) = expected[c]

OneUser == \A c, d \in Clients : c # d /\ Uses(c) /\ Uses(d) => file[c] # file[d]

FaithInv == Calm => OneUser /\ \A c \in Clients : RestoreIsAsked(c) /\ AddsUp(c)

LEMMA FaithInit == Init => FaithInv
  BY DEF Init, FaithInv, OneUser, RestoreIsAsked, AddsUp, Uses, InTransfer, NoRest

\* A file is taken into use only if nobody uses it.
LEMMA FileChosen ==
    ASSUME TypeOK, NEW c \in Clients, ClientNext(c), Uses(c)'
    PROVE  (Uses(c) /\ file'[c] = file[c]) \/ ~InUse(file'[c])
  <1> USE DEF TypeOK, Uses, InTransfer, fileVars, Transferring
  <1>1. CASE Connect(c) \/ Disconnect(c) \/ OpenConnection(c) \/ CloseConnection(c)
    BY <1>1 DEF Connect, Disconnect, OpenConnection, CloseConnection
  <1>2. CASE Pasv(c) \/ Port(c) \/ (\E n \in 0..MaxLength : Rest(c, n))
    BY <1>2 DEF Pasv, Port, SetUp, Rest
  <1>3. CASE List(c) \/ \E f \in Files : Retr(c, f)
    BY <1>3 DEF List, Retr, Opened
  <1>4. CASE \E f \in Files : Stor(c, f) \/ Appe(c, f)
    BY <1>4 DEF Stor, Appe, Receive, Opened
  <1>5. CASE Refused(c) \/ (\E f \in Files : Dele(c, f))
    BY <1>5 DEF Refused, Dele
  <1>6. CASE Move(c) \/ Finish(c)
    BY <1>6 DEF Move, Finish
  <1>7. QED
    BY <1>1, <1>2, <1>3, <1>4, <1>5, <1>6 DEF ClientNext

\* A file in use changes only by the transfer that uses it.
LEMMA FileKept ==
    ASSUME TypeOK, OneUser, NEW c \in Clients, ClientNext(c), NEW d \in Clients, d # c, Uses(d)
    PROVE  size'[file[d]] = size[file[d]]
  <1>1. file[d] \in Files /\ InUse(file[d])
    BY DEF TypeOK, Uses, InTransfer, InUse
  <1>2. Uses(c) => file[c] # file[d]
    BY DEF OneUser
  <1> USE DEF TypeOK, fileVars
  <1>3. CASE Connect(c) \/ Disconnect(c) \/ OpenConnection(c) \/ CloseConnection(c) \/ Refused(c)
    BY <1>3 DEF Connect, Disconnect, OpenConnection, CloseConnection, Refused
  <1>4. CASE Pasv(c) \/ Port(c) \/ (\E n \in 0..MaxLength : Rest(c, n))
    BY <1>4 DEF Pasv, Port, SetUp, Rest
  <1>5. CASE List(c) \/ \E f \in Files : Retr(c, f)
    BY <1>5 DEF List, Retr
  <1>6. CASE \E f \in Files : Stor(c, f) \/ Appe(c, f) \/ Dele(c, f)
    BY <1>1, <1>6 DEF Stor, Appe, Receive, Dele
  <1>7. CASE Move(c) \/ Finish(c)
    <2>1. size' = size \/ (Uses(c) /\ \E n : size' = [size EXCEPT ![file[c]] = n])
      BY <1>7 DEF Move, Finish, Uses, InTransfer
    <2>2. QED
      BY <1>1, <1>2, <2>1
  <1>8. QED
    BY <1>3, <1>4, <1>5, <1>6, <1>7 DEF ClientNext

LEMMA RestoreStep ==
    ASSUME TypeOK, NEW c \in Clients, RestoreIsAsked(c), ClientNext(c), Calm'
    PROVE  RestoreIsAsked(c)'
  <1> USE DEF TypeOK, RestoreIsAsked, Uses, InTransfer, Calm, Mishap, NoRest, Transferring, fileVars, history
  <1>1. CASE Connect(c) \/ Disconnect(c)
    BY <1>1 DEF Connect, Disconnect
  <1>2. CASE OpenConnection(c) \/ CloseConnection(c)
    BY <1>2 DEF OpenConnection, CloseConnection
  <1>3. CASE Pasv(c) \/ Port(c)
    BY <1>3 DEF Pasv, Port, SetUp
  <1>4. CASE (\E n \in 0..MaxLength : Rest(c, n)) \/ \E f \in Files : Dele(c, f)
    BY <1>4, MaxLengthIsNat DEF Rest, Dele
  <1>5. CASE List(c)
    BY <1>5 DEF List, Opened
  <1>6. CASE \E f \in Files : Retr(c, f)
    BY <1>6 DEF Retr, Opened
  <1>7. CASE \E f \in Files : Stor(c, f) \/ Appe(c, f)
    BY <1>7 DEF Stor, Appe, Receive, Opened
  <1>8. CASE Refused(c)
    BY <1>8 DEF Refused
  <1>9. CASE Move(c)
    BY <1>9 DEF Move
  <1>10. CASE Finish(c)
    BY <1>10 DEF Finish
  <1>11. QED
    BY <1>1, <1>2, <1>3, <1>4, <1>5, <1>6, <1>7, <1>8, <1>9, <1>10 DEF ClientNext

LEMMA AddsUpStep ==
    ASSUME TypeOK, NEW c \in Clients, RestoreIsAsked(c), AddsUp(c), ClientNext(c), Calm'
    PROVE  AddsUp(c)'
  <1> USE DEF TypeOK, AddsUp, InTransfer, Left, Transferring, fileVars, history
  <1>1. CASE Connect(c) \/ Disconnect(c)
    BY <1>1 DEF Connect, Disconnect
  <1>2. CASE OpenConnection(c) \/ CloseConnection(c)
    BY <1>2 DEF OpenConnection, CloseConnection
  <1>3. CASE Pasv(c) \/ Port(c)
    BY <1>3 DEF Pasv, Port, SetUp
  <1>4. CASE (\E n \in 0..MaxLength : Rest(c, n)) \/ \E f \in Files : Dele(c, f)
    BY <1>4 DEF Rest, Dele
  <1>5. CASE List(c) \/ Refused(c)
    BY <1>5 DEF List, Opened, Refused, Calm, Mishap
  <1>6. ASSUME NEW f \in Files, Retr(c, f) PROVE AddsUp(c)'
    <2>1. restorePoint[c] = IF asked[c] = NoRest THEN 0 ELSE asked[c]
      BY <1>6 DEF Retr, Opened, RestoreIsAsked, Uses
    <2>2. /\ position'[c] = restorePoint[c] /\ restorePoint[c] \in Nat
          /\ size[f] \in Nat /\ size'[f] = size[f]
          /\ moved'[c] = 0 /\ op'[c] = "send" /\ file'[c] = f
      BY <1>6, <2>1, MaxLengthIsNat DEF Retr, Opened, NoRest, NoFile
    <2>3. expected'[c] = IF size[f] - restorePoint[c] > 0 THEN size[f] - restorePoint[c] ELSE 0
      BY <1>6, <2>1 DEF Retr
    <2>4. QED
      BY <2>2, <2>3
  <1>7. ASSUME NEW f \in Files, Stor(c, f) \/ Appe(c, f) PROVE AddsUp(c)'
    <2>1. restorePoint[c] = IF asked[c] = NoRest THEN 0 ELSE asked[c]
      BY <1>7 DEF Stor, Appe, Receive, Opened, RestoreIsAsked, Uses
    <2>2. op'[c] = "receive" /\ file'[c] = f
      BY <1>7 DEF Stor, Appe, Receive, Opened
    <2>3. size'[f] = expected'[c]
      BY <1>7, <2>1 DEF Stor, Appe, Receive, NoRest
    <2>4. QED
      BY <2>2, <2>3
  <1>8. CASE Move(c)
    <2>1. CASE op[c] = "send" /\ position[c] < size[file[c]]
      <3>1. /\ moved'[c] = moved[c] + 1 /\ position'[c] = position[c] + 1
            /\ UNCHANGED <<size, expected, file, op>>
        BY <1>8, <2>1 DEF Move
      <3>2. /\ size[file[c]] \in Int /\ position[c] \in Int /\ moved[c] \in Int
            /\ moved[c] + (size[file[c]] - position[c]) = expected[c]
        BY <1>8, <2>1, MaxLengthIsNat DEF Move, NoFile
      <3>3. Left(c)' = size[file[c]] - (position[c] + 1)
        BY <2>1, <3>1, <3>2
      <3>4. moved'[c] + Left(c)' = expected'[c]
        BY <3>1, <3>2, <3>3 DEF AddsUp
      <3>5. QED
        BY <2>1, <3>1, <3>4
    <2>2. CASE op[c] = "receive"
      <3>1. size' = [size EXCEPT ![file[c]] = @ + 1] /\ expected' = [expected EXCEPT ![c] = @ + 1]
        BY <1>8, <2>2 DEF Move, Calm, Mishap
      <3>2. size[file[c]] = expected[c] /\ file[c] \in Files
        BY <1>8, <2>2 DEF Move
      <3>3. size'[file[c]] = expected'[c]
        BY <3>1, <3>2
      <3>4. QED
        BY <1>8, <2>2, <3>3 DEF Move
    <2>3. QED
      BY <1>8, <2>1, <2>2 DEF Move
  <1>9. CASE Finish(c)
    BY <1>9 DEF Finish
  <1>10. QED
    BY <1>1, <1>2, <1>3, <1>4, <1>5, <1>6, <1>7, <1>8, <1>9 DEF ClientNext

LEMMA FaithStep == TypeOK /\ FaithInv /\ [Next]_vars => FaithInv'
  <1> SUFFICES ASSUME TypeOK, FaithInv, [Next]_vars, Calm'
               PROVE  OneUser' /\ \A d \in Clients : RestoreIsAsked(d)' /\ AddsUp(d)'
    BY DEF FaithInv
  <1>1. ASSUME NEW c \in Clients, ClientNext(c)
        PROVE  OneUser' /\ \A d \in Clients : RestoreIsAsked(d)' /\ AddsUp(d)'
    <2>1. OneUser /\ \A d \in Clients : RestoreIsAsked(d) /\ AddsUp(d)
      BY <1>1, MishapsStay DEF FaithInv, Calm
    <2>2. RestoreIsAsked(c)' /\ AddsUp(c)'
      BY <1>1, <2>1, RestoreStep, AddsUpStep
    <2>3. ASSUME NEW d \in Clients, d # c
          PROVE  /\ RestoreIsAsked(d)' /\ AddsUp(d)'
                 /\ Uses(d)' <=> Uses(d)
                 /\ file'[d] = file[d]
      <3>1. Same(d)
        BY <1>1, <2>3, OthersSame
      <3>2. Uses(d) => size'[file[d]] = size[file[d]]
        BY <1>1, <2>1, <2>3, FileKept
      <3>3. /\ Uses(d)' <=> Uses(d)
            /\ InTransfer(d)' <=> InTransfer(d)
        BY <3>1 DEF Same, Uses, InTransfer
      <3>4. AddsUp(d)'
        BY <2>1, <3>1, <3>2, <3>3 DEF Same, Uses, AddsUp, Left
      <3>5. RestoreIsAsked(d)'
        BY <2>1, <3>1, <3>3 DEF Same, RestoreIsAsked
      <3>6. QED
        BY <3>1, <3>3, <3>4, <3>5 DEF Same
    <2>4. Uses(c)' => (Uses(c) /\ file'[c] = file[c]) \/ ~InUse(file'[c])
      BY <1>1, FileChosen
    <2>5. \A d \in Clients : Uses(d) => InUse(file[d])
      BY DEF Uses, InTransfer, InUse
    <2>6. ASSUME NEW d \in Clients, d # c, Uses(c)', Uses(d)' PROVE file'[c] # file'[d]
      <3>1. Uses(d) /\ file'[d] = file[d]
        BY <2>3, <2>6
      <3>2. InUse(file[d])
        BY <2>5, <3>1
      <3>3. CASE Uses(c) /\ file'[c] = file[c]
        BY <2>1, <2>6, <3>1, <3>3 DEF OneUser
      <3>4. CASE ~InUse(file'[c])
        BY <3>1, <3>2, <3>4
      <3>5. QED
        BY <2>4, <2>6, <3>3, <3>4
    <2>7. OneUser'
      <3> SUFFICES ASSUME NEW d \in Clients, NEW e \in Clients, d # e, Uses(d)', Uses(e)'
                   PROVE  file'[d] # file'[e]
        BY DEF OneUser
      <3>1. CASE d = c \/ e = c
        BY <2>6, <3>1
      <3>2. CASE d # c /\ e # c
        BY <2>1, <2>3, <3>2 DEF OneUser
      <3>3. QED
        BY <3>1, <3>2
    <2>8. QED
      BY <2>2, <2>3, <2>7
  <1>2. CASE UNCHANGED vars
    <2>1. OneUser /\ \A d \in Clients : RestoreIsAsked(d) /\ AddsUp(d)
      BY <1>2 DEF FaithInv, Calm, vars, history
    <2>2. QED
      BY <1>2, <2>1 DEF OneUser, RestoreIsAsked, AddsUp, Left, Uses, InTransfer, vars, fileVars, history
  <1>3. QED
    BY <1>1, <1>2 DEF Next

\* Until a transfer is refused or a write fails, a file holds what a STOR, APPE
\* or REST says it should, and a RETR gives what it should, for any number of
\* clients and files of any length.
THEOREM TransfersStayFaithful == Spec => []TransfersFaithful
  <1>1. FaithInv => TransfersFaithful
    BY DEF FaithInv, Calm, TransfersFaithful, StorReplaces, RetrSendsTheRest, AddsUp, Left, InTransfer
  <1>2. TypeInv => TypeOK
    BY DEF TypeInv
  <1>3. QED
    BY TypeInit, TypeStep, FaithInit, FaithStep, <1>1, <1>2, PTL DEF Spec
=============================================================================
