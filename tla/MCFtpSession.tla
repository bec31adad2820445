---------------------------- MODULE MCFtpSession ----------------------------
EXTENDS FtpSession, TLC

\* Clients, files and socket numbers are interchangeable.
Symmetry == Permutations(Clients) \cup Permutations(Files) \cup Permutations(Fds)

\* Bound: kinds of mishap in one behaviour.
OneMishap == Cardinality(mishaps) <= 1

\* Bound: one kind of the mishaps that the properties about sockets allow, after
\* which files are empty and no offset is asked for, and no behaviour is followed any
\* further in which a client has lost its control socket to another.
SocketMishaps ==
    /\ OneMishap /\ mishaps \subseteq {"refused", "again", "drop", "no_write"}
    /\ mishaps # {} =>
           /\ \A f \in Files : size[f] <= 0
           /\ \A c \in Clients : restorePoint[c] <= 0 /\ asked[c] <= 0
    /\ \A c \in Clients : pc[c] # "gone" => owner[ctrlFd[c]] = c
=============================================================================
