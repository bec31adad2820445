\* Two clients share the socket numbers, and a file of up to two chunks.
CONSTANTS
    Clients = {c1, c2}
    Files = {f1}
    Fds = {s1, s2, s3, s4}
    NoFd = NoFd
    Garbage = {NoFd}
    MaxLength = 2
SPECIFICATION Spec
SYMMETRY Symmetry
CONSTRAINT SocketMishaps
INVARIANT
    TypeOK
    NothingLeaksFromTheOrderly
    TransfersFaithful
PROPERTY
    StrayClosesAreOfTwoKinds
