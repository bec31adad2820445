\* A file that cannot be opened is enough.
CONSTANTS
    Clients = {c1}
    Files = {f1, f2}
    Fds = {s1, s2, s3}
    NoFd = NoFd
    Garbage = {NoFd}
    MaxLength = 2
SPECIFICATION Spec
SYMMETRY Symmetry
CONSTRAINT OneMishap
INVARIANT
    StorOverwrites
