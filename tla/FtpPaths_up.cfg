\* CDUP from a directory entered with a slash at its end.
CONSTANTS
    Clients = {c1}
    Devices = {"ux0"}
    Names = {"a"}
    Short = {"ux0"}
    Depth = 3
SPECIFICATION Spec
INVARIANT
    UpIsUp
