\* One client, and whoever else uses its files; directories two deep.
CONSTANTS
    Clients = {c1}
    Devices = {"ux0"}
    Names = {"a", "b"}
    Short = {"ux0"}
    Depth = 3
SPECIFICATION Spec
INVARIANT
    TypeOK
    CurPathIsHere
    ChangesWhatItNamed
