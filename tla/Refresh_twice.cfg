\* Two presses before the first thread raises the flag.
CONSTANTS
    Apps = {a1, a2}
    Patches = {}
    Psms = {}
    AppTemp = AppTemp
    PatchTemp = PatchTemp
    Threads = {r1, r2}
    PowerFails = FALSE
    Nothing = Nothing
SPECIFICATION Spec
SYMMETRY Symmetry
INVARIANT
    RestoresOnError
