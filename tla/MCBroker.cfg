CONSTANTS
    Objs = {o1, o2, o3}
    Clients = {c1, c2}
    NULL = NULL
    MaxId = 5
SPECIFICATION Spec
SYMMETRY Symmetry
INVARIANTS CursorsInOrder NothingLeftBehind BehindIsRead
PROPERTIES DeletionsAreRead
