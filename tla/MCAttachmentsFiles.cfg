SPECIFICATION Spec
CONSTANTS
    r1 = r1  r2 = r2  a = a  b = b  c = c  f = f  g = g
    Requests = {r1, r2}
    Objects = {a, b, c}
    Folders = {f, g}
    Folder <- FolderOfObject
    MaxInstance = 3
    MaxOps = 2
    MaxTransactions = 2
    Faults = {"crash", "disk", "database", "unlink"}
    None = None
INVARIANTS TypeOK  
SYMMETRY RequestSymmetry
CHECK_DEADLOCK FALSE
