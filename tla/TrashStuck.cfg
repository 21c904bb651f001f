CONSTANTS
    Names = {1}
    Seed = 1
    MaxFiles = 4
    MaxDepth = 2
    MaxNames = 2
    None = None
    MaxId = 3
    MaxUploads = 1

SPECIFICATION Spec
VIEW TreeView
CONSTRAINT SmallTree
PROPERTIES
    PurgeErases
CHECK_DEADLOCK FALSE
