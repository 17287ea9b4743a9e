SPECIFICATION BlobSpec
CONSTANTS
    Namespace = 3
    VolWidth = 5
    VolSlots = 1
    ProxySlots = 2
    MaxVolOps = 3
PROPERTY BlobFsSettles
CHECK_DEADLOCK FALSE
