SPECIFICATION ReplicaFairSpec
CONSTANTS
    title = title
    status = status
    Field = {title, status}
    MaxEdits = 2
    MaxRemoteEdits = 1
    MaxFaults = 1
PROPERTIES
    ConflictKeepsLocal
    Converges
