SPECIFICATION ReplicaSpec
CONSTANTS
    title = title
    status = status
    Field = {title, status}
    MaxEdits = 1
    MaxRemoteEdits = 0
    MaxFaults = 0
PROPERTIES
    PendingIsAuthoritative
