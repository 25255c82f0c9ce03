SPECIFICATION Spec
CHECK_DEADLOCK FALSE
CONSTANTS
    Peers <- MCPeers
    Versions = {1, 2, 3}
    MaxDeployments = 5
    NoDefinition = NoDefinition
    Admins = {a1, a2}
    Users = {u1}
    Attributes = {hf}
    MaxCertificates = 3
    MaxOperations = 5
    NoCertificate = NoCertificate
    Absent = Absent
INVARIANTS
    TypeOK
    DriftIsOne
    CleanDeploymentCommits
    NeverLockedOut
PROPERTIES
    ReplacedIsRevoked
