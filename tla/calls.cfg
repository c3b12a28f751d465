SPECIFICATION Spec
CONSTANTS
    DeviceBuilds <- MCDeviceBuilds
    PeerVersions <- MCPeerVersions
    ServerVersions <- MCServerVersions
INVARIANTS
    TypeOK
    Understood
    ValuesTold
    OnlyRegistrationsTooLarge
    NeverTooNew
    AnswersReadable
