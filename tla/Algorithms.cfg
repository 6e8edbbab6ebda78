SPECIFICATION Spec
CONSTANTS
    MaxRows = 3
    MaxServers = 4
    MaxTransports = 2
    SuspiciousASNs = {1, 2}
    Datasets <- MCDatasets
    Addresses <- MCAddresses
    Uris <- MCUris
    Tables <- MCTables
    Bodies <- MCBodies
    Gateways <- MCGateways
    Lists <- MCLists
INVARIANTS
    LookupFindsCover
    OutboundFaithful
    VpnGateRows
    SourceKeepsUris
    TransportOrder
    PickerMatchesPool
