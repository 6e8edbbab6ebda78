SPECIFICATION Spec
CONSTANTS
    a = a
    b = b
    Endpoints <- MCEndpoints
    CdnNames <- MCCdnNames
    Lists <- MCLists
    Places <- MCPlaces
    Sources = {s1, s2}
    Simple = {vpngate}
INVARIANTS
    TypeOK
    EachEndpointOnce
    ForwardersSink
    CdnRelabelled
PROPERTY ImplementsFetchAbs
CHECK_DEADLOCK FALSE
