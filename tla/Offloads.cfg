SPECIFICATION Spec
CONSTANTS
    Addresses = {10, 11}
    NullAddress = 0
    Retries = 3
    MaxWork = 2
    MaxBits = 4
    Setups <- MCSetups
INVARIANTS
    HostIpOwned
    AllOrNothing
    OffloadsFollow
    PortsMatch
PROPERTY
    AddressSettles
