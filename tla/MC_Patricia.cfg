\* insertIp, deleteIp and allocIp in any order on 4-bit addresses with the
\* top bit set, as _main's 172.x addresses, and subnets of four and two
\* addresses at MSB.
CONSTANTS
    W = 4
    Addrs <- HighAddrs
    Subnets <- LowSubnets
    NULL = NULL
    NULL_BIT_KEY <- MinusOne
    EQUAL_BIT_KEY <- MinusTwo
SPECIFICATION Spec
INVARIANT TypeOK
INVARIANT TrieShape
INVARIANT FindIpFindsStored
PROPERTY ImplementsIpSet
