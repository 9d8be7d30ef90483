\* allocIp on a subnet all of whose addresses are in use: its loop walks
\* past the subnet and returns the next address, in use or not.
CONSTANTS
    W = 4
    Addrs <- HighAddrs
    Subnets <- LowSubnets
    NULL = NULL
    NULL_BIT_KEY <- MinusOne
    EQUAL_BIT_KEY <- MinusTwo
SPECIFICATION Spec
PROPERTY AllocIpFresh
