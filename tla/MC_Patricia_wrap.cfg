\* allocIp on the top subnet, full: base + i wraps to address 0, which
\* goes to the root's left; a later deleteIp then merges into the root.
CONSTANTS
    W = 4
    Addrs <- HighAddrs
    Subnets <- TopSubnets
    NULL = NULL
    NULL_BIT_KEY <- MinusOne
    EQUAL_BIT_KEY <- MinusTwo
SPECIFICATION Spec
INVARIANT NoNullDeref
