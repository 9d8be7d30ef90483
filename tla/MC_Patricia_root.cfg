\* Addresses on both sides of the root (as 10.x and 172.x): deleting an
\* address whose leaf hangs directly from the root, while the root's other
\* side is in use, makes deleteNode merge into the root's NULL key.
CONSTANTS
    W = 4
    Addrs <- AddrSpace
    Subnets <- LowSubnets
    NULL = NULL
    NULL_BIT_KEY <- MinusOne
    EQUAL_BIT_KEY <- MinusTwo
SPECIFICATION Spec
INVARIANT NoNullDeref
