\* create_minimal_perfecthash on main's six items, on the five keys of its
\* commented-out list and on main's first three and five items, then
\* main's lookups.  main's items need d up to 13.
CONSTANTS
    Inputs <- MainInputs
    MaxD = 40
    NULL = NULL
SPECIFICATION Spec
INVARIANT TypeOK
INVARIANT LookupFindsValue
PROPERTY SlotsNeverOverwritten
PROPERTY BuildTerminates
