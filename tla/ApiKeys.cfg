SPECIFICATION AuthSpec
CONSTANTS
    Scripts = {create, rotate1, rotate2}
    Rotating = {rotate1, rotate2}
    None = none
    Locking = {create, rotate1}
    HttpClients = {http}
    StdioClients = {stdio}
INVARIANTS
    RevokedKeyIsNotServed
PROPERTIES
    ImplementsKeyRing
    RequestsAreAnswered
