SPECIFICATION Spec
CONSTANTS
    acme = acme
    telco = telco
    first = first
    second = second
    scope = scope
    timers = timers
    invented = invented
    q1 = q1
    Clauses = {scope, timers, invented}
    Organizations = {acme, telco}
    Ingestions = {first, second}
    Queries = {q1}
    Org <- MCOrg
    Order <- MCOrder
    References <- MCReferences
    Asker <- MCAsker
    Missing = missing
    None = none
    MaxHops = 2
    MaxReseeds = 1
INVARIANT
    CitationIsOfOwnOrganisation
