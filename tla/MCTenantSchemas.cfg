SPECIFICATION Spec
CONSTANTS
    Tenants <- MCTenants
    Releases <- MCReleases
    Demo = "tenant_demo"
    Real = "tenant_real"
    MaxEvents = 6
INVARIANTS
    ServedSchemasFit
    StampTellsSchema
    NoForgottenData
CHECK_DEADLOCK FALSE
