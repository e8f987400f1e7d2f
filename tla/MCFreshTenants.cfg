SPECIFICATION Spec
CONSTANTS
    Tenants <- MCTenants
    Releases <- MCReleases
    Demo = "tenant_demo"
    Real = "tenant_real"
    MaxEvents = 3
INVARIANTS
    FreshTenantsMatch
CHECK_DEADLOCK FALSE
