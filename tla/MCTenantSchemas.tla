--------------------------- MODULE MCTenantSchemas ---------------------------
(* Two tenants, and deployments that come from three releases. *)
EXTENDS TenantSchemas

MCTenants  == {"tenant_demo", "tenant_real"}
MCReleases == {26, 33, 36}

=============================================================================
