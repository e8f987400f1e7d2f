---------------------------- MODULE TenantSchemas ----------------------------
(***************************************************************************)
(* The life of the tenants' schemas: the container entrypoint upgrades     *)
(* main and then every registered tenant before it serves anything         *)
(* (scripts/migrate.py), provision_tenant.py makes a tenant from the       *)
(* tables db.py declares and stamps it afterwards, deprovision_tenant.py   *)
(* drops one, pre_omran_reset_seed.py wipes the database and begins again. *)
(*                                                                         *)
(* A schema has facts (module Schema) and the revision alembic stamped it  *)
(* with, 0 when it has none.  A script runs in the backend's container: a  *)
(* restart of the container ends it wherever it is.                        *)
(***************************************************************************)
EXTENDS Migrations

CONSTANTS
    Tenants,     \* the schemas of the tenants a script may provision
    Demo, Real,  \* the two that pre_omran_reset_seed.py provisions
    Releases,    \* the revisions of the release a deployment may come from
    MaxEvents    \* bound on the events of a behaviour

ASSUME TenantsAssumption == {Demo, Real} \subseteq Tenants /\ "main" \notin Tenants
ASSUME ReleasesAssumption == Releases \subseteq 26 .. Latest
ASSUME BoundAssumption == MaxEvents \in Nat

Schemas == Tenants \cup {"main"}

VARIABLES
    tenant,   \* public.tenants: the schema of every row, in the order of id
    schema,   \* each schema that exists: its facts and its stamp
    admins,   \* the schemas with an Admin user; public, when there is staff
    script,   \* the script that runs: its step, the schema it works on, what is next
    boot,     \* the entrypoint: its step, and the schemas migrate.py has still to upgrade
    fuel      \* events left

vars == <<tenant, schema, admins, script, boot, fuel>>

Event == fuel > 0 /\ fuel' = fuel - 1

Registered == {tenant[i] : i \in DOMAIN tenant}
Idle       == [step |-> "idle", on |-> "main", next |-> <<>>]
Up         == [step |-> "up", todo |-> <<>>]

(* A sequence but for one value, in its order. *)
Without(q, s) ==
    LET rest[i \in 0 .. Len(q)] ==
            IF i = 0 THEN <<>>
            ELSE IF q[i] = s THEN rest[i - 1] ELSE Append(rest[i - 1], q[i])
    IN  rest[Len(q)]

(* ORDER BY id, schema_name <> 'main'. *)
Listed == Without(tenant, "main")

\* Mutant: the first revision after the stamp is left out.
UpgradeFromSkipsFirst(k, facts) ==
    LET up[n \in k .. Latest] ==
            IF n = k THEN facts
            ELSE IF n = k + 1 THEN up[k] ELSE Upgrade(n, up[n - 1])
    IN  up[Latest]

(* alembic upgrade head, from the revision a schema is at. *)
UpgradeFrom(k, facts) ==
    LET up[n \in k .. Latest] == IF n = k THEN facts ELSE Upgrade(n, up[n - 1])
    IN  up[Latest]

(* What create_all and _apply_grants make of the tables of db.py: the      *)
(* grants are those of a list in the script, in which delete_requests      *)
(* does not appear.                                                        *)
CrudTables == TablesOf(TenantPart(Metadata)) \ {"audit_log", "delete_requests"}

Provisioned ==
    TenantPart(Metadata) \cup {<<t>> \o Crud : t \in CrudTables}
                         \cup About("audit_log", {AppendOnly})

(* No constant bears on these two, so one evaluation settles them: every   *)
(* downgrade takes back what its upgrade did, and the chain ends at the    *)
(* tables, columns and references that db.py declares.                     *)
ASSUME DowngradesUndoUpgrades ==
    \A k \in 1 .. Latest : Downgrade(k, SchemaAt[k]) = SchemaAt[k - 1]
ASSUME ChainMeetsMetadata ==
    Shape(TenantPart(SchemaAt[Latest])) = Shape(TenantPart(Metadata))

Init ==
    \E r \in Releases : \E t \in SUBSET {Demo} :
        /\ tenant = IF t = {} THEN <<"main">> ELSE <<"main", Demo>>
        /\ schema = [s \in {"main"} \cup t |->
              [facts |-> IF s = "main" THEN SchemaAt[r] ELSE TenantPart(SchemaAt[r]),
               stamp |-> r]]
        /\ admins = t
        /\ script = Idle
        /\ boot = [step |-> "down", todo |-> <<>>]
        /\ fuel = MaxEvents

Put(s, facts, stamp) ==
    [x \in DOMAIN schema \cup {s} |->
        IF x = s THEN [facts |-> facts, stamp |-> stamp] ELSE schema[x]]

Drop(s) == [x \in DOMAIN schema \ {s} |-> schema[x]]

-----------------------------------------------------------------------------
(* The entrypoint: python -m scripts.migrate, then uvicorn. *)

(* The container restarts; a script that ran in it is gone. *)
Restart ==
    /\ Event
    /\ boot' = [step |-> "main", todo |-> <<>>]
    /\ script' = Idle
    /\ UNCHANGED <<tenant, schema, admins>>

Stored(s) == IF s \in DOMAIN schema THEN schema[s] ELSE [facts |-> {}, stamp |-> 0]

(* The rows of tenants come with main: 0001 inserts the first. *)
UpgradeMain ==
    LET at == Stored("main")
    IN  /\ schema' = Put("main", UpgradeFrom(at.stamp, at.facts), Latest)
        /\ tenant' = IF at.stamp = 0 THEN <<"main">> ELSE tenant

\* Mutant: main is upgraded alone, as by alembic without the orchestrator.
MigrateMainAlone ==
    /\ boot.step = "main"
    /\ UpgradeMain
    /\ boot' = [step |-> "tenants", todo |-> <<>>]
    /\ UNCHANGED <<admins, script, fuel>>

MigrateMain ==
    /\ boot.step = "main"
    /\ UpgradeMain
    /\ boot' = [step |-> "tenants", todo |-> Listed']
    /\ UNCHANGED <<admins, script, fuel>>

(* env.py creates the schema when it is missing and commits that; without  *)
(* a stamp alembic starts at 0001, which makes the tables of main and      *)
(* finds them there.  The failure ends migrate.py, and with it the start.  *)
MigrateTenant ==
    /\ boot.step = "tenants" /\ boot.todo # <<>>
    /\ LET s  == boot.todo[1]
           at == Stored(s)
       IN  IF at.stamp = 0
           THEN /\ schema' = Put(s, at.facts, 0)
                /\ boot' = [step |-> "failed", todo |-> <<>>]
           ELSE /\ schema' = Put(s, UpgradeFrom(at.stamp, at.facts), Latest)
                /\ boot' = [boot EXCEPT !.todo = Tail(@)]
    /\ UNCHANGED <<tenant, admins, script, fuel>>

(* docker compose exec backend alembic downgrade -1, under a backend that  *)
(* goes on serving.  0008 refuses while there is another tenant than main. *)
RollBack ==
    /\ \/ boot.step = "up" /\ script = Idle /\ Event
       \/ boot.step = "behind" /\ UNCHANGED fuel
    /\ "main" \in DOMAIN schema
    /\ LET k == schema["main"].stamp
       IN  /\ k > 0
           /\ k = 8 => Listed = <<>>
           /\ schema' = Put("main", Downgrade(k, schema["main"].facts), k - 1)
    /\ boot' = [step |-> "behind", todo |-> <<>>]
    /\ UNCHANGED <<tenant, admins, script>>

Serve ==
    /\ boot.step = "tenants" /\ boot.todo = <<>>
    /\ boot' = Up
    /\ UNCHANGED <<tenant, schema, admins, script, fuel>>

-----------------------------------------------------------------------------
(* provision_tenant.py.  One transaction adds the row, the schema, its     *)
(* tables and its first rows; the stamp comes after the commit, from an    *)
(* alembic process of its own.                                             *)

Goto(step) == [script EXCEPT !.step = step]

(* The script that called provision goes on with what it has left to do. *)
Continue ==
    IF script.next = <<>> THEN Idle
    ELSE [script EXCEPT !.step = "provision", !.on = Head(script.next), !.next = Tail(@)]

(* _ensure_unique refuses a slug or a schema there is. *)
NewSchema(s) ==
    /\ s \notin Registered /\ s \notin DOMAIN schema
    /\ tenant' = Append(tenant, s)
    /\ schema' = Put(s, Provisioned, 0)

(* The roles, departments, policy and settings a tenant begins with, and   *)
(* its first Admin unless the caller brings users of its own.              *)
SeedDefaults(s, withAdmin) == admins' = IF withAdmin THEN admins \cup {s} ELSE admins

(* From the command line: the first Admin is part of the transaction. *)
Provision ==
    /\ boot.step = "up" /\ script = Idle /\ Event
    /\ \E s \in Tenants :
        /\ NewSchema(s)
        /\ SeedDefaults(s, TRUE)
        /\ script' = [Idle EXCEPT !.step = "stamp", !.on = s]
    /\ UNCHANGED boot

(* env.py makes the schema if it is missing, in a transaction of its own:  *)
(* when the tenant went in the meantime, that is an empty one.             *)
EnsureSchema(s) == Put(s, Stored(s).facts, Stored(s).stamp)

Stamp ==
    /\ script.step = "stamp"
    /\ schema' = Put(script.on, Stored(script.on).facts, Latest)
    /\ script' = Continue
    /\ UNCHANGED <<tenant, admins, boot, fuel>>

(* _cleanup drops the schema and deletes the row, each in a transaction of *)
(* its own whose failure it only logs.  The row outlives a schema that is  *)
(* still there: its tables refer to it.                                    *)
StampFails ==
    /\ script.step = "stamp" /\ Event
    /\ schema' \in {schema, EnsureSchema(script.on)}
    /\ script' = Goto("drop schema")
    /\ UNCHANGED <<tenant, admins, boot>>

CleanupSchema ==
    /\ script.step = "drop schema"
    /\ schema' = Drop(script.on) /\ admins' = admins \ {script.on}
    /\ script' = Goto("delete row")
    /\ UNCHANGED <<tenant, boot, fuel>>

\* Mutant: the row goes although the schema is still there.
CleanupSchemaFailsGoesOn ==
    /\ script.step = "drop schema" /\ Event
    /\ script' = Goto("delete row")
    /\ UNCHANGED <<tenant, schema, admins, boot>>

CleanupSchemaFails ==
    /\ script.step = "drop schema" /\ Event
    /\ script' = Idle
    /\ UNCHANGED <<tenant, schema, admins, boot>>

CleanupRow ==
    /\ script.step = "delete row"
    /\ tenant' = Without(tenant, script.on) /\ script' = Idle
    /\ UNCHANGED <<schema, admins, boot, fuel>>

CleanupRowFails ==
    /\ script.step = "delete row" /\ Event
    /\ script' = Idle
    /\ UNCHANGED <<tenant, schema, admins, boot>>

-----------------------------------------------------------------------------
(* deprovision_tenant.py: the schema and the row in one transaction.  It   *)
(* runs whether the backend serves or not, and refuses main.               *)

Deprovision ==
    /\ Event
    /\ \E s \in Registered \ {"main"} :
        /\ s \in DOMAIN schema
        /\ tenant' = Without(tenant, s)
        /\ schema' = Drop(s)
        /\ admins' = admins \ {s}
    /\ UNCHANGED <<script, boot>>

-----------------------------------------------------------------------------
(* seed_admin.py and seed_test_accounts.py add what is missing. *)

SeedAdmin ==
    /\ boot.step = "up" /\ Event
    /\ "main" \in DOMAIN schema
    /\ admins' = admins \cup {"main"}
    /\ UNCHANGED <<tenant, schema, script, boot>>

SeedSuperAdmin ==
    /\ boot.step = "up" /\ Event
    /\ admins' = admins \cup {"public"}
    /\ UNCHANGED <<tenant, schema, script, boot>>

SeedTestAccounts ==
    /\ boot.step = "up" /\ Event
    /\ \E s \in Registered \cap DOMAIN schema : admins' = admins \cup {s}
    /\ UNCHANGED <<tenant, schema, script, boot>>

-----------------------------------------------------------------------------
(* pre_omran_reset_seed.py. *)

ResetWipe ==
    /\ boot.step = "up" /\ script = Idle /\ Event
    /\ tenant' = <<>> /\ admins' = {}
    /\ schema' = [s \in {} |-> [facts |-> {}, stamp |-> 0]]
    /\ script' = [step |-> "migrate", on |-> "main", next |-> <<Demo, Real, "staff", "demo", "real">>]
    /\ UNCHANGED boot

ResetMigrate ==
    /\ script.step = "migrate"
    /\ UpgradeMain
    /\ script' = Continue
    /\ UNCHANGED <<admins, boot, fuel>>

(* provision, with no Admin of its own. *)
ResetProvision ==
    /\ script.step = "provision" /\ script.on \in Tenants
    /\ NewSchema(script.on)
    /\ SeedDefaults(script.on, FALSE)
    /\ script' = Goto("stamp")
    /\ UNCHANGED <<boot, fuel>>

(* The staff accounts and each tenant are seeded in a transaction of their *)
(* own.  One that fails ends the script without a credentials file.        *)
Inserts(s, t, columns) ==
    s \in DOMAIN schema /\ Table(t, {}, Columns(columns)) \subseteq schema[s].facts

ResetSeedStaff ==
    /\ script.step = "provision" /\ script.on = "staff"
    /\ admins' = admins \cup {"public"}
    /\ script' = Continue
    /\ UNCHANGED <<tenant, schema, boot, fuel>>

ResetSeedDemo ==
    /\ script.step = "provision" /\ script.on = "demo"
    /\ IF Inserts(Demo, "users", {})
       THEN admins' = admins \cup {Demo} /\ script' = Continue
       ELSE script' = Idle /\ UNCHANGED admins
    /\ UNCHANGED <<tenant, schema, boot, fuel>>

(* The second tenant's transaction inserts a camera with the column that   *)
(* 0027 split in two, and fails.                                           *)
ResetSeedReal ==
    /\ script.step = "provision" /\ script.on = "real"
    /\ admins' = IF Inserts(Real, "cameras", {"enabled"}) THEN admins \cup {Real} ELSE admins
    /\ script' = Idle
    /\ UNCHANGED <<tenant, schema, boot, fuel>>

-----------------------------------------------------------------------------
Next ==
    \/ Restart \/ MigrateMain \/ MigrateTenant \/ Serve \/ RollBack
    \/ Provision \/ Stamp \/ StampFails
    \/ CleanupSchema \/ CleanupSchemaFails \/ CleanupRow \/ CleanupRowFails
    \/ Deprovision \/ SeedAdmin \/ SeedSuperAdmin \/ SeedTestAccounts
    \/ ResetWipe \/ ResetMigrate \/ ResetProvision
    \/ ResetSeedStaff \/ ResetSeedDemo \/ ResetSeedReal

Spec == Init /\ [][Next]_vars

-----------------------------------------------------------------------------
(* Properties.                                                             *)

(* Whatever the backend serves fits the code: after an upgrade from any    *)
(* release, or a provision, a tenant's schema holds exactly the tables,    *)
(* columns and references that db.py declares, by the chain of migrations  *)
(* or by create_all.                                                       *)
ServedSchemasFit ==
    boot.step = "up" =>
        \A s \in Registered \cap DOMAIN schema :
            Shape(TenantPart(schema[s].facts)) = Shape(TenantPart(Metadata))

(* Whatever a crash, a failed start, a failed stamp or a roll back leaves  *)
(* behind, the stamp of what will be upgraded again tells the truth: main  *)
(* has all that the migrations up to its stamp make, and a tenant with a   *)
(* row their tables, columns and references, so that the next upgrade or   *)
(* downgrade starts from the right place.  (A tenant that goes just before *)
(* provision_tenant.py stamps it leaves an empty schema stamped at head;   *)
(* no row names it, and no tenant can have its name again before a reset.)  *)
StampTellsSchema ==
    \A s \in DOMAIN schema \cap (Registered \cup {"main"}) :
        schema[s].stamp > 0 =>
            IF s = "main" THEN schema[s].facts = SchemaAt[schema[s].stamp]
            ELSE Shape(schema[s].facts) = Shape(TenantPart(SchemaAt[schema[s].stamp]))

(* No schema that holds a tenant's tables is without its row: only the row *)
(* says that a schema is to be upgraded and only through the row is it     *)
(* dropped.  (An empty one may be left, when a tenant goes while migrate   *)
(* has it on its list, or before its stamp.)                               *)
NoForgottenData ==
    \A s \in DOMAIN schema \ {"main"} : schema[s].facts # {} => s \in Registered

(* A tenant that was just provisioned, or has been upgraded since, has the *)
(* grants the application needs (provision_tenant.py) and the rules that   *)
(* db.py says the database enforces: the same as migrations would make.    *)
FreshTenantsMatch ==
    \A s \in Registered \cap DOMAIN schema :
        schema[s].stamp = Latest =>
            Enforced(TenantPart(schema[s].facts)) = Enforced(TenantPart(SchemaAt[Latest]))

=============================================================================
