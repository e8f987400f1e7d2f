------------------------- MODULE TenantSchemasProofs -------------------------
(***************************************************************************)
(* Theorems about the schemas of the tenants, for any number of tenants    *)
(* and deployments from any release that has tenants with slugs.           *)
(***************************************************************************)
EXTENDS TenantSchemas, WellFoundedInduction, TLAPS

(***************************************************************************)
(* What a schema can hold: main what the chain of migrations makes, a      *)
(* tenant's the tenant's part of it or what provision_tenant.py made, or   *)
(* nothing.                                                                *)
(***************************************************************************)
Slugged == 26 .. Latest

PartAt(k) == TenantPart(SchemaAt[k])

Content ==
    {SchemaAt[k] : k \in 0 .. Latest} \cup {PartAt(k) : k \in Slugged} \cup {Provisioned, {}}

SchemaRow == [facts : Content, stamp : 0 .. Latest]

Catalog == UNION {[S -> SchemaRow] : S \in SUBSET Schemas}

Script == [step : {"idle", "stamp", "drop schema", "delete row", "migrate", "provision"},
           on : Schemas \cup {"staff", "demo", "real"},
           next : Seq(Schemas \cup {"staff", "demo", "real"})]

Entrypoint == [step : {"down", "main", "tenants", "failed", "up", "behind"}, todo : Seq(Tenants)]

Types ==
    /\ tenant \in Seq(Schemas)
    /\ schema \in Catalog
    /\ script \in Script
    /\ boot \in Entrypoint

(* A tenant's schema whose stamp is missing is one that provision_tenant   *)
(* has made and not stamped, or one that migrate.py made by itself.  One   *)
(* that holds nothing and has the last stamp was made by the stamp itself. *)
Made(s, row) ==
    IF s = "main" THEN row.facts = SchemaAt[row.stamp]
    ELSE \/ row.facts = {} /\ row.stamp \in {0, Latest}
         \/ row.facts = Provisioned /\ row.stamp \in {0, Latest}
         \/ row.facts = PartAt(row.stamp) /\ row.stamp \in Slugged

AllMade == \A s \in DOMAIN schema : Made(s, schema[s])

(* What an upgrade to the code's revision, or a provision, leaves.         *)
Current(row) == row.facts \in {PartAt(Latest), Provisioned}

(* Scripts run under a backend that serves, and then main is at the code's *)
(* revision, but in the middle of a reset.                                 *)
Serving ==
    /\ boot.step # "up" => script = Idle
    /\ boot.step = "up" => boot.todo = <<>>
    /\ boot.step \in {"tenants", "up"} =>
         \/ script.step = "migrate" /\ DOMAIN schema = {} /\ tenant = <<>>
         \/ "main" \in DOMAIN schema /\ schema["main"].stamp = Latest

(* The tenants that migrate.py has passed are up to date, and those that   *)
(* have come since.                                                        *)
Passed ==
    boot.step \in {"tenants", "up"} =>
        \A s \in (Registered \cap DOMAIN schema) \ {"main"} :
            Current(schema[s]) \/ \E i \in DOMAIN boot.todo : boot.todo[i] = s

(* A script stamps a tenant whose row and schema belong together, or are   *)
(* both gone.                                                              *)
Scripted ==
    /\ script.step \in {"stamp", "drop schema", "delete row"} => script.on \in Tenants
    /\ script.step = "stamp" =>
         IF script.on \in DOMAIN schema
         THEN script.on \in Registered /\ schema[script.on].facts = Provisioned
         ELSE script.on \notin Registered
    /\ script.step = "delete row" => script.on \notin DOMAIN schema

(* An empty schema stamped at the head: no row names it, and migrate.py    *)
(* has it not on its list.                                                 *)
Abandoned(s) == s \notin Registered /\ \A i \in DOMAIN boot.todo : boot.todo[i] # s

Forsaken ==
    \A s \in DOMAIN schema \ {"main"} :
        schema[s].facts = {} /\ schema[s].stamp = Latest => Abandoned(s)

(* What holds a table, or has the stamp of an earlier release, has its     *)
(* row, and before the tenants table went to public there was no tenant    *)
(* but main.                                                               *)
Rowed ==
    /\ \A s \in DOMAIN schema \ {"main"} :
          schema[s].facts # {} \/ schema[s].stamp \notin {0, Latest} => s \in Registered
    /\ Stored("main").stamp < 8 => Registered \subseteq {"main"}

IInv == Types /\ AllMade /\ Serving /\ Passed /\ Scripted /\ Rowed /\ Forsaken

(***************************************************************************)
(* Chains: a function whose every value is made from the one before.       *)
(***************************************************************************)
Below == {ss \in Nat \X Nat : ss[1] < ss[2]}

LEMMA LeastOf ==
    ASSUME NEW S \in SUBSET Nat, S # {}
    PROVE  \E x \in S : \A y \in S : x <= y
<1>1. IsWellFoundedOn(Below, Nat)
  BY NatLessThanWellFounded DEF OpToRel, Below
<1>2. PICK x \in S : \A y \in S : ~ (<<y, x>> \in Below)
  BY <1>1, WFMin
<1>3. ASSUME NEW y \in S
      PROVE  x <= y
  <2>1. y < x => <<y, x>> \in Below
    BY DEF Below
  <2>2. QED
    BY <1>2, <2>1
<1>4. QED
  BY <1>3

IsChain(f, k, facts) ==
    f = [n \in k .. Latest |-> IF n = k THEN facts ELSE Upgrade(n, f[n - 1])]

LEMMA ChainExists ==
    ASSUME NEW k \in 0 .. Latest, NEW facts
    PROVE  \E f : IsChain(f, k, facts)
<1> DEFINE Chain(f, n) == \A m \in k .. n : f[m] = IF m = k THEN facts ELSE Upgrade(m, f[m - 1])
           S == {n \in Nat : k <= n /\ ~ \E f : Chain(f, n)}
<1>1. S = {}
  <2> SUFFICES ASSUME S # {} PROVE FALSE
    OBVIOUS
  <2>1. PICK n \in S : \A y \in S : n <= y
    <3>1. S \in SUBSET Nat
      OBVIOUS
    <3> HIDE DEF S
    <3>2. QED
      BY <3>1, LeastOf
  <2>2. CASE n = k
    <3>1. Chain([m \in {k} |-> facts], n)
      BY <2>2
    <3>2. QED
      BY <2>1, <3>1
  <2>3. CASE n # k
    <3>1. n - 1 \in Nat /\ k <= n - 1 /\ n - 1 \notin S
      <4>1. n \in Nat /\ k <= n
        BY <2>1
      <4> HIDE DEF S
      <4>2. QED
        BY <2>1, <2>3, <4>1
    <3>2. PICK f : Chain(f, n - 1)
      BY <3>1
    <3> DEFINE g == [m \in k .. n |-> IF m = n THEN Upgrade(n, f[n - 1]) ELSE f[m]]
    <3>3. Chain(g, n)
      <4> SUFFICES ASSUME NEW m \in k .. n
                   PROVE  g[m] = IF m = k THEN facts ELSE Upgrade(m, g[m - 1])
        OBVIOUS
      <4>1. CASE m = n
        <5>1. g[m] = Upgrade(n, f[n - 1]) /\ g[m - 1] = f[n - 1]
          BY <4>1, <3>1
        <5>2. QED
          BY <5>1, <4>1, <2>3
      <4>2. CASE m # n
        <5>1. g[m] = f[m] /\ (m # k => g[m - 1] = f[m - 1])
          BY <4>2
        <5>2. m \in k .. (n - 1)
          BY <4>2, <2>1
        <5>3. QED
          BY <5>1, <5>2, <3>2
      <4>3. QED
        BY <4>1, <4>2
    <3> HIDE DEF Chain, g
    <3>4. QED
      BY <2>1, <3>3
  <2>4. QED
    BY <2>2, <2>3
<1>2. PICK f : Chain(f, Latest)
  <2>1. Latest \in Nat /\ k <= Latest
    BY DEF Latest
  <2>2. QED
    BY <1>1, <2>1
<1> DEFINE g == [m \in k .. Latest |-> f[m]]
<1>3. IsChain(g, k, facts)
  <2>1. ASSUME NEW n \in k .. Latest
        PROVE  f[n] = IF n = k THEN facts ELSE Upgrade(n, g[n - 1])
    <3>1. n # k => n - 1 \in k .. Latest
      BY DEF Latest
    <3>2. QED
      BY <1>2, <3>1
  <2>2. QED
    BY <2>1 DEF IsChain
<1> HIDE DEF g
<1>4. QED
  BY <1>3

(* alembic upgrade head ends where every chain of upgrades from the same   *)
(* facts ends.                                                             *)
LEMMA UpgradeFollows ==
    ASSUME NEW k \in 0 .. Latest, NEW g,
           \A n \in (k + 1) .. Latest : g[n] = Upgrade(n, g[n - 1])
    PROVE  UpgradeFrom(k, g[k]) = g[Latest]
<1> DEFINE up[n \in k .. Latest] == IF n = k THEN g[k] ELSE Upgrade(n, up[n - 1])
<1>1. up = [n \in k .. Latest |-> IF n = k THEN g[k] ELSE Upgrade(n, up[n - 1])]
  <2>1. \E f : IsChain(f, k, g[k])
    BY ChainExists
  <2>2. QED
    BY <2>1, Zenon DEF IsChain
<1> HIDE DEF up
<1> DEFINE S == {n \in k .. Latest : up[n] # g[n]}
<1>2. S = {}
  <2> SUFFICES ASSUME S # {} PROVE FALSE
    OBVIOUS
  <2>1. S \in SUBSET Nat
    BY DEF Latest
  <2>2. PICK n \in S : \A y \in S : n <= y
    <3> HIDE DEF S
    <3>1. QED
      BY <2>1, LeastOf
  <2>3. n # k /\ n \in (k + 1) .. Latest /\ n - 1 \in k .. Latest /\ n - 1 \notin S
    BY <1>1, <2>2 DEF Latest
  <2>4. up[n] = Upgrade(n, up[n - 1]) /\ up[n - 1] = g[n - 1]
    BY <1>1, <2>3
  <2>5. QED
    BY <2>2, <2>3, <2>4
<1>3. up[Latest] = g[Latest]
  BY <1>2 DEF Latest
<1>4. UpgradeFrom(k, g[k]) = up[Latest]
  BY DEF UpgradeFrom, up
<1>5. QED
  BY <1>3, <1>4

LEMMA SchemaChain ==
    /\ SchemaAt[0] = {}
    /\ \A n \in 1 .. Latest : SchemaAt[n] = Upgrade(n, SchemaAt[n - 1])
<1>1. \E f : f = [n \in 0 .. Latest |-> IF n = 0 THEN {} ELSE Upgrade(n, f[n - 1])]
  <2>1. 0 \in 0 .. Latest
    BY DEF Latest
  <2>2. \E f : IsChain(f, 0, {})
    BY <2>1, ChainExists
  <2>3. QED
    BY <2>2, Zenon DEF IsChain
<1>2. SchemaAt = [n \in 0 .. Latest |-> IF n = 0 THEN {} ELSE Upgrade(n, SchemaAt[n - 1])]
  BY <1>1, Zenon DEF SchemaAt
<1>3. QED
  BY <1>2 DEF Latest

(***************************************************************************)
(* The tenants' part of a schema: from the revision that gives tenants     *)
(* their slugs on, a revision does to the part what it does to the whole.  *)
(***************************************************************************)
Rule(r) == \E S : r \in Seq(S)

LEMMA RuleKinds ==
    /\ \A a : Rule(<<a>>)
    /\ \A a, b : Rule(<<a, b>>)
    /\ \A a, b, c : Rule(<<a, b, c>>)
    /\ \A a, b, c, d : Rule(<<a, b, c, d>>)
<1>1. ASSUME NEW a PROVE Rule(<<a>>)
  <2>1. <<a>> \in Seq({a})
    OBVIOUS
  <2>2. QED
    BY <2>1 DEF Rule
<1>2. ASSUME NEW a, NEW b PROVE Rule(<<a, b>>)
  <2>1. <<a, b>> \in Seq({a, b})
    OBVIOUS
  <2>2. QED
    BY <2>1 DEF Rule
<1>3. ASSUME NEW a, NEW b, NEW c PROVE Rule(<<a, b, c>>)
  <2>1. <<a, b, c>> \in Seq({a, b, c})
    OBVIOUS
  <2>2. QED
    BY <2>1 DEF Rule
<1>4. ASSUME NEW a, NEW b, NEW c, NEW d PROVE Rule(<<a, b, c, d>>)
  <2>1. <<a, b, c, d>> \in Seq({a, b, c, d})
    OBVIOUS
  <2>2. QED
    BY <2>1 DEF Rule
<1>5. QED
  BY <1>1, <1>2, <1>3, <1>4

LEMMA AboutHead ==
    ASSUME NEW t, NEW rules, \A r \in rules : Rule(r), NEW f \in About(t, rules)
    PROVE  f[1] = t
<1>1. PICK r \in rules : f = <<t>> \o r
  BY DEF About
<1>2. PICK S : r \in Seq(S)
  BY <1>1 DEF Rule
<1>3. r \in Seq(S \cup {t}) /\ <<t>> \in Seq(S \cup {t})
  BY <1>2
<1>4. QED
  BY <1>1, <1>3

(* What no revision after 0026 says is about a table of schema public.     *)
LEMMA AlterPart ==
    ASSUME NEW s, NEW t, t \notin PublicTables, NEW rules, \A r \in rules : Rule(r)
    PROVE  TenantPart(Alter(s, t, rules)) = Alter(TenantPart(s), t, rules)
<1>1. \A f \in About(t, rules) : f[1] \notin PublicTables
  BY AboutHead
<1>2. QED
  BY <1>1 DEF Alter, TenantPart

LEMMA RemovePart ==
    ASSUME NEW s, NEW t, NEW rules
    PROVE  TenantPart(Remove(s, t, rules)) = Remove(TenantPart(s), t, rules)
  BY DEF Remove, TenantPart

LEMMA DropColumnsPart ==
    ASSUME NEW s, NEW t, NEW names
    PROVE  TenantPart(DropColumns(s, t, names)) = DropColumns(TenantPart(s), t, names)
  BY DEF DropColumns, TenantPart

LEMMA CreatePart ==
    ASSUME NEW s, NEW facts, \A f \in facts : f[1] \notin PublicTables
    PROVE  TenantPart(Create(s, facts)) = Create(TenantPart(s), facts)
  BY DEF Create, TenantPart

LEMMA TableHead ==
    ASSUME NEW t, t \notin PublicTables, NEW refs, NEW rules,
           \A r \in refs \cup rules : Rule(r)
    PROVE  \A f \in Table(t, refs, rules) : f[1] \notin PublicTables
<1>1. \A r \in {<<"table">>} \cup refs \cup rules : Rule(r)
  BY RuleKinds
<1>2. QED
  BY <1>1, AboutHead DEF Table

LEMMA RulesOf ==
    /\ \A c, p, r : Rule(Ref(c, p, r))
    /\ \A c, p : Rule(Cascade(c, p)) /\ Rule(Restrict(c, p)) /\ Rule(SetNull(c, p))
    /\ \A c : Rule(Unique(c)) /\ Rule(Check(c)) /\ Rule(Column(c)) /\ Rule(NotNull(c)) /\ Rule(Grant(c))
    /\ \A c, x : Rule(UniqueWhere(c, x)) /\ Rule(Enum(c, x))
    /\ \A names : \A r \in Columns(names) : Rule(r)
<1>1. \A c, p, r : Rule(Ref(c, p, r))
  BY RuleKinds, Zenon DEF Ref
<1>2. \A c, p : Rule(Cascade(c, p)) /\ Rule(Restrict(c, p)) /\ Rule(SetNull(c, p))
  <2>1. \A c, p : Rule(Cascade(c, p))
    BY <1>1, Zenon DEF Cascade
  <2>2. \A c, p : Rule(Restrict(c, p))
    BY <1>1, Zenon DEF Restrict
  <2>3. \A c, p : Rule(SetNull(c, p))
    BY <1>1, Zenon DEF SetNull
  <2>4. QED
    BY <2>1, <2>2, <2>3
<1>3. \A c : Rule(Unique(c)) /\ Rule(Check(c)) /\ Rule(Column(c)) /\ Rule(NotNull(c)) /\ Rule(Grant(c))
  BY RuleKinds, Zenon DEF Unique, Check, Column, NotNull, Grant
<1>4. \A c, x : Rule(UniqueWhere(c, x)) /\ Rule(Enum(c, x))
  BY RuleKinds, Zenon DEF UniqueWhere, Enum
<1>5. \A names : \A r \in Columns(names) : Rule(r)
  BY <1>3, Zenon DEF Columns
<1>6. QED
  BY <1>1, <1>2, <1>3, <1>4, <1>5

LEMMA CreatesTable ==
    ASSUME NEW s, NEW t, t \notin PublicTables, NEW refs, NEW rules,
           \A r \in refs \cup rules : Rule(r)
    PROVE  TenantPart(Create(s, Table(t, refs, rules))) = Create(TenantPart(s), Table(t, refs, rules))
  BY TableHead, CreatePart

LEMMA Local ==
    {"cameras", "detection_events", "tenant_settings", "employees", "delete_requests",
     "divisions", "departments", "sections", "user_divisions", "user_sections",
     "employee_photos"} \cap PublicTables = {}
  BY DEF PublicTables

LEMMA Part0027 ==
    ASSUME NEW s PROVE TenantPart(Up0027(s)) = Up0027(TenantPart(s))
<1>1. \A r \in Columns(Split0027) : Rule(r)
  BY RulesOf
<1>2. TenantPart(Alter(s, "cameras", Columns(Split0027)))
        = Alter(TenantPart(s), "cameras", Columns(Split0027))
  BY <1>1, AlterPart, Local
<1>3. QED
  BY <1>2, DropColumnsPart, Zenon DEF Up0027

LEMMA Part0028 ==
    ASSUME NEW s PROVE TenantPart(Up0028(s)) = Up0028(TenantPart(s))
<1> DEFINE gone == {NotNull("face_crop_path")}
           new == {Column("orphaned_at")}
<1>1. \A r \in new : Rule(r)
  BY RulesOf
<1> HIDE DEF new, gone
<1>2. TenantPart(Alter(Remove(s, "detection_events", gone), "detection_events", new))
        = Alter(Remove(TenantPart(s), "detection_events", gone), "detection_events", new)
  BY <1>1, AlterPart, RemovePart, Local
<1>3. QED
  BY <1>2 DEF Up0028, gone, new

LEMMA Part0029 ==
    ASSUME NEW s PROVE TenantPart(Up0029(s)) = Up0029(TenantPart(s))
  BY RulesOf, AlterPart, Local DEF Up0029

LEMMA Part0031 ==
    ASSUME NEW s PROVE TenantPart(Up0031(s)) = Up0031(TenantPart(s))
  BY RulesOf, AlterPart, Local DEF Up0031

LEMMA Part0032 ==
    ASSUME NEW s PROVE TenantPart(Up0032(s)) = Up0032(TenantPart(s))
<1>1. \A r \in {Column("detection_metadata")} : Rule(r)
  BY RulesOf
<1>2. QED
  BY <1>1, AlterPart, Local DEF Up0032

LEMMA Part0033 ==
    ASSUME NEW s PROVE TenantPart(Up0033(s)) = Up0033(TenantPart(s))
<1>1. \A r \in {Column("detection_enabled")} : Rule(r)
  BY RulesOf
<1>2. QED
  BY <1>1, AlterPart, Local DEF Up0033

LEMMA Part0034 ==
    ASSUME NEW s PROVE TenantPart(Up0034(s)) = Up0034(TenantPart(s))
<1>1. \A r \in {Column("camera_code"), Unique({"tenant_id", "camera_code"}), Column("zone")} : Rule(r)
  BY RulesOf
<1>2. QED
  BY <1>1, AlterPart, Local DEF Up0034

LEMMA Part0036 ==
    ASSUME NEW s PROVE TenantPart(Up0036(s)) = Up0036(TenantPart(s))
<1>1. \A r \in Provenance0036 : Rule(r)
  BY RulesOf DEF Provenance0036
<1>2. QED
  BY <1>1, AlterPart, Local DEF Up0036

LEMMA Part0030 ==
    ASSUME NEW s PROVE TenantPart(Up0030(s)) = Up0030(TenantPart(s))
<1> DEFINE staff == Columns(Lifecycle0030) \cup {SetNull("reports_to_user_id", "users")}
           events == {Column("former_employee_match"),
                      SetNull("former_match_employee_id", "employees")}
<1>1. \A r \in staff \cup events : Rule(r)
  BY RulesOf
<1>2. Employees0030(s) = Alter(Alter(s, "employees", staff), "detection_events", events)
      /\ Employees0030(TenantPart(s))
           = Alter(Alter(TenantPart(s), "employees", staff), "detection_events", events)
  BY DEF Employees0030
<1> HIDE DEF staff, events
<1>3. TenantPart(Employees0030(s)) = Employees0030(TenantPart(s))
  <2> DEFINE one(x) == Alter(x, "employees", staff)
  <2>1. TenantPart(one(s)) = one(TenantPart(s))
    BY <1>1, AlterPart, Local
  <2> HIDE DEF one
  <2>2. TenantPart(Alter(one(s), "detection_events", events))
          = Alter(TenantPart(one(s)), "detection_events", events)
    BY <1>1, AlterPart, Local
  <2>3. QED
    BY <1>2, <2>1, <2>2 DEF one
<1>4. \A f \in DeleteRequests0030 : f[1] \notin PublicTables
  <2> DEFINE refs == {Owner, Cascade("employee_id", "employees"),
                      SetNull("requested_by", "users"), SetNull("hr_decided_by", "users"),
                      SetNull("admin_override_by", "users")}
             rules == {Enum("status", {"pending", "approved", "rejected", "admin_override",
                                       "cancelled"}),
                       UniqueWhere({"tenant_id", "employee_id"}, "pending"),
                       Grant("select insert update")}
  <2>1. \A r \in refs \cup rules : Rule(r)
    <3>1. \A r \in refs : Rule(r)
      BY RulesOf DEF Owner
    <3>2. \A r \in rules : Rule(r)
      BY RulesOf
    <3>3. QED
      BY <3>1, <3>2
  <2>2. DeleteRequests0030 = Table("delete_requests", refs, rules)
    BY DEF DeleteRequests0030
  <2> HIDE DEF refs, rules
  <2>3. QED
    BY <2>1, <2>2, TableHead, Local
<1>5. QED
  BY <1>3, <1>4, CreatePart DEF Up0030

LEMMA Part0035 ==
    ASSUME NEW s PROVE TenantPart(Up0035(s)) = Up0035(TenantPart(s))
<1>1. Rule(Owner) /\ Rule(Crud)
  BY RulesOf DEF Owner, Crud
<1>2. ASSUME NEW x PROVE TenantPart(Divisions0035(x)) = Divisions0035(TenantPart(x))
  <2> DEFINE rules == {Unique({"tenant_id", "code"}), Check("code_shape"), Crud}
             column == {Restrict("division_id", "divisions")}
             made(y) == Create(y, Table("divisions", {Owner}, rules))
  <2>1. \A r \in {Owner} \cup rules : Rule(r)
    BY <1>1, RulesOf
  <2>2. \A r \in column : Rule(r)
    BY RulesOf
  <2>3. \A y : Divisions0035(y) = Alter(made(y), "departments", column)
    BY Zenon DEF Divisions0035
  <2> HIDE DEF rules, column
  <2>4. TenantPart(made(x)) = made(TenantPart(x))
    BY <2>1, CreatesTable, Local
  <2> HIDE DEF made
  <2>5. QED
    BY <2>2, <2>3, <2>4, AlterPart, Local
<1>3. ASSUME NEW x PROVE TenantPart(Sections0035(x)) = Sections0035(TenantPart(x))
  <2> DEFINE refs == {Owner, Restrict("department_id", "departments")}
             rules == {Unique({"tenant_id", "department_id", "code"}), Check("code_shape"), Crud}
             column == {Restrict("section_id", "sections")}
             made(y) == Create(y, Table("sections", refs, rules))
  <2>1. \A r \in refs \cup rules : Rule(r)
    BY <1>1, RulesOf
  <2>2. \A r \in column : Rule(r)
    BY RulesOf
  <2>3. \A y : Sections0035(y) = Alter(made(y), "employees", column)
    BY Zenon DEF Sections0035
  <2> HIDE DEF refs, rules, column
  <2>4. TenantPart(made(x)) = made(TenantPart(x))
    <3>1. "sections" \notin PublicTables
      BY Local
    <3>2. QED
      BY <2>1, <3>1, CreatesTable
  <2> HIDE DEF made
  <2>5. QED
    BY <2>2, <2>3, <2>4, AlterPart, Local
<1> DEFINE toDivisions == {Owner, Cascade("user_id", "users"), Cascade("division_id", "divisions")}
           toSections == {Owner, Cascade("user_id", "users"), Cascade("section_id", "sections")}
           posts == Table("user_divisions", toDivisions, {Crud})
                    \cup Table("user_sections", toSections, {Crud})
<1>4. \A f \in posts : f[1] \notin PublicTables
  <2>1. \A r \in toDivisions \cup {Crud} : Rule(r)
    BY <1>1, RulesOf
  <2>2. \A r \in toSections \cup {Crud} : Rule(r)
    BY <1>1, RulesOf
  <2> HIDE DEF toDivisions, toSections
  <2>3. /\ \A f \in Table("user_divisions", toDivisions, {Crud}) : f[1] \notin PublicTables
        /\ \A f \in Table("user_sections", toSections, {Crud}) : f[1] \notin PublicTables
    BY <2>1, <2>2, TableHead, Local
  <2>4. QED
    BY <2>3
<1>5. \A x : Up0035(x) = Create(Sections0035(Divisions0035(x)), posts)
  BY Zenon DEF Up0035
<1> HIDE DEF posts
<1>6. QED
  BY <1>2, <1>3, <1>4, <1>5, CreatePart

LEMMA RevisionPart ==
    ASSUME NEW n \in 27 .. Latest, NEW s
    PROVE  TenantPart(Upgrade(n, s)) = Upgrade(n, TenantPart(s))
<1>1. CASE n = 27
  BY <1>1, Part0027 DEF Upgrade
<1>2. CASE n = 28
  BY <1>2, Part0028 DEF Upgrade
<1>3. CASE n = 29
  BY <1>3, Part0029 DEF Upgrade
<1>4. CASE n = 30
  BY <1>4, Part0030 DEF Upgrade
<1>5. CASE n = 31
  BY <1>5, Part0031 DEF Upgrade
<1>6. CASE n = 32
  BY <1>6, Part0032 DEF Upgrade
<1>7. CASE n = 33
  BY <1>7, Part0033 DEF Upgrade
<1>8. CASE n = 34
  BY <1>8, Part0034 DEF Upgrade
<1>9. CASE n = 35
  BY <1>9, Part0035 DEF Upgrade
<1>10. CASE n = 36
  BY <1>10, Part0036 DEF Upgrade
<1>11. QED
  BY <1>1, <1>2, <1>3, <1>4, <1>5, <1>6, <1>7, <1>8, <1>9, <1>10 DEF Latest

(* migrate.py makes of main all that the revisions make, and of a tenant   *)
(* the tenant's part of it.                                                *)
LEMMA MainUpgraded ==
    ASSUME NEW k \in 0 .. Latest
    PROVE  UpgradeFrom(k, SchemaAt[k]) = SchemaAt[Latest]
<1>1. \A n \in (k + 1) .. Latest : SchemaAt[n] = Upgrade(n, SchemaAt[n - 1])
  BY SchemaChain DEF Latest
<1>2. QED
  BY <1>1, UpgradeFollows

LEMMA TenantUpgraded ==
    ASSUME NEW k \in Slugged
    PROVE  UpgradeFrom(k, PartAt(k)) = PartAt(Latest)
<1> DEFINE g == [n \in 0 .. Latest |-> PartAt(n)]
<1>1. k \in 0 .. Latest /\ Latest \in 0 .. Latest
  BY DEF Slugged, Latest
<1>2. ASSUME NEW n \in (k + 1) .. Latest
      PROVE  g[n] = Upgrade(n, g[n - 1])
  <2>1. n \in 27 .. Latest /\ n \in 1 .. Latest /\ n \in 0 .. Latest /\ n - 1 \in 0 .. Latest
    BY DEF Slugged, Latest
  <2>2. g[n] = TenantPart(Upgrade(n, SchemaAt[n - 1])) /\ g[n - 1] = TenantPart(SchemaAt[n - 1])
    BY <2>1, SchemaChain DEF PartAt
  <2>3. QED
    BY <2>1, <2>2, RevisionPart
<1>3. g[k] = PartAt(k) /\ g[Latest] = PartAt(Latest)
  BY <1>1
<1> HIDE DEF g
<1>4. QED
  BY <1>1, <1>2, <1>3, UpgradeFollows

LEMMA NothingToUpgrade ==
    ASSUME NEW facts
    PROVE  UpgradeFrom(Latest, facts) = facts
<1> DEFINE g == [n \in {Latest} |-> facts]
<1>1. \A n \in (Latest + 1) .. Latest : g[n] = Upgrade(n, g[n - 1])
  BY DEF Latest
<1>2. g[Latest] = facts /\ Latest \in 0 .. Latest
  BY DEF Latest
<1> HIDE DEF g
<1>3. QED
  BY <1>1, <1>2, UpgradeFollows

(***************************************************************************)
(* The rows of public.tenants.                                             *)
(***************************************************************************)
IsRest(f, q, s) ==
    f = [i \in 0 .. Len(q) |-> IF i = 0 THEN <<>>
                               ELSE IF q[i] = s THEN f[i - 1] ELSE Append(f[i - 1], q[i])]

LEMMA RestExists ==
    ASSUME NEW S, NEW q \in Seq(S), NEW s
    PROVE  \E f : IsRest(f, q, s)
<1> DEFINE Next1(v, i) == IF q[i] = s THEN v ELSE Append(v, q[i])
           Chain(f, n) == \A m \in 0 .. n : f[m] = IF m = 0 THEN <<>> ELSE Next1(f[m - 1], m)
           T == {n \in Nat : ~ \E f : Chain(f, n)}
<1> HIDE DEF Next1
<1>1. T = {}
  <2> SUFFICES ASSUME T # {} PROVE FALSE
    OBVIOUS
  <2>1. PICK n \in T : \A y \in T : n <= y
    <3>1. T \in SUBSET Nat
      OBVIOUS
    <3> HIDE DEF T
    <3>2. QED
      BY <3>1, LeastOf
  <2>2. CASE n = 0
    <3>1. Chain([m \in {0} |-> <<>>], n)
      BY <2>2
    <3>2. QED
      BY <2>1, <3>1
  <2>3. CASE n # 0
    <3>1. n - 1 \in Nat /\ n - 1 \notin T
      <4>1. n \in Nat
        BY <2>1
      <4> HIDE DEF T
      <4>2. QED
        BY <2>1, <2>3, <4>1
    <3>2. PICK f : Chain(f, n - 1)
      BY <3>1
    <3> DEFINE g == [m \in 0 .. n |-> IF m = n THEN Next1(f[n - 1], n) ELSE f[m]]
    <3>3. Chain(g, n)
      <4> SUFFICES ASSUME NEW m \in 0 .. n
                   PROVE  g[m] = IF m = 0 THEN <<>> ELSE Next1(g[m - 1], m)
        OBVIOUS
      <4>1. CASE m = n
        <5>1. g[m] = Next1(f[n - 1], n) /\ g[m - 1] = f[n - 1]
          BY <4>1, <3>1
        <5>2. QED
          BY <5>1, <4>1, <2>3
      <4>2. CASE m # n
        <5>1. m \in 0 .. (n - 1) /\ m \in 0 .. n /\ (m # 0 => m - 1 \in 0 .. n /\ m - 1 # n)
          BY <4>2, <3>1
        <5>2. g[m] = f[m] /\ (m # 0 => g[m - 1] = f[m - 1])
          BY <4>2, <5>1
        <5>3. QED
          BY <5>2, <5>1, <3>2
      <4>3. QED
        BY <4>1, <4>2
    <3> HIDE DEF Chain, g
    <3>4. QED
      BY <2>1, <3>3
  <2>4. QED
    BY <2>2, <2>3
<1>2. PICK f : Chain(f, Len(q))
  <2>1. Len(q) \in Nat /\ Len(q) \notin T
    BY <1>1
  <2> HIDE DEF Chain
  <2>2. QED
    BY <2>1
<1> DEFINE g == [m \in 0 .. Len(q) |-> f[m]]
<1>3. g = [i \in 0 .. Len(q) |-> IF i = 0 THEN <<>> ELSE Next1(g[i - 1], i)]
  <2>1. ASSUME NEW n \in 0 .. Len(q)
        PROVE  f[n] = IF n = 0 THEN <<>> ELSE Next1(g[n - 1], n)
    <3>1. n # 0 => n - 1 \in 0 .. Len(q)
      OBVIOUS
    <3>2. QED
      BY <1>2, <3>1
  <2>2. QED
    BY <2>1
<1> HIDE DEF g
<1>4. QED
  BY <1>3, Zenon DEF IsRest, Next1

Items(q) == {q[i] : i \in DOMAIN q}

LEMMA RegisteredItems == Registered = Items(tenant)
  BY DEF Registered, Items

LEMMA Appended ==
    ASSUME NEW S, NEW q \in Seq(S), NEW x \in S
    PROVE  /\ Append(q, x) \in Seq(S)
           /\ Items(Append(q, x)) = Items(q) \cup {x}
<1>1. /\ Append(q, x) \in Seq(S) /\ DOMAIN q = 1 .. Len(q)
      /\ DOMAIN Append(q, x) = 1 .. (Len(q) + 1)
      /\ \A i \in 1 .. Len(q) : Append(q, x)[i] = q[i]
      /\ Append(q, x)[Len(q) + 1] = x /\ Len(q) \in Nat
  OBVIOUS
<1> DEFINE new == Append(q, x)
<1> HIDE DEF new
<1>2. DOMAIN new = DOMAIN q \cup {Len(q) + 1}
  BY <1>1 DEF new
<1>3. QED
  BY <1>1, <1>2 DEF new, Items

LEMMA Remaining ==
    ASSUME NEW S, NEW q \in Seq(S), NEW s
    PROVE  /\ Without(q, s) \in Seq(S \ {s})
           /\ Items(Without(q, s)) = Items(q) \ {s}
<1> DEFINE rest[i \in 0 .. Len(q)] ==
             IF i = 0 THEN <<>>
             ELSE IF q[i] = s THEN rest[i - 1] ELSE Append(rest[i - 1], q[i])
           Right(n) == /\ rest[n] \in Seq(S \ {s})
                       /\ Items(rest[n]) = {q[j] : j \in 1 .. n} \ {s}
           Wrong == {n \in 0 .. Len(q) : ~ Right(n)}
<1>1. rest = [i \in 0 .. Len(q) |-> IF i = 0 THEN <<>>
                                    ELSE IF q[i] = s THEN rest[i - 1] ELSE Append(rest[i - 1], q[i])]
  <2>1. \E f : IsRest(f, q, s)
    BY RestExists
  <2>2. QED
    BY <2>1, Zenon DEF IsRest
<1>2. Without(q, s) = rest[Len(q)]
  BY Zenon DEF Without
<1> HIDE DEF rest
<1>6. rest[0] = <<>>
  <2>1. 0 \in 0 .. Len(q)
    OBVIOUS
  <2>2. QED
    BY <1>1, <2>1
<1>7. ASSUME NEW n \in 1 .. Len(q)
      PROVE  rest[n] = IF q[n] = s THEN rest[n - 1] ELSE Append(rest[n - 1], q[n])
  <2>1. n \in 0 .. Len(q) /\ n # 0
    OBVIOUS
  <2>2. QED
    BY <1>1, <2>1
<1>3. Wrong = {}
  <2> SUFFICES ASSUME Wrong # {} PROVE FALSE
    OBVIOUS
  <2>1. PICK n \in Wrong : \A y \in Wrong : n <= y
    <3>1. Wrong \in SUBSET Nat
      OBVIOUS
    <3> HIDE DEF Wrong
    <3>2. QED
      BY <3>1, LeastOf
  <2>2. Right(0)
    <3>1. rest[0] \in Seq(S \ {s}) /\ DOMAIN rest[0] = {}
      BY <1>6
    <3>2. QED
      BY <3>1 DEF Items
  <2>3. n \in 1 .. Len(q) /\ n - 1 \in 0 .. Len(q) /\ Right(n - 1)
    <3>1. n \in 1 .. Len(q) /\ n - 1 \in 0 .. Len(q)
      <4>1. n \in 0 .. Len(q) /\ ~ Right(n)
        BY <2>1
      <4> HIDE DEF Right, Wrong
      <4>2. QED
        BY <2>2, <4>1
    <3>2. n - 1 \notin Wrong
      <4> HIDE DEF Wrong
      <4>1. QED
        BY <2>1, <3>1
    <3>3. QED
      BY <3>1, <3>2
  <2>4. {q[j] : j \in 1 .. n} = {q[j] : j \in 1 .. (n - 1)} \cup {q[n]} /\ q[n] \in S
    BY <2>3
  <2>5. CASE q[n] = s
    <3>1. rest[n] = rest[n - 1]
      BY <1>7, <2>3, <2>5
    <3>2. {q[j] : j \in 1 .. n} \ {s} = {q[j] : j \in 1 .. (n - 1)} \ {s}
      BY <2>4, <2>5
    <3>3. Right(n)
      BY <2>3, <3>1, <3>2
    <3>4. QED
      BY <2>1, <3>3
  <2>6. CASE q[n] # s
    <3> DEFINE r == rest[n - 1]
    <3>1. rest[n] = Append(r, q[n]) /\ q[n] \in S \ {s} /\ r \in Seq(S \ {s})
      BY <1>7, <2>3, <2>4, <2>6
    <3>2. Items(r) = {q[j] : j \in 1 .. (n - 1)} \ {s}
      BY <2>3
    <3> HIDE DEF r
    <3>3. rest[n] \in Seq(S \ {s})
          /\ Items(rest[n]) = Items(r) \cup {q[n]}
      BY <3>1, Appended
    <3>4. Right(n)
      BY <2>4, <2>6, <3>2, <3>3
    <3>5. QED
      BY <2>1, <3>4
  <2>7. QED
    BY <2>5, <2>6
<1>4. Right(Len(q))
  <2>1. Len(q) \in 0 .. Len(q)
    OBVIOUS
  <2>2. QED
    BY <1>3, <2>1
<1>5. QED
  <2>1. Items(q) = {q[j] : j \in 1 .. Len(q)}
    BY DEF Items
  <2>2. QED
    BY <1>2, <1>4, <2>1

(***************************************************************************)
(* The schemas.                                                            *)
(***************************************************************************)
LEMMA CatalogIs ==
    ASSUME NEW f \in Catalog
    PROVE  DOMAIN f \subseteq Schemas /\ \A s \in DOMAIN f : f[s] \in SchemaRow
<1>1. PICK S \in SUBSET Schemas : f \in [S -> SchemaRow]
  BY DEF Catalog
<1>2. QED
  BY <1>1

LEMMA PutIs ==
    ASSUME schema \in Catalog, NEW s \in Schemas, NEW facts \in Content, NEW stamp \in 0 .. Latest,
           schema' = Put(s, facts, stamp)
    PROVE  /\ schema' \in Catalog
           /\ DOMAIN schema' = DOMAIN schema \cup {s}
           /\ schema'[s].facts = facts /\ schema'[s].stamp = stamp
           /\ \A x \in DOMAIN schema \ {s} : schema'[x] = schema[x]
<1> DEFINE row == [facts |-> facts, stamp |-> stamp]
           new == [x \in DOMAIN schema \cup {s} |-> IF x = s THEN row ELSE schema[x]]
<1>1. row \in SchemaRow /\ row.facts = facts /\ row.stamp = stamp
  BY DEF SchemaRow
<1>2. schema' = new
  BY Zenon DEF Put
<1> HIDE DEF row
<1>3. DOMAIN new = DOMAIN schema \cup {s} /\ new[s] = row
      /\ \A x \in DOMAIN schema \ {s} : new[x] = schema[x]
  OBVIOUS
<1>4. DOMAIN schema \subseteq Schemas /\ \A x \in DOMAIN schema : schema[x] \in SchemaRow
  BY CatalogIs
<1>5. new \in [DOMAIN schema \cup {s} -> SchemaRow]
  BY <1>1, <1>4
<1> HIDE DEF new
<1>6. new \in Catalog
  BY <1>4, <1>5 DEF Catalog
<1>7. QED
  BY <1>1, <1>2, <1>3, <1>6

LEMMA DropIs ==
    ASSUME schema \in Catalog, NEW s, schema' = Drop(s)
    PROVE  /\ schema' \in Catalog
           /\ DOMAIN schema' = DOMAIN schema \ {s}
           /\ \A x \in DOMAIN schema \ {s} : schema'[x] = schema[x]
<1>1. DOMAIN schema \subseteq Schemas /\ \A x \in DOMAIN schema : schema[x] \in SchemaRow
  BY CatalogIs
<1>2. schema' \in [DOMAIN schema \ {s} -> SchemaRow]
  BY <1>1 DEF Drop
<1>3. QED
  BY <1>1, <1>2 DEF Catalog, Drop

LEMMA Contents ==
    /\ {} \in Content /\ Provisioned \in Content
    /\ \A k \in 0 .. Latest : SchemaAt[k] \in Content
    /\ \A k \in Slugged : PartAt(k) \in Content
    /\ Latest \in Slugged /\ Latest \in 0 .. Latest /\ 0 \in 0 .. Latest /\ Slugged \subseteq 0 .. Latest
  BY DEF Content, Slugged, Latest

LEMMA Names ==
    /\ "main" \in Schemas /\ Tenants \subseteq Schemas /\ Schemas \ {"main"} = Tenants
    /\ \A s \in Tenants : s # "main"
  BY TenantsAssumption DEF Schemas

(* Main as it is, or as it is not there.                                   *)
LEMMA MainStored ==
    ASSUME Types, AllMade
    PROVE  /\ Stored("main").stamp \in 0 .. Latest
           /\ Stored("main").facts = SchemaAt[Stored("main").stamp]
           /\ UpgradeFrom(Stored("main").stamp, Stored("main").facts) = SchemaAt[Latest]
           /\ "main" \in DOMAIN schema => Stored("main") = schema["main"]
<1>1. CASE "main" \in DOMAIN schema
  <2>1. Stored("main") = schema["main"] /\ schema["main"] \in SchemaRow
    BY <1>1, CatalogIs DEF Stored, Types
  <2>2. schema["main"].facts = SchemaAt[schema["main"].stamp]
    BY <1>1 DEF AllMade, Made
  <2>3. schema["main"].stamp \in 0 .. Latest
    BY <2>1 DEF SchemaRow
  <2>4. QED
    BY <2>1, <2>2, <2>3, MainUpgraded
<1>2. CASE "main" \notin DOMAIN schema
  <2>1. Stored("main").stamp = 0 /\ Stored("main").facts = {}
    BY <1>2 DEF Stored
  <2>2. SchemaAt[0] = {} /\ 0 \in 0 .. Latest
    BY SchemaChain, Contents
  <2>3. QED
    BY <1>2, <2>1, <2>2, MainUpgraded
<1>3. QED
  BY <1>1, <1>2

(* The step that 0001 to the head makes of main, in the entrypoint and in  *)
(* the reset.                                                              *)
LEMMA MainUpgrades ==
    ASSUME Types, AllMade, Rowed, UpgradeMain
    PROVE  /\ tenant' \in Seq(Schemas) /\ schema' \in Catalog /\ AllMade' /\ Rowed'
           /\ "main" \in DOMAIN schema' /\ schema'["main"].stamp = Latest
           /\ DOMAIN schema' = DOMAIN schema \cup {"main"}
           /\ \A s \in DOMAIN schema \ {"main"} : schema'[s] = schema[s]
           /\ Registered' = Registered \/ Registered' = {"main"}
<1>1. /\ schema' = Put("main", SchemaAt[Latest], Latest)
      /\ tenant' = IF Stored("main").stamp = 0 THEN <<"main">> ELSE tenant
  BY MainStored, Zenon DEF UpgradeMain
<1>2. /\ schema' \in Catalog /\ DOMAIN schema' = DOMAIN schema \cup {"main"}
      /\ schema'["main"].stamp = Latest /\ schema'["main"].facts = SchemaAt[Latest]
      /\ \A s \in DOMAIN schema \ {"main"} : schema'[s] = schema[s]
  <2>1. schema \in Catalog /\ "main" \in Schemas /\ SchemaAt[Latest] \in Content
        /\ Latest \in 0 .. Latest
    BY Names, Contents DEF Types
  <2>2. QED
    BY <1>1, <2>1, PutIs
<1>3. tenant' \in Seq(Schemas)
  BY <1>1, Names DEF Types
<1>4. Registered' = Registered \/ (Registered' = {"main"} /\ Stored("main").stamp = 0)
  <2>1. {<<"main">>[i] : i \in DOMAIN <<"main">>} = {"main"}
    OBVIOUS
  <2>2. CASE Stored("main").stamp = 0
    BY <1>1, <2>1, <2>2 DEF Registered
  <2>3. CASE Stored("main").stamp # 0
    BY <1>1, <2>3 DEF Registered
  <2>4. QED
    BY <2>2, <2>3
<1>5. AllMade'
  BY <1>2 DEF AllMade, Made
<1>6. Rowed'
  <2>1. ASSUME NEW s \in DOMAIN schema' \ {"main"},
               schema'[s].facts # {} \/ schema'[s].stamp \notin {0, Latest}
        PROVE  s \in Registered'
    <3>1. s \in Registered
      BY <1>2, <2>1 DEF Rowed
    <3>2. Stored("main").stamp # 0
      BY <2>1, <3>1 DEF Rowed
    <3>3. QED
      BY <1>4, <3>1, <3>2
  <2>2. Stored("main")'.stamp = Latest
    BY <1>2 DEF Stored
  <2>3. QED
    BY <2>1, <2>2 DEF Rowed, Latest
<1>7. QED
  BY <1>2, <1>3, <1>4, <1>5, <1>6

(* What provision_tenant.py makes is not nothing. *)
LEMMA SomethingProvisioned == Provisioned # {}
<1>1. AppendOnly \in {AppendOnly} /\ <<"audit_log">> \o AppendOnly \in About("audit_log", {AppendOnly})
  BY DEF About
<1>2. QED
  BY <1>1 DEF Provisioned

(* Nor is what the chain of migrations leaves of a tenant: it has users.   *)
LEMMA SomethingMigrated == PartAt(Latest) # {}
<1> DEFINE fact == <<"users">> \o <<"table">>
<1>1. fact[1] = "users" /\ fact[2] = "table"
  OBVIOUS
<1>2. fact \in users
  BY Zenon DEF users, Table, About
<1> HIDE DEF fact
<1>3. fact \in Metadata
  BY <1>2, Zenon DEF Metadata
<1>4. "users" \notin PublicTables
  BY DEF PublicTables
<1>5. fact \in Shape(TenantPart(Metadata))
  BY <1>1, <1>3, <1>4 DEF Shape, TenantPart
<1>6. fact \in Shape(PartAt(Latest))
  BY <1>5, ChainMeetsMetadata DEF PartAt
<1>7. QED
  BY <1>6 DEF Shape

(* A step that gives no row to a tenant, puts none on the list of          *)
(* migrate.py but with its row, and stamps nothing that is empty.          *)
LEMMA ForsakenKept ==
    ASSUME IInv, Registered' \subseteq Registered \cup {"main"},
           \A i \in DOMAIN boot'.todo : \/ boot'.todo[i] \in Registered'
                                        \/ \E j \in DOMAIN boot.todo : boot.todo[j] = boot'.todo[i],
           \A x \in DOMAIN schema' \ {"main"} :
               \/ x \in DOMAIN schema /\ schema'[x] = schema[x]
               \/ schema'[x].facts # {} \/ schema'[x].stamp # Latest
    PROVE  Forsaken'
<1> SUFFICES ASSUME NEW x \in DOMAIN schema' \ {"main"}, schema'[x].facts = {},
                    schema'[x].stamp = Latest
             PROVE  Abandoned(x)'
  BY DEF Forsaken
<1>1. Abandoned(x)
  BY DEF IInv, Forsaken
<1>2. QED
  BY <1>1 DEF Abandoned

(***************************************************************************)
(* The entrypoint.                                                         *)
(***************************************************************************)
LEMMA RestartKeeps ==
    ASSUME IInv, Restart
    PROVE  IInv'
<1>1. /\ UNCHANGED <<tenant, schema>> /\ script' = Idle /\ boot' = [step |-> "main", todo |-> <<>>]
  BY DEF Restart
<1>2. Types'
  <2>1. Idle \in Script /\ [step |-> "main", todo |-> <<>>] \in Entrypoint
    BY Names DEF Idle, Script, Entrypoint
  <2>2. QED
    BY <1>1, <2>1 DEF IInv, Types
<1>3. AllMade' /\ Rowed'
  BY <1>1 DEF IInv, AllMade, Rowed, Registered, Stored
<1>4. Serving' /\ Passed' /\ Scripted'
  BY <1>1 DEF Serving, Passed, Scripted, Idle
<1>5. Forsaken'
  BY <1>1, ForsakenKept DEF Registered
<1>6. QED
  BY <1>2, <1>3, <1>4, <1>5 DEF IInv

LEMMA MigrateMainKeeps ==
    ASSUME IInv, MigrateMain
    PROVE  IInv'
<1>1. /\ boot.step = "main" /\ UpgradeMain /\ script' = script /\ script = Idle
      /\ boot' = [step |-> "tenants", todo |-> Without(tenant', "main")]
  BY DEF MigrateMain, IInv, Serving, Listed
<1>2. /\ tenant' \in Seq(Schemas) /\ schema' \in Catalog /\ AllMade' /\ Rowed'
      /\ "main" \in DOMAIN schema' /\ schema'["main"].stamp = Latest
      /\ DOMAIN schema' = DOMAIN schema \cup {"main"}
      /\ \A s \in DOMAIN schema \ {"main"} : schema'[s] = schema[s]
      /\ Registered' = Registered \/ Registered' = {"main"}
  BY <1>1, MainUpgrades DEF IInv
<1> DEFINE todo == Without(tenant', "main")
<1>3. todo \in Seq(Tenants) /\ Items(todo) = Items(tenant') \ {"main"}
  <2>1. Without(tenant', "main") \in Seq(Schemas \ {"main"})
        /\ Items(Without(tenant', "main")) = Items(tenant') \ {"main"}
    BY <1>2, Remaining
  <2>2. QED
    BY <2>1, Names
<1> HIDE DEF todo
<1>4. /\ boot' = [step |-> "tenants", todo |-> todo]
      /\ {todo[i] : i \in DOMAIN todo} = Registered' \ {"main"}
  BY <1>1, <1>3 DEF todo, Registered, Items
<1>5. Types'
  BY <1>1, <1>2, <1>3, <1>4 DEF IInv, Types, Entrypoint
<1>6. Serving' /\ Passed'
  BY <1>1, <1>2, <1>4 DEF Serving, Passed
<1>7. Scripted'
  BY <1>1 DEF Scripted, Idle
<1>8. Forsaken'
  <2>1. boot'.todo = todo
    BY <1>4
  <2>2. \A i \in DOMAIN boot'.todo : boot'.todo[i] \in Registered'
    BY <1>4, <2>1
  <2>3. QED
    BY <1>2, <2>2, ForsakenKept
<1>9. QED
  BY <1>2, <1>5, <1>6, <1>7, <1>8 DEF IInv

LEMMA MigrateTenantKeeps ==
    ASSUME IInv, MigrateTenant
    PROVE  IInv'
<1> DEFINE s == boot.todo[1]
           at == Stored(s)
<1>1. /\ boot.step = "tenants" /\ boot.todo # <<>> /\ script' = script /\ script = Idle
      /\ tenant' = tenant
      /\ at.stamp = 0 => schema' = Put(s, at.facts, 0) /\ boot' = [step |-> "failed", todo |-> <<>>]
      /\ at.stamp # 0 => /\ schema' = Put(s, UpgradeFrom(at.stamp, at.facts), Latest)
                         /\ boot' = [boot EXCEPT !.todo = Tail(@)]
  BY DEF MigrateTenant, IInv, Serving
<1>2. /\ s \in Tenants /\ s \in Schemas /\ s # "main"
      /\ boot.todo \in Seq(Tenants) /\ Len(boot.todo) \in Nat \ {0}
      /\ boot \in Entrypoint
  <2>1. boot \in Entrypoint /\ boot.todo \in Seq(Tenants)
    BY DEF IInv, Types, Entrypoint
  <2>2. boot.todo[1] \in Tenants /\ Len(boot.todo) \in Nat \ {0}
    BY <1>1, <2>1
  <2>3. QED
    BY <2>1, <2>2, Names
<1>3. schema \in Catalog /\ "main" \in DOMAIN schema /\ schema["main"].stamp = Latest
  BY <1>1 DEF IInv, Types, Serving, Idle
<1>4. \/ at.facts = {} /\ at.stamp = 0
      \/ at.facts = {} /\ at.stamp = Latest
      \/ at.facts = Provisioned /\ at.stamp \in {0, Latest}
      \/ at.facts = PartAt(at.stamp) /\ at.stamp \in Slugged
  BY <1>2 DEF Stored, IInv, AllMade, Made
<1>5. s \notin DOMAIN schema => at.facts = {} /\ at.stamp = 0
  BY DEF Stored
<1>6. (s \in DOMAIN schema => at = schema[s]) /\ ~Abandoned(s)
  BY <1>1, <1>2 DEF Stored, Abandoned
<1> HIDE DEF s, at
<1>7. CASE at.stamp = 0
  <2>1. at.facts \in Content /\ 0 \in 0 .. Latest /\ ~ (at.facts = PartAt(at.stamp) /\ at.stamp \in Slugged)
    BY <1>4, <1>7, Contents DEF Slugged
  <2>2. schema' = Put(s, at.facts, 0)
    BY <1>1, <1>7
  <2>3. /\ schema' \in Catalog /\ DOMAIN schema' = DOMAIN schema \cup {s}
        /\ schema'[s].facts = at.facts /\ schema'[s].stamp = 0
        /\ \A x \in DOMAIN schema \ {s} : schema'[x] = schema[x]
    BY <1>2, <1>3, <2>1, <2>2, PutIs
  <2>4. AllMade'
    BY <1>2, <1>4, <1>7, <2>1, <2>3 DEF IInv, AllMade, Made
  <2>5. Types' /\ Serving' /\ Passed' /\ Scripted'
    <3>1. boot' = [step |-> "failed", todo |-> <<>>]
      BY <1>1, <1>7
    <3>2. boot' \in Entrypoint
      BY <3>1 DEF Entrypoint
    <3>3. Types'
      BY <1>1, <2>3, <3>2 DEF IInv, Types
    <3>4. QED
      BY <1>1, <3>1, <3>3 DEF Serving, Passed, Scripted, Idle
  <2>6. Stored("main")' = Stored("main")
    BY <1>2, <1>3, <2>3 DEF Stored
  <2>7. Rowed'
    <3>1. ASSUME NEW x \in DOMAIN schema' \ {"main"},
                 schema'[x].facts # {} \/ schema'[x].stamp \notin {0, Latest}
          PROVE  x \in Registered
      <4>1. CASE x = s
        <5>1. at.facts # {}
          BY <2>3, <3>1, <4>1
        <5>2. s \in DOMAIN schema /\ schema[s].facts # {}
          BY <1>5, <1>6, <5>1
        <5>3. QED
          BY <1>2, <4>1, <5>2 DEF IInv, Rowed
      <4>2. CASE x # s
        BY <2>3, <3>1, <4>2 DEF IInv, Rowed
      <4>3. QED
        BY <4>1, <4>2
    <3>2. Registered' = Registered
      BY <1>1 DEF Registered
    <3>3. QED
      BY <2>6, <3>1, <3>2 DEF IInv, Rowed
  <2>8. Forsaken'
    <3>1. Registered' = Registered /\ boot'.todo = <<>>
      BY <1>1, <1>7 DEF Registered
    <3>2. QED
      BY <2>3, <3>1, ForsakenKept DEF Latest
  <2>9. QED
    BY <2>4, <2>5, <2>7, <2>8 DEF IInv
<1>8. CASE at.stamp # 0
  <2>1. s \in DOMAIN schema /\ s \in Registered /\ ~(at.facts = {} /\ at.stamp = Latest)
    <3>1. s \in DOMAIN schema /\ at = schema[s]
      BY <1>5, <1>6, <1>8
    <3>2. ~(schema[s].facts = {} /\ schema[s].stamp = Latest)
      BY <1>2, <1>6, <3>1 DEF IInv, Forsaken
    <3>3. QED
      BY <1>2, <1>8, <3>1, <3>2 DEF IInv, Rowed
  <2>2. UpgradeFrom(at.stamp, at.facts) \in {Provisioned, PartAt(Latest)}
    BY <1>4, <1>8, <2>1, NothingToUpgrade, TenantUpgraded
  <2> DEFINE new == UpgradeFrom(at.stamp, at.facts)
  <2>3. new \in Content /\ new \in {Provisioned, PartAt(Latest)} /\ Latest \in 0 .. Latest
    BY <2>2, Contents
  <2>4. schema' = Put(s, new, Latest) /\ boot' = [boot EXCEPT !.todo = Tail(@)]
    BY <1>1, <1>8
  <2> HIDE DEF new
  <2>5. /\ schema' \in Catalog /\ DOMAIN schema' = DOMAIN schema \cup {s}
        /\ schema'[s].facts = new /\ schema'[s].stamp = Latest
        /\ \A x \in DOMAIN schema \ {s} : schema'[x] = schema[x]
    <3>1. s \in Schemas /\ new \in Content /\ Latest \in 0 .. Latest /\ schema \in Catalog
          /\ schema' = Put(s, new, Latest)
      BY <1>2, <1>3, <2>3, <2>4
    <3>2. QED
      BY <3>1, PutIs
  <2>6. AllMade'
    BY <1>2, <2>3, <2>5, Contents DEF IInv, AllMade, Made
  <2>7. boot'.step = "tenants" /\ boot'.todo = Tail(boot.todo) /\ boot'.todo \in Seq(Tenants)
        /\ boot' \in Entrypoint
    <3>1. Tail(boot.todo) \in Seq(Tenants)
      BY <1>1, <1>2
    <3>2. QED
      BY <1>1, <1>2, <2>4, <3>1 DEF Entrypoint
  <2>8. Types' /\ Scripted'
    BY <1>1, <2>5, <2>7 DEF IInv, Types, Scripted, Idle
  <2>9. Serving'
    BY <1>1, <1>2, <1>3, <2>5, <2>7 DEF Serving
  <2>10. Passed'
    <3> SUFFICES ASSUME NEW x \in (Registered \cap DOMAIN schema) \ {"main"}, x # s
                 PROVE  Current(schema'[x]) \/ \E i \in DOMAIN boot'.todo : boot'.todo[i] = x
      BY <1>1, <1>2, <2>1, <2>3, <2>5 DEF Passed, Current, Registered
    <3>1. Current(schema[x]) \/ \E i \in DOMAIN boot.todo : boot.todo[i] = x
      BY <1>1 DEF IInv, Passed
    <3>2. ASSUME NEW i \in DOMAIN boot.todo, boot.todo[i] = x
          PROVE  \E j \in DOMAIN boot'.todo : boot'.todo[j] = x
      <4>1. i # 1 /\ i \in 1 .. Len(boot.todo)
        BY <1>2, <3>2 DEF s
      <4>2. i - 1 \in DOMAIN boot'.todo /\ boot'.todo[i - 1] = boot.todo[i]
        BY <1>2, <2>7, <4>1
      <4>3. QED
        BY <3>2, <4>2
    <3>3. QED
      BY <2>5, <3>1, <3>2
  <2>11. Stored("main")' = Stored("main")
    BY <1>2, <1>3, <2>5 DEF Stored
  <2>12. Rowed'
    BY <1>1, <1>2, <2>1, <2>5, <2>11 DEF IInv, Rowed, Registered
  <2>13. Forsaken'
    <3>1. \A i \in DOMAIN boot'.todo : i + 1 \in DOMAIN boot.todo /\ boot.todo[i + 1] = boot'.todo[i]
      BY <1>1, <1>2, <2>7
    <3>2. Registered' = Registered
      BY <1>1 DEF Registered
    <3>3. new # {}
      BY <2>3, SomethingProvisioned, SomethingMigrated
    <3>4. QED
      BY <2>3, <2>5, <3>1, <3>2, <3>3, ForsakenKept
  <2>14. QED
    BY <2>6, <2>8, <2>9, <2>10, <2>12, <2>13 DEF IInv
<1>9. QED
  BY <1>7, <1>8

LEMMA RollBackKeeps ==
    ASSUME IInv, RollBack
    PROVE  IInv'
<1> DEFINE k == schema["main"].stamp
<1>1. /\ "main" \in DOMAIN schema /\ k > 0 /\ (k = 8 => Listed = <<>>)
      /\ schema' = Put("main", Downgrade(k, schema["main"].facts), k - 1)
      /\ boot' = [step |-> "behind", todo |-> <<>>] /\ UNCHANGED <<tenant, script>>
      /\ script = Idle
  BY DEF RollBack, IInv, Serving
<1>2. k \in 1 .. Latest /\ schema["main"].facts = SchemaAt[k] /\ schema \in Catalog
      /\ Stored("main") = schema["main"]
  <2>1. Stored("main") = schema["main"] /\ k \in 0 .. Latest
    BY <1>1, MainStored DEF IInv
  <2>2. QED
    BY <1>1, <2>1, MainStored DEF IInv, Types
<1>3. Downgrade(k, SchemaAt[k]) = SchemaAt[k - 1] /\ k - 1 \in 0 .. Latest
  BY <1>2, DowngradesUndoUpgrades DEF Latest
<1>4. SchemaAt[k - 1] \in Content /\ "main" \in Schemas
  BY <1>3, Contents, Names
<1>5. schema' = Put("main", SchemaAt[k - 1], k - 1)
  BY <1>1, <1>2, <1>3
<1> HIDE DEF k
<1>6. /\ schema' \in Catalog /\ DOMAIN schema' = DOMAIN schema \cup {"main"}
      /\ schema'["main"].facts = SchemaAt[k - 1] /\ schema'["main"].stamp = k - 1
      /\ \A x \in DOMAIN schema \ {"main"} : schema'[x] = schema[x]
  BY <1>2, <1>3, <1>4, <1>5, PutIs
<1>7. AllMade'
  BY <1>6 DEF IInv, AllMade, Made
<1>8. Types' /\ Serving' /\ Passed' /\ Scripted'
  <2>1. Types'
    BY <1>1, <1>6 DEF IInv, Types, Entrypoint
  <2>2. QED
    BY <1>1, <2>1 DEF Serving, Passed, Scripted, Idle
<1>9. Stored("main")'.stamp = k - 1
  BY <1>1, <1>6 DEF Stored
<1>10. k - 1 < 8 => Registered \subseteq {"main"}
  <2>1. CASE k = 8
    <3>1. Items(Listed) = Registered \ {"main"}
      <4>1. tenant \in Seq(Schemas)
        BY DEF IInv, Types
      <4>2. QED
        BY <4>1, Remaining, RegisteredItems DEF Listed
    <3>2. Items(Listed) = {}
      BY <1>1, <2>1 DEF Items
    <3>3. QED
      BY <3>1, <3>2
  <2>2. CASE k # 8
    BY <1>2, <2>2 DEF IInv, Rowed, k
  <2>3. QED
    BY <2>1, <2>2
<1>11. Rowed'
  <2>1. Registered' = Registered
    BY <1>1 DEF Registered
  <2>2. \A x \in DOMAIN schema' \ {"main"} :
          schema'[x].facts # {} \/ schema'[x].stamp \notin {0, Latest} => x \in Registered
    BY <1>6 DEF IInv, Rowed
  <2>3. QED
    BY <1>9, <1>10, <2>1, <2>2 DEF Rowed
<1>12. Forsaken'
  <2>1. Registered' = Registered /\ boot'.todo = <<>>
    BY <1>1 DEF Registered
  <2>2. QED
    BY <1>6, <2>1, ForsakenKept
<1>13. QED
  BY <1>7, <1>8, <1>11, <1>12 DEF IInv

LEMMA ServeKeeps ==
    ASSUME IInv, Serve
    PROVE  IInv'
<1>1. /\ boot.step = "tenants" /\ boot.todo = <<>> /\ boot' = [step |-> "up", todo |-> <<>>]
      /\ UNCHANGED <<tenant, schema, script>>
  BY DEF Serve, Up
<1>2. Types' /\ AllMade' /\ Rowed' /\ Scripted'
  <2>1. Types'
    BY <1>1 DEF IInv, Types, Entrypoint
  <2>2. Registered' = Registered /\ Stored("main")' = Stored("main")
    BY <1>1 DEF Registered, Stored
  <2>3. QED
    BY <1>1, <2>1, <2>2 DEF IInv, AllMade, Rowed, Scripted
<1>3. Serving'
  BY <1>1 DEF IInv, Serving
<1>4. Passed' /\ Forsaken'
  BY <1>1, ForsakenKept DEF IInv, Passed, Registered, Current
<1>5. QED
  BY <1>2, <1>3, <1>4 DEF IInv

(***************************************************************************)
(* The scripts.                                                            *)
(***************************************************************************)
Targets == Schemas \cup {"staff", "demo", "real"}

LEMMA ScriptIs ==
    ASSUME script \in Script
    PROVE  /\ script.step \in {"idle", "stamp", "drop schema", "delete row", "migrate", "provision"}
           /\ script.on \in Targets /\ script.next \in Seq(Targets)
           /\ script.step # "idle" => script # Idle
<1>1. Idle.step = "idle"
  BY DEF Idle
<1>2. /\ script.step \in {"idle", "stamp", "drop schema", "delete row", "migrate", "provision"}
      /\ script.on \in Targets /\ script.next \in Seq(Targets)
  BY DEF Script, Targets
<1>3. QED
  BY <1>1, <1>2

LEMMA IdleIs == Idle \in Script /\ Idle.step = "idle"
  BY Names DEF Idle, Script

LEMMA ContinueIs ==
    ASSUME script \in Script
    PROVE  Continue \in Script /\ Continue.step \in {"idle", "provision"}
<1>1. script.next \in Seq(Targets)
  BY ScriptIs
<1>2. CASE script.next = <<>>
  <2>1. Continue = Idle
    BY <1>2 DEF Continue
  <2>2. QED
    BY <2>1, IdleIs
<1>3. CASE script.next # <<>>
  <2>1. Head(script.next) \in Targets /\ Tail(script.next) \in Seq(Targets)
    BY <1>1, <1>3
  <2>2. Continue = [script EXCEPT !.step = "provision", !.on = Head(script.next), !.next = Tail(script.next)]
    BY <1>3 DEF Continue
  <2>3. QED
    BY <2>1, <2>2 DEF Script, Targets
<1>4. QED
  BY <1>2, <1>3

LEMMA GotoIs ==
    ASSUME script \in Script,
           NEW step \in {"idle", "stamp", "drop schema", "delete row", "migrate", "provision"}
    PROVE  Goto(step) \in Script /\ Goto(step).step = step /\ Goto(step).on = script.on
  BY DEF Goto, Script

(* A script that runs has a backend that serves, over a main that is       *)
(* there, once the reset has migrated it.                                  *)
LEMMA ScriptServes ==
    ASSUME IInv, script # Idle \/ boot.step = "up", script.step # "migrate"
    PROVE  /\ boot.step = "up" /\ boot.todo = <<>>
           /\ "main" \in DOMAIN schema /\ schema["main"].stamp = Latest
  BY DEF IInv, Serving

LEMMA Unmoved ==
    ASSUME IInv, UNCHANGED <<tenant, schema, script, boot>>
    PROVE  IInv'
<1>1. Registered' = Registered /\ Stored("main")' = Stored("main")
  BY DEF Registered, Stored
<1>2. Types' /\ AllMade' /\ Serving' /\ Scripted'
  BY DEF IInv, Types, AllMade, Serving, Scripted, Registered
<1>3. Passed' /\ Rowed' /\ Forsaken'
  BY <1>1 DEF IInv, Passed, Rowed, Current, Forsaken, Abandoned
<1>4. QED
  BY <1>2, <1>3 DEF IInv

(* The script alone moves.                                                 *)
LEMMA ScriptMoves ==
    ASSUME IInv, UNCHANGED <<tenant, schema, boot>>, boot.step = "up", script.step # "migrate",
           script' \in Script, Scripted'
    PROVE  IInv'
<1>1. Registered' = Registered /\ Stored("main")' = Stored("main")
  BY DEF Registered, Stored
<1>2. Types' /\ AllMade'
  BY DEF IInv, Types, AllMade
<1>3. Serving'
  BY DEF IInv, Serving
<1>4. Passed' /\ Rowed' /\ Forsaken'
  BY <1>1 DEF IInv, Passed, Rowed, Current, Forsaken, Abandoned
<1>5. QED
  BY <1>2, <1>3, <1>4 DEF IInv

(* The script is between two tenants, or over.                             *)
LEMMA Apart ==
    ASSUME script'.step \in {"idle", "provision", "migrate"}
    PROVE  Scripted'
  BY DEF Scripted

(* provision_tenant.py's transaction, from either caller.                  *)
LEMMA NewSchemaKeeps ==
    ASSUME IInv, NEW s \in Tenants, NewSchema(s), boot.step = "up", script.step # "migrate",
           script' \in Script, script'.step = "stamp", script'.on = s, boot' = boot
    PROVE  IInv'
<1>1. s \in Schemas /\ s # "main" /\ s \notin DOMAIN schema
      /\ tenant' = Append(tenant, s) /\ schema' = Put(s, Provisioned, 0)
  BY Names DEF NewSchema
<1>2. tenant \in Seq(Schemas) /\ schema \in Catalog /\ boot' \in Entrypoint
  BY DEF IInv, Types
<1>3. tenant' \in Seq(Schemas) /\ Registered' = Registered \cup {s}
  <2>1. Append(tenant, s) \in Seq(Schemas)
        /\ Items(Append(tenant, s)) = Items(tenant) \cup {s}
    BY <1>1, <1>2, Appended
  <2>2. Registered' = Items(tenant')
    BY DEF Registered, Items
  <2>3. QED
    BY <1>1, <2>1, <2>2, RegisteredItems
<1>4. /\ schema' \in Catalog /\ DOMAIN schema' = DOMAIN schema \cup {s}
      /\ schema'[s].facts = Provisioned /\ schema'[s].stamp = 0
      /\ \A x \in DOMAIN schema \ {s} : schema'[x] = schema[x]
  BY <1>1, <1>2, Contents, PutIs
<1>5. "main" \in DOMAIN schema /\ schema["main"].stamp = Latest /\ boot.todo = <<>>
  BY ScriptServes
<1>6. Types' /\ AllMade'
  BY <1>1, <1>2, <1>3, <1>4 DEF IInv, Types, AllMade, Made
<1>7. Serving'
  BY <1>1, <1>4, <1>5 DEF Serving
<1>8. Passed'
  BY <1>3, <1>4 DEF IInv, Passed, Current
<1>9. Scripted'
  BY <1>3, <1>4 DEF Scripted
<1>10. Rowed'
  <2>1. Stored("main")'.stamp = Latest /\ ~ Latest < 8
    BY <1>1, <1>4, <1>5 DEF Stored, Latest
  <2>2. QED
    BY <1>3, <1>4, <2>1 DEF IInv, Rowed
<1>11. Forsaken'
  BY <1>1, <1>3, <1>4, SomethingProvisioned DEF IInv, Forsaken, Abandoned
<1>12. QED
  BY <1>6, <1>7, <1>8, <1>9, <1>10, <1>11 DEF IInv

LEMMA ProvisionKeeps ==
    ASSUME IInv, Provision
    PROVE  IInv'
<1>1. PICK s \in Tenants : NewSchema(s) /\ script' = [Idle EXCEPT !.step = "stamp", !.on = s]
  BY DEF Provision
<1>2. boot.step = "up" /\ script = Idle /\ boot' = boot
  BY DEF Provision
<1>3. script' \in Script /\ script'.step = "stamp" /\ script'.on = s
  <2>1. script' = [step |-> "stamp", on |-> s, next |-> <<>>] /\ s \in Targets
    BY <1>1, Names DEF Idle, Targets
  <2>2. QED
    BY <2>1 DEF Script, Targets
<1>4. script.step # "migrate"
  BY <1>2, IdleIs
<1>5. QED
  BY <1>1, <1>2, <1>3, <1>4, NewSchemaKeeps

LEMMA ResetProvisionKeeps ==
    ASSUME IInv, ResetProvision
    PROVE  IInv'
<1>1. /\ script.step = "provision" /\ script.on \in Tenants /\ NewSchema(script.on)
      /\ script' = Goto("stamp") /\ boot' = boot /\ script \in Script
  BY DEF ResetProvision, IInv, Types
<1>2. script' \in Script /\ script'.step = "stamp" /\ script'.on = script.on
  BY <1>1, GotoIs
<1>3. boot.step = "up" /\ script.step # "migrate"
  BY <1>1, ScriptIs, ScriptServes
<1>4. QED
  BY <1>1, <1>2, <1>3, NewSchemaKeeps

(* What is stored of a tenant that a script is about to stamp: all that    *)
(* provision_tenant.py made, or nothing.                                   *)
LEMMA Stamped ==
    ASSUME IInv, script.step = "stamp"
    PROVE  /\ script.on \in Tenants /\ script.on # "main" /\ script.on \in Schemas
           /\ script.on \in DOMAIN schema =>
                /\ script.on \in Registered /\ Stored(script.on) = schema[script.on]
                /\ Stored(script.on).facts = Provisioned /\ Stored(script.on).stamp \in 0 .. Latest
           /\ script.on \notin DOMAIN schema =>
                /\ script.on \notin Registered
                /\ Stored(script.on).facts = {} /\ Stored(script.on).stamp = 0
<1>1. script.on \in Tenants /\ script.on # "main" /\ script.on \in Schemas
  BY Names DEF IInv, Scripted
<1>2. ASSUME script.on \in DOMAIN schema
      PROVE  /\ script.on \in Registered /\ Stored(script.on) = schema[script.on]
             /\ Stored(script.on).facts = Provisioned /\ Stored(script.on).stamp \in 0 .. Latest
  <2>1. schema[script.on] \in SchemaRow
    BY <1>2, CatalogIs DEF IInv, Types
  <2>2. Stored(script.on) = schema[script.on]
    BY <1>2 DEF Stored
  <2>3. QED
    BY <1>2, <2>1, <2>2 DEF IInv, Scripted, SchemaRow
<1>3. ASSUME script.on \notin DOMAIN schema
      PROVE  /\ script.on \notin Registered
             /\ Stored(script.on).facts = {} /\ Stored(script.on).stamp = 0
  BY <1>3 DEF IInv, Scripted, Stored
<1>4. QED
  BY <1>1, <1>2, <1>3

LEMMA StampKeeps ==
    ASSUME IInv, Stamp
    PROVE  IInv'
<1> DEFINE s == script.on
           facts == Stored(s).facts
<1>1. /\ script.step = "stamp" /\ schema' = Put(s, facts, Latest)
      /\ script' = Continue /\ UNCHANGED <<tenant, boot>>
      /\ script \in Script /\ schema \in Catalog /\ Types
  BY DEF Stamp, IInv, Types
<1>2. /\ s \in Tenants /\ s # "main" /\ s \in Schemas
      /\ s \in DOMAIN schema => s \in Registered /\ facts = Provisioned
      /\ s \notin DOMAIN schema => s \notin Registered /\ facts = {}
  BY <1>1, Stamped
<1>3. boot.step = "up" /\ boot.todo = <<>> /\ "main" \in DOMAIN schema /\ schema["main"].stamp = Latest
  BY <1>1, ScriptIs, ScriptServes
<1> HIDE DEF s, facts
<1>4. facts \in Content /\ Latest \in 0 .. Latest /\ Latest > 0
  BY <1>2, Contents DEF Latest
<1>5. /\ schema' \in Catalog /\ DOMAIN schema' = DOMAIN schema \cup {s}
      /\ schema'[s].facts = facts /\ schema'[s].stamp = Latest
      /\ \A x \in DOMAIN schema \ {s} : schema'[x] = schema[x]
  BY <1>1, <1>2, <1>4, PutIs
<1>6. script' \in Script /\ script'.step \in {"idle", "provision"}
  BY <1>1, ContinueIs
<1>7. Registered' = Registered /\ boot' = boot
  BY <1>1 DEF Registered
<1>8. Types' /\ AllMade' /\ Scripted'
  <2>1. Types' /\ Scripted'
    BY <1>1, <1>5, <1>6, Apart DEF Types
  <2>2. Made(s, schema'[s])
    BY <1>2, <1>5 DEF Made
  <2>3. QED
    BY <1>5, <2>1, <2>2 DEF IInv, AllMade
<1>9. Serving'
  BY <1>1, <1>2, <1>3, <1>5 DEF Serving
<1>10. Passed'
  <2>1. s \in Registered => Current(schema'[s])
    BY <1>2, <1>5 DEF Current
  <2>2. QED
    BY <1>5, <1>7, <2>1 DEF IInv, Passed
<1>11. Rowed'
  <2>1. Stored("main")'.stamp = Latest /\ ~ Latest < 8
    BY <1>2, <1>3, <1>5 DEF Stored, Latest
  <2>2. schema'[s].facts # {} => s \in Registered
    BY <1>2, <1>5
  <2>3. QED
    BY <1>5, <1>7, <2>1, <2>2 DEF IInv, Rowed
<1>12. Forsaken'
  <2>1. s \notin DOMAIN schema \/ schema'[s].facts # {}
    BY <1>2, <1>5, SomethingProvisioned
  <2>2. QED
    BY <1>2, <1>3, <1>5, <1>7, <2>1 DEF IInv, Forsaken, Abandoned
<1>13. QED
  BY <1>8, <1>9, <1>10, <1>11, <1>12 DEF IInv

(* The stamp may fail after env.py has made the schema that is missing.    *)
LEMMA StampFailsKeeps ==
    ASSUME IInv, StampFails
    PROVE  IInv'
<1> DEFINE s == script.on
           at == Stored(s)
<1>1. /\ script.step = "stamp" /\ script' = Goto("drop schema")
      /\ schema' = schema \/ schema' = Put(s, at.facts, at.stamp)
      /\ UNCHANGED <<tenant, boot>> /\ script \in Script /\ schema \in Catalog
  BY DEF StampFails, EnsureSchema, IInv, Types
<1>2. script' \in Script /\ script'.step = "drop schema" /\ script'.on = s
  BY <1>1, GotoIs
<1>3. boot.step = "up" /\ script.step # "migrate" /\ boot.todo = <<>>
      /\ "main" \in DOMAIN schema /\ schema["main"].stamp = Latest
  BY <1>1, ScriptIs, ScriptServes
<1>4. /\ s \in Tenants /\ s # "main" /\ s \in Schemas
      /\ s \in DOMAIN schema => at = schema[s] /\ at.facts = Provisioned /\ at.stamp \in 0 .. Latest
      /\ s \notin DOMAIN schema => s \notin Registered /\ at.facts = {} /\ at.stamp = 0
  BY <1>1, Stamped
<1> HIDE DEF s, at
<1>5. Scripted'
  BY <1>2, <1>4 DEF Scripted
<1>6. CASE schema' = schema
  BY <1>1, <1>2, <1>3, <1>5, <1>6, ScriptMoves
<1>7. CASE schema' = Put(s, at.facts, at.stamp)
  <2>1. at.facts \in Content /\ at.stamp \in 0 .. Latest
    BY <1>4, Contents
  <2>2. /\ schema' \in Catalog /\ DOMAIN schema' = DOMAIN schema \cup {s}
        /\ schema'[s].facts = at.facts /\ schema'[s].stamp = at.stamp
        /\ \A x \in DOMAIN schema \ {s} : schema'[x] = schema[x]
    BY <1>1, <1>4, <1>7, <2>1, PutIs
  <2>3. Registered' = Registered /\ boot' = boot
    BY <1>1 DEF Registered
  <2>4. \A x \in DOMAIN schema : schema'[x].facts = schema[x].facts /\ schema'[x].stamp = schema[x].stamp
    BY <1>4, <2>2
  <2>5. Types' /\ AllMade'
    <3>1. Types'
      BY <1>1, <1>2, <2>2 DEF IInv, Types
    <3>2. s \notin DOMAIN schema => Made(s, schema'[s])
      BY <1>4, <2>2 DEF Made
    <3>3. QED
      BY <2>2, <2>4, <3>1, <3>2 DEF IInv, AllMade, Made
  <2>6. Serving' /\ Passed'
    <3>1. Serving'
      BY <1>1, <1>3, <1>4, <2>2, <2>3 DEF Serving
    <3>2. Passed'
      BY <1>4, <2>2, <2>3, <2>4 DEF IInv, Passed, Current
    <3>3. QED
      BY <3>1, <3>2
  <2>7. Rowed'
    <3>1. Stored("main")'.stamp = Latest /\ ~ Latest < 8
      BY <1>3, <1>4, <2>2 DEF Stored, Latest
    <3>2. QED
      BY <1>4, <2>2, <2>3, <2>4, <3>1 DEF IInv, Rowed
  <2>8. Forsaken'
    <3>1. \A x \in DOMAIN schema' \ {"main"} :
            \/ x \in DOMAIN schema /\ schema'[x] = schema[x]
            \/ schema'[x].facts # {} \/ schema'[x].stamp # Latest
      BY <1>4, <2>2, SomethingProvisioned DEF Latest
    <3>2. QED
      BY <2>3, <3>1, ForsakenKept
  <2>9. QED
    BY <1>5, <2>5, <2>6, <2>7, <2>8 DEF IInv
<1>8. QED
  BY <1>1, <1>6, <1>7

LEMMA CleanupFailsKeeps ==
    ASSUME IInv, CleanupSchemaFails \/ CleanupRowFails
    PROVE  IInv'
<1>1. /\ script.step \in {"drop schema", "delete row"} /\ script' = Idle
      /\ UNCHANGED <<tenant, schema, boot>> /\ script \in Script
  BY DEF CleanupSchemaFails, CleanupRowFails, IInv, Types
<1>2. boot.step = "up" /\ script.step # "migrate"
  BY <1>1, ScriptIs, ScriptServes
<1>3. script' \in Script /\ Scripted'
  BY <1>1, IdleIs, Apart
<1>4. QED
  BY <1>1, <1>2, <1>3, ScriptMoves

LEMMA CleanupSchemaKeeps ==
    ASSUME IInv, CleanupSchema
    PROVE  IInv'
<1> DEFINE s == script.on
<1>1. /\ script.step = "drop schema" /\ script' = Goto("delete row") /\ schema' = Drop(s)
      /\ UNCHANGED <<tenant, boot>> /\ script \in Script /\ schema \in Catalog /\ Types
  BY DEF CleanupSchema, IInv, Types
<1>2. script' \in Script /\ script'.step = "delete row" /\ script'.on = s
  BY <1>1, GotoIs
<1>3. s \in Tenants /\ s # "main"
  BY <1>1, Names DEF IInv, Scripted
<1>4. boot.step = "up" /\ boot.todo = <<>> /\ "main" \in DOMAIN schema /\ schema["main"].stamp = Latest
  BY <1>1, ScriptIs, ScriptServes
<1> HIDE DEF s
<1>5. /\ schema' \in Catalog /\ DOMAIN schema' = DOMAIN schema \ {s}
      /\ \A x \in DOMAIN schema \ {s} : schema'[x] = schema[x]
  BY <1>1, DropIs
<1>6. Registered' = Registered
  BY <1>1 DEF Registered
<1>7. Types' /\ AllMade' /\ Scripted'
  <2>1. Types'
    BY <1>1, <1>2, <1>5 DEF Types
  <2>2. AllMade'
    BY <1>5 DEF IInv, AllMade
  <2>3. Scripted'
    BY <1>2, <1>3, <1>5 DEF Scripted
  <2>4. QED
    BY <2>1, <2>2, <2>3
<1>8. Serving'
  BY <1>3, <1>4, <1>5, <1>1 DEF Serving
<1>9. Passed'
  BY <1>1, <1>5, <1>6 DEF IInv, Passed, Current
<1>10. Rowed'
  <2>1. Stored("main")' = Stored("main")
    BY <1>3, <1>4, <1>5 DEF Stored
  <2>2. QED
    BY <1>5, <1>6, <2>1 DEF IInv, Rowed
<1>11. Forsaken'
  BY <1>1, <1>5, <1>6, ForsakenKept
<1>12. QED
  BY <1>7, <1>8, <1>9, <1>10, <1>11 DEF IInv

LEMMA CleanupRowKeeps ==
    ASSUME IInv, CleanupRow
    PROVE  IInv'
<1> DEFINE s == script.on
<1>1. /\ script.step = "delete row" /\ script' = Idle /\ tenant' = Without(tenant, s)
      /\ UNCHANGED <<schema, boot>> /\ script \in Script /\ tenant \in Seq(Schemas) /\ Types
  BY DEF CleanupRow, IInv, Types
<1>2. s \in Tenants /\ s # "main" /\ s \notin DOMAIN schema
  BY <1>1, Names DEF IInv, Scripted
<1>3. tenant' = Without(tenant, s) /\ schema' = schema /\ tenant \in Seq(Schemas)
  BY <1>1
<1>4. boot.step = "up" /\ boot.todo = <<>> /\ "main" \in DOMAIN schema /\ schema["main"].stamp = Latest
  BY <1>1, ScriptIs, ScriptServes
<1> HIDE DEF s
<1>5. tenant' \in Seq(Schemas) /\ Registered' = Registered \ {s}
  <2>1. Without(tenant, s) \in Seq(Schemas \ {s}) /\ Items(Without(tenant, s)) = Items(tenant) \ {s}
    BY <1>3, Remaining
  <2>2. Registered' = Items(tenant')
    BY DEF Registered, Items
  <2>3. QED
    BY <1>3, <2>1, <2>2, RegisteredItems
<1>6. Types' /\ AllMade' /\ Scripted'
  BY <1>1, <1>5, IdleIs, Apart DEF IInv, Types, AllMade
<1>7. Serving'
  BY <1>1, <1>4 DEF Serving
<1>8. Passed'
  BY <1>1, <1>5 DEF IInv, Passed, Current
<1>9. Rowed'
  <2>1. Stored("main")'.stamp = Latest /\ ~ Latest < 8
    BY <1>3, <1>4 DEF Stored, Latest
  <2>2. QED
    BY <1>1, <1>2, <1>5, <2>1 DEF IInv, Rowed
<1>10. Forsaken'
  BY <1>1, <1>5, ForsakenKept
<1>11. QED
  BY <1>6, <1>7, <1>8, <1>9, <1>10 DEF IInv

LEMMA DeprovisionKeeps ==
    ASSUME IInv, Deprovision
    PROVE  IInv'
<1>1. PICK s \in Registered \ {"main"} :
        s \in DOMAIN schema /\ tenant' = Without(tenant, s) /\ schema' = Drop(s)
  BY DEF Deprovision
<1>2. UNCHANGED <<script, boot>> /\ tenant \in Seq(Schemas) /\ schema \in Catalog /\ Types
  BY DEF Deprovision, IInv, Types
<1>3. tenant' \in Seq(Schemas) /\ Registered' = Registered \ {s}
  <2>1. Without(tenant, s) \in Seq(Schemas \ {s}) /\ Items(Without(tenant, s)) = Items(tenant) \ {s}
    BY <1>2, Remaining
  <2>2. Registered' = Items(tenant')
    BY DEF Registered, Items
  <2>3. QED
    BY <1>1, <2>1, <2>2, RegisteredItems
<1>4. /\ schema' \in Catalog /\ DOMAIN schema' = DOMAIN schema \ {s}
      /\ \A x \in DOMAIN schema \ {s} : schema'[x] = schema[x]
  BY <1>1, <1>2, DropIs
<1>5. Types'
  BY <1>2, <1>3, <1>4 DEF Types
<1>6. AllMade'
  BY <1>4 DEF IInv, AllMade
<1>7. Serving'
  <2>1. s # "main" /\ tenant # <<>>
    BY <1>1 DEF Registered
  <2>2. QED
    BY <1>2, <1>4, <2>1 DEF IInv, Serving
<1>8. Passed'
  BY <1>2, <1>3, <1>4 DEF IInv, Passed, Current
<1>9. Scripted'
  BY <1>2, <1>3, <1>4 DEF IInv, Scripted
<1>10. Rowed'
  <2>1. Stored("main")' = Stored("main")
    BY <1>1, <1>4 DEF Stored
  <2>2. QED
    BY <1>1, <1>3, <1>4, <2>1 DEF IInv, Rowed
<1>11. Forsaken'
  BY <1>2, <1>3, <1>4, ForsakenKept
<1>12. QED
  BY <1>5, <1>6, <1>7, <1>8, <1>9, <1>10, <1>11 DEF IInv

(***************************************************************************)
(* The reset.                                                              *)
(***************************************************************************)
LEMMA ResetWipeKeeps ==
    ASSUME IInv, ResetWipe
    PROVE  IInv'
<1> DEFINE plan == <<Demo, Real, "staff", "demo", "real">>
<1>1. /\ boot.step = "up" /\ boot' = boot /\ tenant' = <<>>
      /\ schema' = [s \in {} |-> [facts |-> {}, stamp |-> 0]]
      /\ script' = [step |-> "migrate", on |-> "main", next |-> plan]
      /\ boot.todo = <<>>
  BY DEF ResetWipe, IInv, Serving
<1>2. plan \in Seq(Targets) /\ "main" \in Targets
  <2>1. Demo \in Targets /\ Real \in Targets /\ "staff" \in Targets
        /\ "demo" \in Targets /\ "real" \in Targets
    BY TenantsAssumption, Names DEF Targets
  <2>2. QED
    BY <2>1, Names DEF Targets
<1> HIDE DEF plan
<1>3. script' \in Script /\ script'.step = "migrate"
  BY <1>1, <1>2 DEF Script, Targets
<1>4. DOMAIN schema' = {} /\ schema' \in Catalog
  <2>1. DOMAIN schema' = {} /\ schema' \in [{} -> SchemaRow]
    BY <1>1
  <2>2. QED
    BY <2>1 DEF Catalog
<1>5. Types'
  BY <1>1, <1>3, <1>4 DEF IInv, Types
<1>6. AllMade' /\ Passed' /\ Scripted'
  BY <1>3, <1>4, Apart DEF AllMade, Passed
<1>7. Serving'
  BY <1>1, <1>3, <1>4 DEF Serving
<1>8. Rowed'
  <2>1. Registered' = {}
    BY <1>1 DEF Registered
  <2>2. QED
    BY <1>4, <2>1 DEF Rowed
<1>9. Forsaken'
  BY <1>4 DEF Forsaken
<1>10. QED
  BY <1>5, <1>6, <1>7, <1>8, <1>9 DEF IInv

LEMMA ResetMigrateKeeps ==
    ASSUME IInv, ResetMigrate
    PROVE  IInv'
<1>1. /\ script.step = "migrate" /\ UpgradeMain /\ script' = Continue /\ boot' = boot
      /\ script \in Script /\ Types
  BY DEF ResetMigrate, IInv, Types
<1>2. boot.step = "up" /\ boot.todo = <<>>
  BY <1>1, ScriptIs DEF IInv, Serving
<1>3. script' \in Script /\ script'.step \in {"idle", "provision"}
  BY <1>1, ContinueIs
<1>4. /\ tenant' \in Seq(Schemas) /\ schema' \in Catalog /\ AllMade' /\ Rowed'
      /\ "main" \in DOMAIN schema' /\ schema'["main"].stamp = Latest
      /\ DOMAIN schema' = DOMAIN schema \cup {"main"}
      /\ \A s \in DOMAIN schema \ {"main"} : schema'[s] = schema[s]
      /\ Registered' = Registered \/ Registered' = {"main"}
  BY <1>1, MainUpgrades DEF IInv
<1>5. Types'
  BY <1>1, <1>3, <1>4 DEF Types
<1>6. Serving' /\ Scripted'
  BY <1>1, <1>2, <1>3, <1>4, Apart DEF Serving
<1>7. Passed'
  BY <1>1, <1>2, <1>4 DEF IInv, Passed, Current
<1>8. Forsaken'
  BY <1>1, <1>4, ForsakenKept
<1>9. QED
  BY <1>4, <1>5, <1>6, <1>7, <1>8 DEF IInv

LEMMA ResetSeedKeeps ==
    ASSUME IInv, ResetSeedStaff \/ ResetSeedDemo \/ ResetSeedReal
    PROVE  IInv'
<1>1. /\ script.step = "provision" /\ script' \in {Continue, Idle}
      /\ UNCHANGED <<tenant, schema, boot>> /\ script \in Script
  BY DEF ResetSeedStaff, ResetSeedDemo, ResetSeedReal, IInv, Types
<1>2. boot.step = "up" /\ script.step # "migrate"
  BY <1>1, ScriptIs, ScriptServes
<1>3. script' \in Script /\ script'.step \in {"idle", "provision"}
  BY <1>1, ContinueIs, IdleIs
<1>4. Scripted'
  BY <1>3, Apart
<1>5. QED
  BY <1>1, <1>2, <1>3, <1>4, ScriptMoves

LEMMA InitEstablishes == Init => IInv
<1> SUFFICES ASSUME Init PROVE IInv
  OBVIOUS
<1>1. PICK r \in Releases : \E t \in SUBSET {Demo} :
        /\ tenant = IF t = {} THEN <<"main">> ELSE <<"main", Demo>>
        /\ schema = [s \in {"main"} \cup t |->
              [facts |-> IF s = "main" THEN SchemaAt[r] ELSE TenantPart(SchemaAt[r]), stamp |-> r]]
  BY DEF Init
<1>2. PICK t \in SUBSET {Demo} :
        /\ tenant = IF t = {} THEN <<"main">> ELSE <<"main", Demo>>
        /\ schema = [s \in {"main"} \cup t |->
              [facts |-> IF s = "main" THEN SchemaAt[r] ELSE TenantPart(SchemaAt[r]), stamp |-> r]]
  BY <1>1
<1>3. script = Idle /\ boot = [step |-> "down", todo |-> <<>>]
  BY DEF Init
<1>4. r \in Slugged /\ r \in 0 .. Latest
  BY ReleasesAssumption, Contents DEF Slugged
<1>5. Demo \in Tenants /\ Demo # "main" /\ Demo \in Schemas /\ "main" \in Schemas
  BY TenantsAssumption, Names
<1>6. tenant \in Seq(Schemas) /\ Registered = {"main"} \cup t
  <2>1. CASE t = {}
    <3>1. tenant = <<"main">> /\ DOMAIN <<"main">> = {1}
      BY <1>2, <2>1
    <3>2. QED
      BY <1>5, <2>1, <3>1 DEF Registered
  <2>2. CASE t # {}
    <3>1. tenant = <<"main", Demo>> /\ DOMAIN <<"main", Demo>> = {1, 2} /\ t = {Demo}
      BY <1>2, <2>2
    <3>2. tenant[1] = "main" /\ tenant[2] = Demo
      BY <3>1
    <3>3. QED
      BY <1>5, <3>1, <3>2 DEF Registered
  <2>3. QED
    BY <2>1, <2>2
<1>7. /\ DOMAIN schema = {"main"} \cup t
      /\ \A s \in DOMAIN schema :
            /\ schema[s].stamp = r
            /\ schema[s].facts = IF s = "main" THEN SchemaAt[r] ELSE PartAt(r)
            /\ schema[s] \in SchemaRow
  <2>1. SchemaAt[r] \in Content /\ PartAt(r) \in Content
    BY <1>4, Contents
  <2> DEFINE row(s) == [facts |-> IF s = "main" THEN SchemaAt[r] ELSE PartAt(r), stamp |-> r]
  <2>2. schema = [s \in {"main"} \cup t |-> row(s)]
    BY <1>2, Zenon DEF PartAt
  <2>3. \A s : row(s) \in SchemaRow /\ row(s).stamp = r
               /\ row(s).facts = IF s = "main" THEN SchemaAt[r] ELSE PartAt(r)
    BY <1>4, <2>1 DEF SchemaRow
  <2> HIDE DEF row
  <2>4. QED
    BY <2>2, <2>3
<1>8. schema \in Catalog
  <2>1. DOMAIN schema \subseteq Schemas
    BY <1>5, <1>7
  <2>2. schema \in [DOMAIN schema -> SchemaRow]
    <3>1. schema = [s \in DOMAIN schema |-> schema[s]]
      BY <1>2
    <3>2. QED
      BY <1>7, <3>1
  <2>3. QED
    BY <2>1, <2>2 DEF Catalog
<1>9. Types
  BY <1>3, <1>6, <1>8, IdleIs DEF Types, Entrypoint
<1>10. AllMade
  BY <1>4, <1>7 DEF AllMade, Made
<1>11. Serving /\ Passed /\ Scripted
  BY <1>3, IdleIs DEF Serving, Passed, Scripted
<1>12. Rowed
  <2>1. Stored("main").stamp = r /\ ~ r < 8
    BY <1>4, <1>7 DEF Stored, Slugged
  <2>2. QED
    BY <1>6, <1>7, <2>1 DEF Rowed
<1>13. Forsaken
  <2>1. \A s \in DOMAIN schema \ {"main"} : schema[s].stamp = Latest => schema[s].facts # {}
    BY <1>7, SomethingMigrated
  <2>2. QED
    BY <2>1 DEF Forsaken
<1>14. QED
  BY <1>9, <1>10, <1>11, <1>12, <1>13 DEF IInv

LEMMA NextKeeps == IInv /\ [Next]_vars => IInv'
<1> SUFFICES ASSUME IInv, [Next]_vars
             PROVE  IInv'
  OBVIOUS
<1>1. CASE Restart \/ MigrateMain \/ MigrateTenant \/ Serve \/ RollBack
  BY <1>1, RestartKeeps, MigrateMainKeeps, MigrateTenantKeeps, ServeKeeps, RollBackKeeps
<1>2. CASE Provision \/ Stamp \/ StampFails
  BY <1>2, ProvisionKeeps, StampKeeps, StampFailsKeeps
<1>3. CASE CleanupSchema \/ CleanupSchemaFails \/ CleanupRow \/ CleanupRowFails
  BY <1>3, CleanupSchemaKeeps, CleanupFailsKeeps, CleanupRowKeeps
<1>4. CASE Deprovision
  BY <1>4, DeprovisionKeeps
<1>5. CASE SeedAdmin \/ SeedSuperAdmin \/ SeedTestAccounts
  <2>1. UNCHANGED <<tenant, schema, script, boot>>
    BY <1>5 DEF SeedAdmin, SeedSuperAdmin, SeedTestAccounts
  <2>2. QED
    BY <2>1, Unmoved
<1>6. CASE ResetWipe \/ ResetMigrate \/ ResetProvision
  BY <1>6, ResetWipeKeeps, ResetMigrateKeeps, ResetProvisionKeeps
<1>7. CASE ResetSeedStaff \/ ResetSeedDemo \/ ResetSeedReal
  BY <1>7, ResetSeedKeeps
<1>8. CASE UNCHANGED vars
  BY <1>8, Unmoved DEF vars
<1>9. QED
  BY <1>1, <1>2, <1>3, <1>4, <1>5, <1>6, <1>7, <1>8 DEF Next

(***************************************************************************)
(* What is promised.                                                       *)
(***************************************************************************)
(* The grants are no part of the shape, and the shape of a tenant's part   *)
(* is that of its own part.                                                *)
LEMMA Shapes ==
    /\ \A facts : TenantPart(TenantPart(facts)) = TenantPart(facts)
    /\ Shape(TenantPart(Provisioned)) = Shape(TenantPart(Metadata))
    /\ Shape(Provisioned) = Shape(TenantPart(Metadata))
    /\ \A k : TenantPart(PartAt(k)) = PartAt(k)
    /\ Shape(PartAt(Latest)) = Shape(TenantPart(Metadata))
<1>1. \A facts : TenantPart(TenantPart(facts)) = TenantPart(facts)
  BY DEF TenantPart
<1> DEFINE grants == {<<t>> \o Crud : t \in CrudTables} \cup About("audit_log", {AppendOnly})
<1>2. \A f \in grants : f[2] = "grant"
  <2>1. ASSUME NEW a, NEW b PROVE (<<a>> \o <<"grant", b>>)[2] = "grant"
    OBVIOUS
  <2>2. QED
    BY <2>1 DEF Crud, AppendOnly, Grant, About
<1>3. Provisioned = TenantPart(Metadata) \cup grants
  BY DEF Provisioned
<1> HIDE DEF grants
<1>4. Shape(Provisioned) = Shape(TenantPart(Metadata))
  BY <1>2, <1>3 DEF Shape
<1>5. Shape(TenantPart(Provisioned)) = Shape(TenantPart(Metadata))
  BY <1>2, <1>3 DEF Shape, TenantPart
<1>6. \A k : TenantPart(PartAt(k)) = PartAt(k)
  BY <1>1 DEF PartAt
<1>7. Shape(PartAt(Latest)) = Shape(TenantPart(Metadata))
  BY ChainMeetsMetadata DEF PartAt
<1>8. QED
  BY <1>1, <1>4, <1>5, <1>6, <1>7

(* What the entrypoint, the roll back, the scripts and their failures can  *)
(* leave of main and of a tenant's schema is one of the few contents that  *)
(* a release's migrations or provision_tenant.py make, or nothing; a       *)
(* script stamps a tenant whose row and schema belong together or are both *)
(* gone; and a stamped schema that holds nothing has no row and is on no   *)
(* list of migrate.py.                                                     *)
THEOREM SchemasStayMade == Spec => []IInv
<1>1. Init => IInv
  BY InitEstablishes
<1>2. IInv /\ [Next]_vars => IInv'
  BY NextKeeps
<1>3. QED
  BY <1>1, <1>2, PTL DEF Spec

(* The revision alembic_version holds is the one whose tables are there,   *)
(* for main and every tenant with a row, whatever crash, failed stamp,     *)
(* roll back, reset or removal before the stamp came before.               *)
THEOREM StampsAreTrue == Spec => []StampTellsSchema
<1>1. IInv => StampTellsSchema
  <2> SUFFICES ASSUME IInv, NEW s \in DOMAIN schema, s \in Registered \cup {"main"},
                      schema[s].stamp > 0
               PROVE  IF s = "main" THEN schema[s].facts = SchemaAt[schema[s].stamp]
                      ELSE Shape(schema[s].facts) = Shape(TenantPart(SchemaAt[schema[s].stamp]))
    BY DEF StampTellsSchema
  <2>1. Made(s, schema[s])
    BY DEF IInv, AllMade
  <2>2. CASE s = "main"
    BY <2>1, <2>2 DEF Made
  <2>3. CASE s # "main"
    <3>1. CASE schema[s].facts = Provisioned /\ schema[s].stamp = Latest
      BY <2>3, <3>1, Shapes DEF PartAt
    <3>2. CASE schema[s].facts = PartAt(schema[s].stamp)
      BY <2>3, <3>2 DEF PartAt
    <3>3. ~(schema[s].facts = {} /\ schema[s].stamp = Latest)
      BY <2>3 DEF IInv, Forsaken, Abandoned
    <3>4. schema[s].stamp # 0
      BY CatalogIs DEF IInv, Types, SchemaRow
    <3>5. QED
      BY <2>1, <2>3, <3>1, <3>2, <3>3, <3>4 DEF Made
  <2>4. QED
    BY <2>2, <2>3
<1>2. QED
  BY <1>1, SchemasStayMade, PTL

(* A backend that serves has every tenant's schema as db.py declares it:   *)
(* migrate.py has upgraded it, or provision_tenant.py has made it since.   *)
THEOREM ServedSchemasAreRight == Spec => []ServedSchemasFit
<1>1. IInv => ServedSchemasFit
  <2> SUFFICES ASSUME IInv, boot.step = "up", NEW s \in Registered \cap DOMAIN schema
               PROVE  Shape(TenantPart(schema[s].facts)) = Shape(TenantPart(Metadata))
    BY DEF ServedSchemasFit
  <2>1. CASE s = "main"
    <3>1. schema["main"].stamp = Latest
      BY <2>1 DEF IInv, Serving
    <3>2. schema["main"].facts = SchemaAt[Latest]
      BY <2>1, <3>1 DEF IInv, AllMade, Made
    <3>3. QED
      BY <2>1, <3>2, ChainMeetsMetadata
  <2>2. CASE s # "main"
    <3>1. boot.todo = <<>>
      BY DEF IInv, Serving
    <3>2. Current(schema[s])
      BY <2>2, <3>1 DEF IInv, Passed
    <3>3. QED
      BY <3>2, Shapes DEF Current
  <2>3. QED
    BY <2>1, <2>2
<1>2. QED
  BY <1>1, SchemasStayMade, PTL

(* No failure of provision_tenant.py, of its clean-up or of the entrypoint *)
(* leaves a schema that holds a tenant's tables without its row.           *)
THEOREM DataIsNotForgotten == Spec => []NoForgottenData
<1>1. IInv => NoForgottenData
  BY DEF IInv, Rowed, NoForgottenData
<1>2. QED
  BY <1>1, SchemasStayMade, PTL

=============================================================================
