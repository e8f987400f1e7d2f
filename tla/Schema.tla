------------------------------- MODULE Schema -------------------------------
(***************************************************************************)
(* The tables of the database as backend/maugood/db.py declares them, and  *)
(* what the database does when a row they refer to is deleted.             *)
(*                                                                         *)
(* A schema is a set of facts, each a tuple that begins with the table it  *)
(* is about: that the table exists, a foreign key with its ON DELETE rule, *)
(* a uniqueness or check constraint, the values an enumerated column may   *)
(* have, what the application role is granted.  Columns are stated where   *)
(* some migration adds or drops one after the table came into being; the   *)
(* others come with their table, and so do types and plain indexes.        *)
(***************************************************************************)
EXTENDS Naturals, FiniteSets, Sequences

-----------------------------------------------------------------------------
(* Facts.  Fk, Unique, ... say them of a table that Table names.           *)

Ref(column, parent, rule) == <<"fk", column, parent, rule>>
Cascade(column, parent)   == Ref(column, parent, "CASCADE")
Restrict(column, parent)  == Ref(column, parent, "RESTRICT")
SetNull(column, parent)   == Ref(column, parent, "SET NULL")
Unique(columns)           == <<"unique", columns>>
UniqueWhere(columns, c)   == <<"unique", columns, c>>
Enum(column, values)      == <<"enum", column, values>>
Check(name)               == <<"check", name>>
Column(name)              == <<"column", name>>
NotNull(name)             == <<"not null", name>>
Grant(privileges)         == <<"grant", privileges>>

Columns(names) == {Column(n) : n \in names}

(* Facts of one table: tuples that begin with its name. *)
About(table, rules) == {<<table>> \o r : r \in rules}

Table(table, refs, rules) == About(table, {<<"table">>} \cup refs \cup rules)

(* The tenant a row belongs to: most tables keep it alive, the tables with *)
(* one row per tenant go with it.                                          *)
Owner == Restrict("tenant_id", "public.tenants")
Owned == Cascade("tenant_id", "public.tenants")

-----------------------------------------------------------------------------
(* The tables of db.py, in the order of the file. *)

tenants ==
    Table("public.tenants", {},
          {Unique({"name"}), Unique({"slug"}), Unique({"schema_name"}), Enum("status",
              {"active", "suspended"})} \cup Columns({"schema_name", "status", "slug"}))

tenant_branding ==
    Table("tenant_branding", {Owned},
          {Enum("primary_color_key", {"teal", "navy", "slate", "forest", "plum", "clay",
              "rose", "amber"}), Enum("font_key", {"inter", "lato",
              "plus-jakarta-sans"})})

policy_assignments ==
    Table("policy_assignments", {Owner, Cascade("policy_id", "shift_policies")},
          {Enum("scope_type", {"tenant", "department", "employee"}),
              Check("scope_id_coherent")})

manager_assignments ==
    Table("manager_assignments", {Owner, Cascade("manager_user_id", "users"),
        Cascade("employee_id", "employees")},
          {Unique({"tenant_id", "employee_id", "manager_user_id"})})

leave_types ==
    Table("leave_types", {Owner},
          {Unique({"tenant_id", "code"})})

holidays ==
    Table("holidays", {Owner},
          {Unique({"tenant_id", "date"})})

approved_leaves ==
    Table("approved_leaves", {Owner, Cascade("employee_id", "employees"),
        Restrict("leave_type_id", "leave_types"),
        SetNull("approved_by_user_id", "users")},
          {Check("date_range")})

tenant_settings ==
    Table("tenant_settings", {Owned},
          Columns({"detection_config", "tracker_config"}))

requests ==
    Table("requests", {Owner, Cascade("employee_id", "employees"),
        SetNull("leave_type_id", "leave_types"), SetNull("manager_user_id", "users"),
        SetNull("hr_user_id", "users"), SetNull("admin_user_id", "users")},
          {Enum("type", {"exception", "leave"}), Enum("status", {"submitted",
              "manager_approved", "manager_rejected", "hr_approved", "hr_rejected",
              "admin_approved", "admin_rejected", "cancelled"}), Check("date_range"),
              Check("leave_type_consistency")})

request_reason_categories ==
    Table("request_reason_categories", {Owner},
          {Unique({"tenant_id", "request_type", "code"}), Enum("request_type",
              {"exception", "leave"})})

erp_export_config ==
    Table("erp_export_config", {Owned},
          {Enum("format", {"csv", "json"})})

email_config ==
    Table("email_config", {Owned},
          {Enum("provider", {"smtp", "microsoft_graph"})})

report_schedules ==
    Table("report_schedules", {Owner, SetNull("created_by_user_id", "users")},
          {Enum("format", {"xlsx", "pdf"}), Enum("report_type", {"attendance"})})

report_runs ==
    Table("report_runs", {Owner, Cascade("schedule_id", "report_schedules")},
          {Enum("status", {"running", "succeeded", "failed"})})

notifications ==
    Table("notifications", {Owner, Cascade("user_id", "users")},
          {Enum("category", {"approval_assigned", "approval_decided", "overtime_flagged",
              "camera_unreachable", "report_ready", "admin_override"})})

notification_preferences ==
    Table("notification_preferences", {Owner, Cascade("user_id", "users")},
          {Enum("category", {"approval_assigned", "approval_decided", "overtime_flagged",
              "camera_unreachable", "report_ready", "admin_override"})})

request_attachments ==
    Table("request_attachments", {Owner, Cascade("request_id", "requests")},
          {})

custom_fields ==
    Table("custom_fields", {Owner},
          {Unique({"tenant_id", "code"}), Enum("type", {"text", "number", "date",
              "select"}), Check("select_options")})

custom_field_values ==
    Table("custom_field_values", {Owner, Cascade("employee_id", "employees"),
        Cascade("field_id", "custom_fields")},
          {Unique({"tenant_id", "employee_id", "field_id"})})

tenant_oidc_config ==
    Table("tenant_oidc_config", {Owned},
          {})

mts_staff ==
    Table("public.mts_staff", {},
          {Unique({"email"})})

super_admin_sessions ==
    Table("public.super_admin_sessions", {Cascade("mts_staff_id", "public.mts_staff")},
          {})

super_admin_audit ==
    Table("public.super_admin_audit",
        {Restrict("super_admin_user_id", "public.mts_staff"),
        SetNull("tenant_id", "public.tenants")},
          {})

users ==
    Table("users", {Owner},
          {Unique({"tenant_id", "email"}), Enum("preferred_language", {"en", "ar"}),
              Enum("preferred_theme", {"system", "light", "dark"}),
              Enum("preferred_density", {"compact", "comfortable"})} \cup
              Columns({"preferred_language", "preferred_theme", "preferred_density"}))

roles ==
    Table("roles", {Owner},
          {Unique({"tenant_id", "code"}), Enum("code", {"Admin", "HR", "Manager",
              "Employee"})})

user_roles ==
    Table("user_roles", {Owner, Cascade("user_id", "users"), Cascade("role_id", "roles")},
          {})

divisions ==
    Table("divisions", {Owner},
          {Unique({"tenant_id", "code"})})

departments ==
    Table("departments", {Owner, Restrict("division_id", "divisions")},
          {Unique({"tenant_id", "code"})})

sections ==
    Table("sections", {Owner, Restrict("department_id", "departments")},
          {Unique({"tenant_id", "department_id", "code"})})

user_departments ==
    Table("user_departments", {Owner, Cascade("user_id", "users"),
        Cascade("department_id", "departments")},
          {})

user_divisions ==
    Table("user_divisions", {Owner, Cascade("user_id", "users"),
        Cascade("division_id", "divisions")},
          {})

user_sections ==
    Table("user_sections", {Owner, Cascade("user_id", "users"),
        Cascade("section_id", "sections")},
          {})

user_sessions ==
    Table("user_sessions", {Owner, Cascade("user_id", "users")},
          {})

audit_log ==
    Table("audit_log", {Owner, SetNull("actor_user_id", "users")},
          Columns({"actor_label"}))

employees ==
    Table("employees", {Owner, Restrict("department_id", "departments"),
        Restrict("section_id", "sections"), SetNull("reports_to_user_id", "users")},
          {Unique({"tenant_id", "employee_code"}), Enum("status", {"active", "inactive",
              "deleted"})} \cup Columns({"designation", "phone", "joining_date",
              "relieving_date", "deactivated_at", "deactivation_reason"}))

employee_photos ==
    Table("employee_photos", {Owner, Cascade("employee_id", "employees"),
        SetNull("approved_by_user_id", "users"), SetNull("uploaded_by_user_id", "users")},
          {Enum("angle", {"front", "left", "right", "other"}), Enum("approval_status",
              {"approved", "pending", "rejected"})} \cup Columns({"embedding",
              "approval_status"}))

cameras ==
    Table("cameras", {Owner},
          {Unique({"tenant_id", "name"})} \cup Columns({"worker_enabled",
              "display_enabled", "capture_config", "detected_resolution_w",
              "detected_resolution_h", "detected_fps", "detected_codec", "detected_at",
              "brand", "model", "mount_location", "camera_code", "zone",
              "detection_enabled"}))

detection_events ==
    Table("detection_events", {Owner, Cascade("camera_id", "cameras"),
        SetNull("employee_id", "employees"),
        SetNull("former_match_employee_id", "employees")},
          Columns({"orphaned_at", "former_employee_match", "detection_metadata"}))

camera_health_snapshots ==
    Table("camera_health_snapshots", {Owner, Cascade("camera_id", "cameras")},
          {})

shift_policies ==
    Table("shift_policies", {Owner},
          {Enum("type", {"Fixed", "Flex", "Ramadan", "Custom"})})

attendance_records ==
    Table("attendance_records", {Owner, Cascade("employee_id", "employees"),
        Restrict("policy_id", "shift_policies"), SetNull("leave_type_id", "leave_types")},
          {Unique({"tenant_id", "employee_id", "date"})})

delete_requests ==
    Table("delete_requests", {Owner, Cascade("employee_id", "employees"),
        SetNull("requested_by", "users"), SetNull("hr_decided_by", "users"),
        SetNull("admin_override_by", "users")},
          {Enum("status", {"pending", "approved", "rejected", "admin_override",
              "cancelled"})})

-----------------------------------------------------------------------------
(* Everything db.py declares, and the part create_all makes for a tenant.  *)

PublicTables ==
    {"public.tenants", "public.mts_staff", "public.super_admin_sessions",
     "public.super_admin_audit"}

Metadata == UNION
    {tenants, tenant_branding, policy_assignments, manager_assignments, leave_types,
     holidays, approved_leaves, tenant_settings, requests,
     request_reason_categories, erp_export_config, email_config, report_schedules,
     report_runs, notifications, notification_preferences, request_attachments,
     custom_fields, custom_field_values, tenant_oidc_config, mts_staff,
     super_admin_sessions, super_admin_audit, users, roles, user_roles, divisions,
     departments, sections, user_departments, user_divisions, user_sections,
     user_sessions, audit_log, employees, employee_photos, cameras,
     detection_events, camera_health_snapshots, shift_policies, attendance_records,
     delete_requests}

TenantPart(facts) == {f \in facts : f[1] \notin PublicTables}

TablesOf(facts) == {f[1] : f \in {g \in facts : g[2] = "table"}}

(* What a query of the application relies on: tables, columns, references. *)
Shape(facts) == {f \in facts : f[2] \in {"table", "column", "fk", "not null"}}

(* What the database enforces, and lets the application role do. *)
Enforced(facts) == {f \in facts : f[2] \in {"unique", "enum", "check", "grant"}}

=============================================================================
