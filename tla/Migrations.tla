------------------------------ MODULE Migrations ------------------------------
(***************************************************************************)
(* The migrations of backend/alembic/versions, 0001 to 0036: what each     *)
(* upgrade and each downgrade does to the facts of a schema.  A fact is    *)
(* written as in module Schema, but every table is described again from    *)
(* the migration that creates it, for nothing in the code makes the two    *)
(* agree.  Seeded rows, owners, sequences and plain indexes are left out.  *)
(***************************************************************************)
EXTENDS Schema

Latest == 36

(* GRANT SELECT, INSERT, UPDATE, DELETE, and the append-only grant. *)
Crud   == Grant("select insert update delete")
AppendOnly == Grant("select insert")

Create(s, facts)     == s \cup facts
DropTable(s, t)      == {f \in s : f[1] # t}
Alter(s, t, rules)   == s \cup About(t, rules)
Remove(s, t, rules)  == s \ About(t, rules)

(* Dropping a column takes its foreign key and its constraints with it. *)
DropColumns(s, t, names) ==
    {f \in s : ~(/\ f[1] = t
                 /\ \/ f[2] \in {"column", "not null", "fk", "enum"} /\ f[3] \in names
                    \/ f[2] = "unique" /\ f[3] \cap names # {})}

(* Before 0008 the tenants table was one of the tables of schema main. *)
Pilot == Restrict("tenant_id", "tenants")

-----------------------------------------------------------------------------
(* 0001-0009: the schema main, and tenants on its way to schema public. *)

Accounts0001 ==
    UNION {Table("tenants", {}, {Unique({"name"})}),
           Table("users", {Pilot}, {Unique({"tenant_id", "email"})}),
           Table("roles", {Pilot},
                 {Unique({"tenant_id", "code"}),
                  Enum("code", {"Admin", "HR", "Manager", "Employee"})}),
           Table("user_roles", {Pilot, Cascade("user_id", "users"),
                                Cascade("role_id", "roles")}, {})}

Records0001 ==
    UNION {Table("departments", {Pilot}, {Unique({"tenant_id", "code"})}),
           Table("user_departments", {Pilot, Cascade("user_id", "users"),
                                      Cascade("department_id", "departments")}, {}),
           Table("user_sessions", {Pilot, Cascade("user_id", "users")}, {}),
           Table("audit_log", {Pilot, SetNull("actor_user_id", "users")}, {})}

Grants0001 ==
    UNION ({About(t, {Crud}) : t \in {"tenants", "users", "roles", "user_roles",
                "departments", "user_departments", "user_sessions"}}
           \cup {About("audit_log", {AppendOnly})})

Up0001(s)   == Create(s, Accounts0001 \cup Records0001 \cup Grants0001)
Down0001(s) == {}

Up0002(s) ==
    Create(s, Table("employees", {Pilot, Restrict("department_id", "departments")},
                    {Unique({"tenant_id", "employee_code"}),
                     Enum("status", {"active", "inactive"}), Crud})
              \cup Table("employee_photos", {Pilot, Cascade("employee_id", "employees"),
                             SetNull("approved_by_user_id", "users")},
                         {Enum("angle", {"front", "left", "right", "other"}), Crud}))
Down0002(s) == DropTable(DropTable(s, "employee_photos"), "employees")

Up0003(s) ==
    Create(s, Table("cameras", {Pilot},
                    {Unique({"tenant_id", "name"}), Column("enabled"), Crud}))
Down0003(s) == DropTable(s, "cameras")

Up0004(s) ==
    Create(s, Table("detection_events", {Pilot, Cascade("camera_id", "cameras"),
                        SetNull("employee_id", "employees")},
                    {NotNull("face_crop_path"), Crud})
              \cup Table("camera_health_snapshots",
                         {Pilot, Cascade("camera_id", "cameras")}, {Crud}))
Down0004(s) == DropTable(DropTable(s, "camera_health_snapshots"), "detection_events")

Up0005(s)   == Alter(s, "employee_photos", {Column("embedding")})
Down0005(s) == DropColumns(s, "employee_photos", {"embedding"})

Up0006(s) ==
    Create(s, Table("shift_policies", {Pilot},
                    {Enum("type", {"Fixed", "Flex", "Ramadan", "Custom"}), Crud})
              \cup Table("attendance_records", {Pilot, Cascade("employee_id", "employees"),
                             Restrict("policy_id", "shift_policies")},
                         {Unique({"tenant_id", "employee_id", "date"}), Crud}))
Down0006(s) == DropTable(DropTable(s, "attendance_records"), "shift_policies")

Up0007(s) ==
    Alter(s, "tenants", {Column("schema_name"), Check("schema_name_format"),
                         Unique({"schema_name"})})
Down0007(s) ==
    DropColumns(Remove(s, "tenants", {Unique({"schema_name"}), Check("schema_name_format")}),
                "tenants", {"schema_name"})

(* Every foreign key to the old tenants table is dropped and added again   *)
(* with the delete rule it had.                                            *)
Repoint(s, from, to) ==
    {IF f[2] = "fk" /\ f[4] = from THEN [f EXCEPT ![4] = to] ELSE f : f \in s}

Tenants0008(t) ==
    Table(t, {}, {Unique({"name"}), Unique({"schema_name"}), Check("schema_name_format"),
                  Column("schema_name"), Crud})

Up0008(s) ==
    DropTable(Repoint(Create(s, Tenants0008("public.tenants")), "tenants", "public.tenants"),
              "tenants")
Down0008(s) ==
    DropTable(Repoint(Create(s, Tenants0008("tenants")), "public.tenants", "tenants"),
              "public.tenants")

Up0009(s) ==
    Create(Alter(s, "public.tenants",
                 {Column("status"), Enum("status", {"active", "suspended"})}),
           UNION {Table("public.mts_staff", {}, {Unique({"email"}), Crud}),
                  Table("public.super_admin_sessions",
                        {Cascade("mts_staff_id", "public.mts_staff")}, {Crud}),
                  Table("public.super_admin_audit",
                        {Restrict("super_admin_user_id", "public.mts_staff"),
                         SetNull("tenant_id", "public.tenants")}, {AppendOnly})})
Down0009(s) ==
    DropColumns(DropTable(DropTable(DropTable(s, "public.super_admin_audit"),
                                    "public.super_admin_sessions"), "public.mts_staff"),
                "public.tenants", {"status"})

-----------------------------------------------------------------------------
(* 0010-0021: one feature after the other. *)

Up0010(s) ==
    Create(s, Table("tenant_branding", {Owned},
                    {Enum("primary_color_key", {"teal", "navy", "slate", "forest", "plum",
                          "clay", "rose", "amber"}),
                     Enum("font_key", {"inter", "lato", "plus-jakarta-sans"}), Crud}))
Down0010(s) == DropTable(s, "tenant_branding")

Up0011(s)   == Create(s, Table("tenant_oidc_config", {Owned}, {Crud}))
Down0011(s) == DropTable(s, "tenant_oidc_config")

Up0012(s) ==
    Create(s, Table("manager_assignments", {Owner, Cascade("manager_user_id", "users"),
                        Cascade("employee_id", "employees")},
                    {Unique({"tenant_id", "employee_id", "manager_user_id"}),
                     UniqueWhere({"tenant_id", "employee_id"}, "is_primary"), Crud}))
Down0012(s) ==
    DropTable(Remove(s, "manager_assignments",
                     {UniqueWhere({"tenant_id", "employee_id"}, "is_primary")}),
              "manager_assignments")

Up0013(s) ==
    Create(s, Table("policy_assignments", {Owner, Cascade("policy_id", "shift_policies")},
                    {Enum("scope_type", {"tenant", "department", "employee"}),
                     Check("scope_id_coherent"), Crud}))
Down0013(s) == DropTable(s, "policy_assignments")

Leaves0014 ==
    UNION {Table("leave_types", {Owner}, {Unique({"tenant_id", "code"}), Crud}),
           Table("holidays", {Owner}, {Unique({"tenant_id", "date"}), Crud}),
           Table("approved_leaves", {Owner, Cascade("employee_id", "employees"),
                     Restrict("leave_type_id", "leave_types"),
                     SetNull("approved_by_user_id", "users")},
                 {Check("date_range"), Crud})}

Up0014(s) ==
    Alter(Create(s, Leaves0014 \cup Table("tenant_settings", {Owned}, {Crud})),
          "attendance_records", {SetNull("leave_type_id", "leave_types")})
Down0014(s) ==
    DropTable(DropTable(DropTable(DropTable(
        DropColumns(s, "attendance_records", {"leave_type_id"}),
        "tenant_settings"), "approved_leaves"), "holidays"), "leave_types")

Up0015(s) ==
    Create(s, Table("custom_fields", {Owner},
                    {Unique({"tenant_id", "code"}), Check("select_options"),
                     Enum("type", {"text", "number", "date", "select"}), Crud})
              \cup Table("custom_field_values", {Owner, Cascade("employee_id", "employees"),
                             Cascade("field_id", "custom_fields")},
                         {Unique({"tenant_id", "employee_id", "field_id"}), Crud}))
Down0015(s) == DropTable(DropTable(s, "custom_field_values"), "custom_fields")

Requests0016 ==
    Table("requests", {Owner, Cascade("employee_id", "employees"),
              SetNull("leave_type_id", "leave_types"), SetNull("manager_user_id", "users"),
              SetNull("hr_user_id", "users"), SetNull("admin_user_id", "users")},
          {Enum("type", {"exception", "leave"}),
           Enum("status", {"submitted", "manager_approved", "manager_rejected",
                "hr_approved", "hr_rejected", "admin_approved", "admin_rejected",
                "cancelled"}),
           Check("date_range"), Check("leave_type_consistency"), Crud})

Up0016(s) ==
    Create(s, Requests0016 \cup
              Table("request_attachments", {Owner, Cascade("request_id", "requests")}, {Crud}))
Down0016(s) == DropTable(DropTable(s, "request_attachments"), "requests")

Up0017(s) ==
    Create(s, Table("request_reason_categories", {Owner},
                    {Unique({"tenant_id", "request_type", "code"}),
                     Enum("request_type", {"exception", "leave"}), Crud}))
Down0017(s) == DropTable(s, "request_reason_categories")

Queue0018 ==
    Table("notifications_queue", {Owner, SetNull("recipient_user_id", "users"),
              Cascade("request_id", "requests")}, {Crud})

Up0018(s)   == Create(s, Queue0018)
Down0018(s) == DropTable(s, "notifications_queue")

Email0019 ==
    Table("email_config", {Owned}, {Enum("provider", {"smtp", "microsoft_graph"}), Crud})

Reports0019 ==
    Table("report_schedules", {Owner, SetNull("created_by_user_id", "users")},
          {Enum("format", {"xlsx", "pdf"}), Enum("report_type", {"attendance"}), Crud})
    \cup Table("report_runs", {Owner, Cascade("schedule_id", "report_schedules")},
               {Enum("status", {"running", "succeeded", "failed"}), Crud})

Up0019(s)   == Create(s, Email0019 \cup Reports0019)
Down0019(s) ==
    DropTable(DropTable(DropTable(s, "report_runs"), "report_schedules"), "email_config")

Up0020(s) ==
    Create(s, Table("erp_export_config", {Owned}, {Enum("format", {"csv", "json"}), Crud}))
Down0020(s) == DropTable(s, "erp_export_config")

Categories0021 ==
    {"approval_assigned", "approval_decided", "overtime_flagged", "camera_unreachable",
     "report_ready", "admin_override"}

Up0021(s) ==
    DropTable(Create(s,
        Table("notifications", {Owner, Cascade("user_id", "users")},
              {Enum("category", Categories0021), Crud})
        \cup Table("notification_preferences", {Owner, Cascade("user_id", "users")},
                   {Enum("category", Categories0021), Crud})),
        "notifications_queue")
Down0021(s) ==
    DropTable(DropTable(Create(s, Queue0018), "notification_preferences"), "notifications")

-----------------------------------------------------------------------------
(* 0022-0036: columns and constraints of the tables there are. *)

Language0022 == {Column("preferred_language"), Enum("preferred_language", {"en", "ar"})}

Up0022(s)   == Alter(s, "users", Language0022)
Down0022(s) == DropColumns(Remove(s, "users", Language0022), "users", {"preferred_language"})

Up0023(s) ==
    Alter(s, "users", {Enum("preferred_theme", {"system", "light", "dark"}),
                       Enum("preferred_density", {"compact", "comfortable"})}
                      \cup Columns({"preferred_theme", "preferred_density"}))
Down0023(s) == DropColumns(s, "users", {"preferred_theme", "preferred_density"})

Statuses0024(s, from, to) ==
    Alter(Remove(s, "employees", {Enum("status", from)}), "employees", {Enum("status", to)})

Up0024(s)   == Statuses0024(s, {"active", "inactive"}, {"active", "inactive", "deleted"})
Down0024(s) == Statuses0024(s, {"active", "inactive", "deleted"}, {"active", "inactive"})

Up0025(s)   == Alter(s, "audit_log", {Column("actor_label")})
Down0025(s) == DropColumns(s, "audit_log", {"actor_label"})

(* The column is global: the upgrade of a second schema finds it in place. *)
Up0026(s) ==
    Alter(s, "public.tenants", {Column("slug"), Unique({"slug"}), Check("slug_format")})
Down0026(s) ==
    DropColumns(Remove(s, "public.tenants", {Check("slug_format"), Unique({"slug"})}),
                "public.tenants", {"slug"})

Split0027 == {"worker_enabled", "display_enabled", "capture_config"}

Up0027(s) ==
    DropColumns(Alter(s, "cameras", Columns(Split0027)), "cameras", {"enabled"})
Down0027(s) ==
    DropColumns(Alter(s, "cameras", {Column("enabled")}), "cameras", Split0027)

Up0028(s) ==
    Alter(Remove(s, "detection_events", {NotNull("face_crop_path")}),
          "detection_events", {Column("orphaned_at")})
Down0028(s) ==
    Alter(DropColumns(s, "detection_events", {"orphaned_at"}),
          "detection_events", {NotNull("face_crop_path")})

Configs0029 == {"detection_config", "tracker_config"}

Up0029(s)   == Alter(s, "tenant_settings", Columns(Configs0029))
Down0029(s) == DropColumns(s, "tenant_settings", Configs0029)

Lifecycle0030 ==
    {"designation", "phone", "joining_date", "relieving_date", "deactivated_at",
     "deactivation_reason"}

Employees0030(s) ==
    Alter(Alter(s, "employees",
                Columns(Lifecycle0030) \cup {SetNull("reports_to_user_id", "users")}),
          "detection_events", {Column("former_employee_match"),
                               SetNull("former_match_employee_id", "employees")})

DeleteRequests0030 ==
    Table("delete_requests", {Owner, Cascade("employee_id", "employees"),
              SetNull("requested_by", "users"), SetNull("hr_decided_by", "users"),
              SetNull("admin_override_by", "users")},
          {Enum("status", {"pending", "approved", "rejected", "admin_override", "cancelled"}),
           UniqueWhere({"tenant_id", "employee_id"}, "pending"),
           Grant("select insert update")})

Up0030(s)   == Create(Employees0030(s), DeleteRequests0030)
Down0030(s) ==
    DropColumns(DropColumns(DropTable(s, "delete_requests"), "detection_events",
                            {"former_match_employee_id", "former_employee_match"}),
                "employees", Lifecycle0030 \cup {"reports_to_user_id"})

Metadata0031 ==
    {"detected_resolution_w", "detected_resolution_h", "detected_fps", "detected_codec",
     "detected_at", "brand", "model", "mount_location"}

Up0031(s)   == Alter(s, "cameras", Columns(Metadata0031))
Down0031(s) == DropColumns(s, "cameras", Metadata0031)

Up0032(s)   == Alter(s, "detection_events", {Column("detection_metadata")})
Down0032(s) == DropColumns(s, "detection_events", {"detection_metadata"})

Up0033(s)   == Alter(s, "cameras", {Column("detection_enabled")})
Down0033(s) == DropColumns(s, "cameras", {"detection_enabled"})

Up0034(s) ==
    Alter(s, "cameras", {Column("camera_code"), Unique({"tenant_id", "camera_code"}),
                         Column("zone")})
Down0034(s) ==
    DropColumns(Remove(DropColumns(s, "cameras", {"zone"}), "cameras",
                       {Unique({"tenant_id", "camera_code"})}),
                "cameras", {"camera_code"})

Divisions0035(s) ==
    Alter(Create(s, Table("divisions", {Owner},
                          {Unique({"tenant_id", "code"}), Check("code_shape"), Crud})),
          "departments", {Restrict("division_id", "divisions")})

Sections0035(s) ==
    Alter(Create(s, Table("sections", {Owner, Restrict("department_id", "departments")},
                          {Unique({"tenant_id", "department_id", "code"}),
                           Check("code_shape"), Crud})),
          "employees", {Restrict("section_id", "sections")})

Up0035(s) ==
    Create(Sections0035(Divisions0035(s)),
           Table("user_divisions", {Owner, Cascade("user_id", "users"),
                     Cascade("division_id", "divisions")}, {Crud})
           \cup Table("user_sections", {Owner, Cascade("user_id", "users"),
                          Cascade("section_id", "sections")}, {Crud}))
Down0035(s) ==
    DropTable(DropColumns(DropTable(DropColumns(DropTable(DropTable(s,
        "user_sections"), "user_divisions"), "employees", {"section_id"}),
        "sections"), "departments", {"division_id"}), "divisions")

Provenance0036 ==
    {SetNull("uploaded_by_user_id", "users"), Column("approval_status"),
     Enum("approval_status", {"approved", "pending", "rejected"})}

Up0036(s)   == Alter(s, "employee_photos", Provenance0036)
Down0036(s) == DropColumns(s, "employee_photos", {"approval_status", "uploaded_by_user_id"})

-----------------------------------------------------------------------------
(* The chain. *)

Upgrade(n, s) ==
    CASE n = 1  -> Up0001(s) [] n = 2  -> Up0002(s) [] n = 3  -> Up0003(s)
      [] n = 4  -> Up0004(s) [] n = 5  -> Up0005(s) [] n = 6  -> Up0006(s)
      [] n = 7  -> Up0007(s) [] n = 8  -> Up0008(s) [] n = 9  -> Up0009(s)
      [] n = 10 -> Up0010(s) [] n = 11 -> Up0011(s) [] n = 12 -> Up0012(s)
      [] n = 13 -> Up0013(s) [] n = 14 -> Up0014(s) [] n = 15 -> Up0015(s)
      [] n = 16 -> Up0016(s) [] n = 17 -> Up0017(s) [] n = 18 -> Up0018(s)
      [] n = 19 -> Up0019(s) [] n = 20 -> Up0020(s) [] n = 21 -> Up0021(s)
      [] n = 22 -> Up0022(s) [] n = 23 -> Up0023(s) [] n = 24 -> Up0024(s)
      [] n = 25 -> Up0025(s) [] n = 26 -> Up0026(s) [] n = 27 -> Up0027(s)
      [] n = 28 -> Up0028(s) [] n = 29 -> Up0029(s) [] n = 30 -> Up0030(s)
      [] n = 31 -> Up0031(s) [] n = 32 -> Up0032(s) [] n = 33 -> Up0033(s)
      [] n = 34 -> Up0034(s) [] n = 35 -> Up0035(s) [] n = 36 -> Up0036(s)

Downgrade(n, s) ==
    CASE n = 1  -> Down0001(s) [] n = 2  -> Down0002(s) [] n = 3  -> Down0003(s)
      [] n = 4  -> Down0004(s) [] n = 5  -> Down0005(s) [] n = 6  -> Down0006(s)
      [] n = 7  -> Down0007(s) [] n = 8  -> Down0008(s) [] n = 9  -> Down0009(s)
      [] n = 10 -> Down0010(s) [] n = 11 -> Down0011(s) [] n = 12 -> Down0012(s)
      [] n = 13 -> Down0013(s) [] n = 14 -> Down0014(s) [] n = 15 -> Down0015(s)
      [] n = 16 -> Down0016(s) [] n = 17 -> Down0017(s) [] n = 18 -> Down0018(s)
      [] n = 19 -> Down0019(s) [] n = 20 -> Down0020(s) [] n = 21 -> Down0021(s)
      [] n = 22 -> Down0022(s) [] n = 23 -> Down0023(s) [] n = 24 -> Down0024(s)
      [] n = 25 -> Down0025(s) [] n = 26 -> Down0026(s) [] n = 27 -> Down0027(s)
      [] n = 28 -> Down0028(s) [] n = 29 -> Down0029(s) [] n = 30 -> Down0030(s)
      [] n = 31 -> Down0031(s) [] n = 32 -> Down0032(s) [] n = 33 -> Down0033(s)
      [] n = 34 -> Down0034(s) [] n = 35 -> Down0035(s) [] n = 36 -> Down0036(s)

(* The schema main, and public beside it, at each revision. *)
SchemaAt[n \in 0 .. Latest] == IF n = 0 THEN {} ELSE Upgrade(n, SchemaAt[n - 1])

=============================================================================
