-------------------------------- MODULE SignIn --------------------------------
(***************************************************************************)
(* Who a request comes from: sign-in with a password (auth/router.py,      *)
(* behind ratelimit.py) or through Entra (auth/oidc.py), the sessions in   *)
(* the database (auth/sessions.py), which every request reads, checks      *)
(* against the user's row and touches, each in a transaction of its own    *)
(* (auth/dependencies.py), and the operator's console, which suspends the  *)
(* tenant and acts in its name (super_admin/).                             *)
(***************************************************************************)
EXTENDS PeopleState

CONSTANT MaxAttempts  \* login_max_attempts

ASSUME AttemptsAssumption == MaxAttempts \in Nat \ {0}

people == <<orgVars, employees, faceVars>>
others == <<failures, chosen, suspended, oidc, console>>
tenant == <<sessions, failures, chosen, suspended, oidc>>

Preference == {"language", "theme", "density"}

(* What a signed-in user may ask for besides reading. *)
Wants ==
    [what : {"look", "logout"}]
        \cup [what : {"switch"}, role : Role]
        \cup [what : {"prefer"}, item : Preference, set : BOOLEAN]

ConsoleWants == {"access", "exit", "suspend", "unsuspend", "logout"}

Allowed(u) == users[u] # None /\ users[u].active

(* The highest of the roles, "Employee" when there is none. *)
Ranked == <<"Admin", "HR", "Manager", "Employee">>

Primary(roles) ==
    IF roles = {} THEN "Employee"
    ELSE Ranked[CHOOSE i \in DOMAIN Ranked :
                    /\ Ranked[i] \in roles
                    /\ \A j \in 1 .. i - 1 : Ranked[j] \notin roles]

NewToken == CHOOSE t \in Token : sessions[t] = None

SetSession(t, row) == sessions' = [sessions EXCEPT ![t] = row]

(* An UPDATE or a DELETE by id: no row is changed when there is none. *)
DropSession(t) == IF Exists(sessions, t) THEN SetSession(t, Gone) ELSE UNCHANGED sessions

-----------------------------------------------------------------------------
(* Sign-in with a password. *)

(* The tenant is looked up by its slug and must not be suspended, and the  *)
(* limiter must not have seen too many failures.  Whoever the identifier   *)
(* stands for, an email, a code or a name, is one user.                    *)
StartLogin(r, u) ==
    /\ Event
    /\ ~suspended
    /\ failures[u] < MaxAttempts
    /\ Begin(r, [kind |-> "login", next |-> "verify", user |-> u])
    /\ UNCHANGED <<people, authVars, world>>

(* An unknown user, one that is switched off, or a wrong password counts   *)
(* as a failure; anything else clears the count.                           *)
VerifyPassword(r) ==
    /\ At(r, "verify")
    /\ LET u == ops[r].user IN
       \/ /\ failures' = [failures EXCEPT ![u] = @ + 1]
          /\ Done(r)
       \/ /\ Allowed(u)
          /\ failures' = [failures EXCEPT ![u] = 0]
          /\ Step(r, "session")
    /\ UNCHANGED <<people, sessions, chosen, suspended, oidc, console, world, fuel>>

(* The roles are read again with the insert.  A user switched off between  *)
(* the two gets a session all the same; after a password the handler then  *)
(* trips over its assertion and the browser never learns the id.           *)
MakeSession(r) ==
    /\ At(r, "session")
    /\ \E t \in Token : sessions[t] = None
    /\ LET u == ops[r].user IN
       SetSession(NewToken,
                  [user |-> u, live |-> TRUE,
                   role |-> Primary(IF Allowed(u) THEN users[u].roles ELSE {}),
                   sent |-> Allowed(u) \/ ops[r].kind = "oidc"])
    /\ Done(r)
    /\ UNCHANGED <<people, others, world, fuel>>

ResetLimiter ==
    /\ \E u \in User : failures[u] # 0
    /\ failures' = [u \in User |-> 0]
    /\ UNCHANGED <<people, sessions, chosen, suspended, oidc, console, ops, world, fuel>>

-----------------------------------------------------------------------------
(* Sign-in through Entra. *)

(* The browser leaves with a signed state that names the tenant. *)
StartOidc(r, u) ==
    /\ Event
    /\ ~suspended /\ oidc
    /\ Begin(r, [kind |-> "oidc", next |-> "callback", user |-> u])
    /\ UNCHANGED <<people, authVars, world>>

(* It comes back, or does not; the state has expired, the configuration    *)
(* has been switched off, the exchange or the token fails; or the claims   *)
(* name a user.                                                            *)
OidcCallback(r) ==
    /\ At(r, "callback")
    /\ \/ Done(r)
       \/ oidc /\ Step(r, "match")
    /\ UNCHANGED <<people, authVars, world, fuel>>

MatchClaims(r) ==
    /\ At(r, "match")
    /\ IF Allowed(ops[r].user) THEN Step(r, "session") ELSE Done(r)
    /\ UNCHANGED <<people, authVars, world, fuel>>

(* What is turned on has answered its discovery. *)
PutOidcConfig(enabled) ==
    /\ Event /\ oidc # enabled
    /\ oidc' = enabled
    /\ UNCHANGED <<people, sessions, failures, chosen, suspended, console, ops, world>>

-----------------------------------------------------------------------------
(* A request of a signed-in user. *)

(* The middleware finds the session below the tenant the cookie names; an  *)
(* id it does not find is anonymous.                                       *)
Open(r, t, want) ==
    /\ Event
    /\ Exists(sessions, t) /\ sessions[t].sent
    /\ Begin(r, [kind |-> "web", next |-> "load", token |-> t, want |-> want,
                 user |-> None, stored |-> None, held |-> {}, acting |-> None])
    /\ UNCHANGED <<people, authVars, world>>

LoadSession(r) ==
    /\ At(r, "load")
    /\ LET t == ops[r].token IN
       IF ~Exists(sessions, t) THEN Done(r)
       ELSE IF ~sessions[t].live THEN Step(r, "expire")
       ELSE ops' = [ops EXCEPT ![r] = [@ EXCEPT !.next = "user", !.user = sessions[t].user,
                                                !.stored = sessions[t].role]]
    /\ UNCHANGED <<people, authVars, world, fuel>>

ExpireSession(r) ==
    /\ At(r, "expire")
    /\ DropSession(ops[r].token)
    /\ Done(r)
    /\ UNCHANGED <<people, others, world, fuel>>

(* The session of a user who is switched off goes.  Anyone else acts in    *)
(* the role the session holds, as long as it is one of theirs.             *)
LoadUser(r) ==
    /\ At(r, "user")
    /\ LET o == ops[r] IN
       IF Allowed(o.user)
       THEN LET roles == users[o.user].roles IN
            /\ ops' = [ops EXCEPT ![r] = [@ EXCEPT !.next = "touch", !.held = roles,
                           !.acting = IF o.stored \in roles THEN o.stored ELSE Primary(roles)]]
            /\ UNCHANGED sessions
       ELSE DropSession(o.token) /\ Done(r)
    /\ UNCHANGED <<people, others, world, fuel>>

(* Where a request goes once it knows the user; a switch to the role it    *)
(* acts in, or to one the user does not hold, changes nothing.             *)
Handler(o) ==
    CASE o.want.what = "look"   -> "answer"
      [] o.want.what = "switch" ->
            IF o.want.role \in o.held /\ o.want.role # o.acting THEN "switch" ELSE "answer"
      [] OTHER -> o.want.what

\* Mutant: the session is written back as it was loaded.
TouchWritesBack(r) ==
    /\ At(r, "touch")
    /\ SetSession(ops[r].token, [user |-> ops[r].user, role |-> ops[r].stored,
                                 live |-> TRUE, sent |-> TRUE])
    /\ IF Handler(ops[r]) = "answer" THEN Done(r) ELSE Step(r, Handler(ops[r]))
    /\ UNCHANGED <<people, others, world, fuel>>

(* The sliding expiry: its two columns and nothing else. *)
TouchSession(r) ==
    /\ At(r, "touch")
    /\ LET t == ops[r].token IN
       IF Exists(sessions, t) THEN SetSession(t, [sessions[t] EXCEPT !.live = TRUE])
       ELSE UNCHANGED sessions
    /\ IF Handler(ops[r]) = "answer" THEN Done(r) ELSE Step(r, Handler(ops[r]))
    /\ UNCHANGED <<people, others, world, fuel>>

Logout(r) ==
    /\ At(r, "logout") /\ ops[r].kind = "web"
    /\ DropSession(ops[r].token)
    /\ Done(r)
    /\ UNCHANGED <<people, others, world, fuel>>

(* update_active_role. *)
SwitchRole(r) ==
    /\ At(r, "switch")
    /\ LET t == ops[r].token IN
       IF Exists(sessions, t)
       THEN SetSession(t, [sessions[t] EXCEPT !.role = ops[r].want.role])
       ELSE UNCHANGED sessions
    /\ Done(r)
    /\ UNCHANGED <<people, others, world, fuel>>

SetPreference(r) ==
    /\ At(r, "prefer")
    /\ LET choice == {<<ops[r].user, ops[r].want.item>>} IN
       chosen' = IF ops[r].want.set THEN chosen \cup choice ELSE chosen \ choice
    /\ Done(r)
    /\ UNCHANGED <<people, sessions, failures, suspended, oidc, console, world, fuel>>

(* An hour without a request; seven days later the retention sweep. *)
SessionIdles(t) ==
    /\ Event /\ Exists(sessions, t) /\ sessions[t].live
    /\ SetSession(t, [sessions[t] EXCEPT !.live = FALSE])
    /\ UNCHANGED <<people, others, ops, world>>

SweepSessions ==
    /\ Event
    /\ sessions' = [t \in Token |->
           IF Exists(sessions, t) /\ ~sessions[t].live THEN Gone ELSE sessions[t]]
    /\ sessions' # sessions
    /\ UNCHANGED <<people, others, ops, world>>

-----------------------------------------------------------------------------
(* The operator's console: one session. *)

Operating == console \notin {None, Gone}

ConsoleLogin ==
    /\ Event /\ console = None
    /\ console' = [live |-> TRUE, as |-> FALSE]
    /\ UNCHANGED <<people, tenant, ops, world>>

ConsoleIdles ==
    /\ Event /\ Operating /\ console.live
    /\ console' = [console EXCEPT !.live = FALSE]
    /\ UNCHANGED <<people, tenant, ops, world>>

OpenConsole(r, want) ==
    /\ Event /\ Operating
    /\ Begin(r, [kind |-> "console", next |-> "admit", want |-> want])
    /\ UNCHANGED <<people, authVars, world>>

(* current_super_admin: a session that has expired goes, any other is      *)
(* touched.                                                                *)
AdmitOperator(r) ==
    /\ At(r, "admit")
    /\ IF Operating /\ console.live
       THEN Step(r, ops[r].want) /\ UNCHANGED console
       ELSE Done(r) /\ console' = Gone
    /\ UNCHANGED <<people, tenant, world, fuel>>

(* The tenant's status is read in a transaction before the one that        *)
(* writes the session.                                                     *)
AccessAs(r) ==
    /\ At(r, "access")
    /\ IF suspended THEN Done(r) ELSE Step(r, "impersonate")
    /\ UNCHANGED <<people, authVars, world, fuel>>

SetImpersonation(r) ==
    /\ At(r, "impersonate") \/ At(r, "exit")
    /\ console' = IF Operating THEN [console EXCEPT !.as = (ops[r].next = "impersonate")]
                  ELSE console
    /\ Done(r)
    /\ UNCHANGED <<people, tenant, world, fuel>>

UpdateStatus(r) ==
    /\ At(r, "suspend") \/ At(r, "unsuspend")
    /\ suspended' = (ops[r].next = "suspend")
    /\ Done(r)
    /\ UNCHANGED <<people, sessions, failures, chosen, oidc, console, world, fuel>>

ConsoleLogout(r) ==
    /\ At(r, "logout") /\ ops[r].kind = "console"
    /\ console' = Gone
    /\ Done(r)
    /\ UNCHANGED <<people, tenant, world, fuel>>

-----------------------------------------------------------------------------
(* Properties. *)

(* No request undoes what another has done to its session meanwhile: a     *)
(* session that was deleted, by a logout, by expiry or because its user    *)
(* was switched off, does not come back with the touch of a request that   *)
(* had loaded it before, and the role a user has switched to stays until   *)
(* the next switch.                                                        *)
RequestsUndoNothing ==
    [][\A t \in Token :
          /\ sessions[t] = Gone => sessions'[t] = Gone
          /\ (Exists(sessions, t) /\ sessions'[t] # Gone /\ sessions'[t].role # sessions[t].role)
                => \E r \in Request : /\ ops[r] # Idle /\ ops[r].kind = "web"
                                      /\ ops[r].token = t
                                      /\ ops[r].want = [what |-> "switch", role |-> sessions'[t].role]
                                      /\ ops'[r] = Idle]_vars

=============================================================================
