---------------------------- MODULE TenantLifecycle ----------------------------
(***************************************************************************)
(* One tenant from enrolment to teardown: the provisioner's steps          *)
(* (internal/provision/provisioner.go), the tenant migration runner        *)
(* (internal/migrate/tenant.go), the status transitions and the teardown   *)
(* (internal/provision/lifecycle.go) and the settings document             *)
(* (internal/cp/tenants).  Each call runs on its own connection; a step is *)
(* one statement or one transaction, and calls interleave between steps.   *)
(*                                                                         *)
(* Three databases are involved: the control plane (reg, row), the         *)
(* cluster's catalogue (role, db) and the tenant database's own version.   *)
(***************************************************************************)
EXTENDS Naturals, FiniteSets

CONSTANTS
  Calls,       \* calls of the admin API and of ragctl in flight
  Passwords,   \* generated passwords; bounds the number of enrolments from scratch
  Latest,      \* ExpectedTenantVersion
  MaxFaults    \* bound on failed statements and crashes

ASSUME TenantsAssumption ==
  /\ Latest \in Nat \ {0} /\ MaxFaults \in Nat /\ IsFiniteSet(Passwords)
  /\ "none" \notin Passwords \cup Calls

VARIABLES
  reg,     \* tenants row: status, delete_after, settings.delete_prev_status
  row,     \* tenant_databases row: password_enc and schema_version
  role,    \* the tenant role in the cluster: its password
  db,      \* the tenant database: extensions, goose version
  lock,    \* the call that holds the tenant_databases row FOR UPDATE
  call,    \* calls in flight
  torn,    \* history: a teardown has dropped the database and not cleared the registry
  mixed,   \* history: an enrolment has overlapped with a teardown
  faults

vars == <<reg, row, role, db, lock, call, torn, mixed, faults>>

None == "none"
Versions == 0..Latest
Serving == {"active", "suspended"}
Statuses == {None, "provisioning", "deleting", "deleted"} \cup Serving
NoRow == [pw |-> None, ver |-> 0]
NoDb  == [made |-> FALSE, ext |-> FALSE, ver |-> 0]
Ended == [op |-> None, at |-> None, pw |-> None]

Ops == {"provision", "migrate", "delete", "patch"}
Places == {"tenant", "dbrow", "role", "database", "extensions", "lock", "apply", "activate",
           "check", "dropdb", "droprole", "clear", "read", "write", "status"}
CallStates == [op: Ops \cup {None}, at: Places \cup {None}, pw: Passwords \cup {None}]

TypeOK ==
  /\ reg \in [status: Statuses, deadline: {None, "future", "past"}, prev: Serving \cup {None}]
  /\ row \in [pw: Passwords \cup {None}, ver: Versions]
  /\ role \in Passwords \cup {None}
  /\ db \in [made: BOOLEAN, ext: BOOLEAN, ver: Versions]
  /\ lock \in Calls \cup {None}
  /\ call \in [Calls -> CallStates]
  /\ torn \in BOOLEAN /\ mixed \in BOOLEAN /\ faults \in 0..MaxFaults

Init ==
  /\ reg = [status |-> None, deadline |-> None, prev |-> None]
  /\ row = NoRow /\ role = None /\ db = NoDb
  /\ lock = None /\ call = [c \in Calls |-> Ended]
  /\ torn = FALSE /\ mixed = FALSE /\ faults = 0

At(c, place) == call[c].at = place
GoTo(c, place) == call' = [call EXCEPT ![c].at = place]
Return(c) == call' = [call EXCEPT ![c] = Ended]

Begin(c, op, place) ==
  /\ call[c] = Ended
  /\ call' = [call EXCEPT ![c] = [Ended EXCEPT !.op = op, !.at = place]]
  /\ UNCHANGED <<reg, row, role, db, lock, torn, mixed, faults>>

\* AdminService.Create and ragctl enroll, again after a failure too; migrate.Tenants;
\* ragctl tenant delete --run; AdminService.Patch.
Enrol(c)      == Begin(c, "provision", "tenant")
MigrateAll(c) == Begin(c, "migrate", "lock")
Teardown(c)   == Begin(c, "delete", "check")
AdminPatch(c) == Begin(c, "patch", "read")

-----------------------------------------------------------------------------
(* Provisioner.Provision.                                                  *)

\* ensureTenantRow: a new row, or the existing one whatever its status, is provisioning.
EnsureTenantRow(c) ==
  /\ At(c, "tenant")
  /\ reg' = [reg EXCEPT !.status = "provisioning"]
  /\ mixed' = (mixed \/ \E d \in Calls : call[d].at \in {"dropdb", "droprole", "clear"})
  /\ GoTo(c, "dbrow")
  /\ UNCHANGED <<row, role, db, lock, torn, faults>>

\* ensureTenantDatabaseRow: recorded details are reused and the call has no password then;
\* otherwise a fresh password is recorded first.
EnsureDatabaseRow(c) ==
  /\ At(c, "dbrow")
  /\ \/ row # NoRow /\ GoTo(c, "role") /\ UNCHANGED row
     \/ /\ row = NoRow
        /\ \E p \in Passwords \ {role} :
             /\ row' = [pw |-> p, ver |-> 0]
             /\ call' = [call EXCEPT ![c].at = "role", ![c].pw = p]
  /\ UNCHANGED <<reg, role, db, lock, torn, mixed, faults>>

\* createRoleAndDatabase, role: only a call that generated the password creates it.
CreateRole(c) ==
  /\ At(c, "role")
  /\ role' = IF call[c].pw # None /\ role = None THEN call[c].pw ELSE role
  /\ GoTo(c, "database")
  /\ UNCHANGED <<reg, row, db, lock, torn, mixed, faults>>

\* createRoleAndDatabase, database and its CONNECT privilege: the owner has to exist.
CreateDatabase(c) ==
  /\ At(c, "database") /\ role # None
  /\ db' = [db EXCEPT !.made = TRUE]
  /\ GoTo(c, "extensions")
  /\ UNCHANGED <<reg, row, role, lock, torn, mixed, faults>>

InstallExtensions(c) ==
  /\ At(c, "extensions") /\ db.made
  /\ db' = [db EXCEPT !.ext = TRUE]
  /\ GoTo(c, "lock")
  /\ UNCHANGED <<reg, row, role, lock, torn, mixed, faults>>

\* activateAndAudit: one transaction, whatever the status became meanwhile.
Activate(c) ==
  /\ At(c, "activate")
  /\ reg' = [reg EXCEPT !.status = "active"]
  /\ Return(c)
  /\ UNCHANGED <<row, role, db, lock, torn, mixed, faults>>

-----------------------------------------------------------------------------
(* migrate.Tenants, on its own or as a step of Provision.                  *)

AfterMigration(c) == IF call[c].op = "provision" THEN GoTo(c, "activate") ELSE Return(c)

\* loadMigratableTenants.
Migratable == row # NoRow /\ reg.status \in Serving \cup {"provisioning"}

\* migrateOneTenant, FOR UPDATE SKIP LOCKED: a row that another runner holds, or that is
\* not there, counts as migrated.
SkipLocked(c) ==
  /\ At(c, "lock") /\ (~Migratable \/ lock # None)
  /\ AfterMigration(c)
  /\ UNCHANGED <<reg, row, role, db, lock, torn, mixed, faults>>

LockRow(c) ==
  /\ At(c, "lock") /\ Migratable /\ lock = None
  /\ lock' = c
  /\ GoTo(c, "apply")
  /\ UNCHANGED <<reg, row, role, db, torn, mixed, faults>>

\* applyTenantMigrations: goose commits one migration at a time, as the tenant's role.
CanApply == db.made /\ db.ext /\ role = row.pw
ApplyNext(c) ==
  /\ At(c, "apply") /\ CanApply /\ db.ver < Latest
  /\ db' = [db EXCEPT !.ver = @ + 1]
  /\ UNCHANGED <<reg, row, role, lock, call, torn, mixed, faults>>

\* Variant for mutation: the target version is recorded before goose has run.
RecordExpected(c) ==
  /\ At(c, "apply") /\ CanApply
  /\ row' = [row EXCEPT !.ver = Latest]
  /\ lock' = None
  /\ AfterMigration(c)
  /\ UNCHANGED <<reg, role, db, torn, mixed, faults>>

\* migrateOneTenant: the version goose reports goes into schema_version with the commit
\* that gives the lock back.
RecordVersion(c) ==
  /\ At(c, "apply") /\ CanApply /\ db.ver = Latest
  /\ row' = [row EXCEPT !.ver = db.ver]
  /\ lock' = None
  /\ AfterMigration(c)
  /\ UNCHANGED <<reg, role, db, torn, mixed, faults>>

-----------------------------------------------------------------------------
(* Lifecycle: transactions on the locked tenants row.                      *)

\* allowedTransitions.
Allowed(from, to) ==
  \/ from = "active" /\ to \in {"suspended", "deleting"}
  \/ from = "suspended" /\ to \in {"active", "deleting"}
  \/ from = "deleting" /\ to \in {"active", "suspended", "deleted"}

\* Suspend and Resume.
Transition(to) ==
  /\ Allowed(reg.status, to) /\ to \in Serving
  /\ reg' = [reg EXCEPT !.status = to]
  /\ UNCHANGED <<row, role, db, lock, call, torn, mixed, faults>>

ScheduleDelete ==
  /\ Allowed(reg.status, "deleting")
  /\ reg' = [status |-> "deleting", deadline |-> "future", prev |-> reg.status]
  /\ UNCHANGED <<row, role, db, lock, call, torn, mixed, faults>>

\* Without a prior status it is active; the deadline is not looked at.
Restored == IF reg.prev = None THEN "active" ELSE reg.prev
CancelDelete ==
  /\ Allowed(reg.status, Restored)
  /\ reg' = [status |-> Restored, deadline |-> None, prev |-> None]
  /\ UNCHANGED <<row, role, db, lock, call, torn, mixed, faults>>

\* delete_after passes.  The grace period is days: no enrolment is in flight that long.
GraceElapses ==
  /\ reg.deadline = "future"
  /\ \A c \in Calls : call[c].op # "provision"
  /\ reg' = [reg EXCEPT !.deadline = "past"]
  /\ UNCHANGED <<row, role, db, lock, call, torn, mixed, faults>>

\* RunDelete, check: outside any transaction; without a recorded database there is
\* nothing to drop.
DeleteCheck(c) ==
  /\ At(c, "check")
  /\ \/ ~(reg.status = "deleting" /\ reg.deadline = "past") /\ Return(c)
     \/ /\ reg.status = "deleting" /\ reg.deadline = "past"
        /\ GoTo(c, IF row = NoRow THEN "clear" ELSE "dropdb")
  /\ mixed' = (mixed \/ \E d \in Calls : call[d].op = "provision")
  /\ UNCHANGED <<reg, row, role, db, lock, torn, faults>>

DropDatabase(c) ==
  /\ At(c, "dropdb")
  /\ db' = NoDb
  /\ torn' = (row # NoRow)
  /\ GoTo(c, "droprole")
  /\ UNCHANGED <<reg, row, role, lock, mixed, faults>>

\* DROP ROLE fails on a role that owns a database.
DropRole(c) ==
  /\ At(c, "droprole") /\ ~db.made
  /\ role' = None
  /\ GoTo(c, "clear")
  /\ UNCHANGED <<reg, row, db, lock, torn, mixed, faults>>

\* Variant for mutation: the tombstone is written and the connection row stays.
ClearStatusOnly(c) ==
  /\ At(c, "clear") /\ lock = None
  /\ reg' = [status |-> "deleted", deadline |-> None, prev |-> None]
  /\ Return(c)
  /\ UNCHANGED <<row, role, db, lock, torn, mixed, faults>>

\* RunDelete's transaction: child rows go, the tombstone stays.
ClearRegistry(c) ==
  /\ At(c, "clear") /\ lock = None
  /\ row' = NoRow /\ torn' = FALSE
  /\ reg' = [status |-> "deleted", deadline |-> None, prev |-> None]
  /\ Return(c)
  /\ UNCHANGED <<role, db, lock, mixed, faults>>

-----------------------------------------------------------------------------
(* SettingsService.Patch: the whole document is read, merged and written  *)
(* back without a lock; then the status sub-change of the same request.    *)

\* The schema knows no delete_prev_status: a document that holds one is refused.
Patchable == reg.status # None /\ reg.prev = None

PatchRead(c) ==
  /\ At(c, "read")
  /\ IF Patchable THEN GoTo(c, "write") ELSE Return(c)
  /\ UNCHANGED <<reg, row, role, db, lock, torn, mixed, faults>>

PatchWrite(c) ==
  /\ At(c, "write")
  /\ reg' = [reg EXCEPT !.prev = None]
  /\ GoTo(c, "status") \/ Return(c)
  /\ UNCHANGED <<row, role, db, lock, torn, mixed, faults>>

PatchStatus(c) ==
  /\ At(c, "status")
  /\ \E to \in Serving :
       reg' = IF Allowed(reg.status, to) THEN [reg EXCEPT !.status = to] ELSE reg
  /\ Return(c)
  /\ UNCHANGED <<row, role, db, lock, torn, mixed, faults>>

-----------------------------------------------------------------------------
(* Failures.                                                               *)

Unlocked(c) == IF lock = c THEN None ELSE lock

\* A statement the databases refuse ends the call with an error.
Refused(c) ==
  /\ \/ At(c, "database") /\ role = None
     \/ At(c, "extensions") /\ ~db.made
     \/ At(c, "apply") /\ ~CanApply
     \/ At(c, "droprole") /\ db.made
  /\ lock' = Unlocked(c)
  /\ Return(c)
  /\ UNCHANGED <<reg, row, role, db, torn, mixed, faults>>

\* A lost connection or a crash ends the call anywhere.
Fails(c) ==
  /\ call[c] # Ended
  /\ faults < MaxFaults /\ faults' = faults + 1
  /\ lock' = Unlocked(c)
  /\ Return(c)
  /\ UNCHANGED <<reg, row, role, db, torn, mixed>>

Provision(c) ==
  \/ EnsureTenantRow(c) \/ EnsureDatabaseRow(c) \/ CreateRole(c) \/ CreateDatabase(c)
  \/ InstallExtensions(c) \/ Activate(c)
Migrate(c) == SkipLocked(c) \/ LockRow(c) \/ ApplyNext(c) \/ RecordVersion(c)
RunDelete(c) == DeleteCheck(c) \/ DropDatabase(c) \/ DropRole(c) \/ ClearRegistry(c)
Patch(c) == PatchRead(c) \/ PatchWrite(c) \/ PatchStatus(c)
Start(c) == Enrol(c) \/ MigrateAll(c) \/ Teardown(c) \/ AdminPatch(c)

Next ==
  \/ \E c \in Calls : Start(c) \/ Provision(c) \/ Migrate(c) \/ RunDelete(c) \/ Patch(c)
                      \/ Refused(c) \/ Fails(c)
  \/ \E to \in Serving : Transition(to)
  \/ ScheduleDelete \/ CancelDelete \/ GraceElapses

Spec == Init /\ [][Next]_vars

-----------------------------------------------------------------------------
(* Properties.                                                             *)

\* A tenant the resolver serves has what it is served from: the recorded password opens the
\* role, the database exists with its extensions, and the recorded schema version was
\* reached, whatever enrolments, migrations and teardowns ran before or failed halfway;
\* excepted are a teardown cut short and one that overlapped with an enrolment
\* (provisioner.go Provision, tenant.go migrateOneTenant, lifecycle.go RunDelete).
ServedIsBacked ==
  reg.status \in Serving /\ ~torn /\ ~mixed =>
    /\ row # NoRow /\ role = row.pw
    /\ db.made /\ db.ext /\ row.ver <= db.ver

\* When the teardown reports the tenant deleted nothing of it is left, retries of an
\* interrupted teardown and migrations beside it notwithstanding
\* (lifecycle.go RunDelete).
DeletedIsGone ==
  [][reg.status # "deleted" /\ reg'.status = "deleted" /\ ~mixed =>
       row' = NoRow /\ role' = None /\ ~db'.made]_vars

-----------------------------------------------------------------------------
(* Inductive strengthening of ServedIsBacked and DeletedIsGone.            *)

Removing(c) == call[c].at \in {"dropdb", "droprole", "clear"}
Enrolling(c) == call[c].op = "provision" /\ call[c].at # "tenant"

\* A call is at a place of its operation, and has generated no password before it looked for one.
PlacesOf(op) ==
  CASE op = "provision" -> {"tenant", "dbrow", "role", "database", "extensions", "lock",
                            "apply", "activate"}
    [] op = "migrate" -> {"lock", "apply"}
    [] op = "delete" -> {"check", "dropdb", "droprole", "clear"}
    [] op = "patch" -> {"read", "write", "status"}
    [] OTHER -> {None}
CallsSound ==
  \A c \in Calls :
    /\ call[c].at \in PlacesOf(call[c].op)
    /\ call[c].at \in {"tenant", "dbrow"} => call[c].pw = None

\* What the databases themselves see to: a row has a password, a database an owner, an
\* extension a database; a teardown cut short has left the connection row.
StoresSound ==
  /\ row.pw = None => row = NoRow
  /\ db.ext => db.made
  /\ db.made => role # None
  /\ torn => row # NoRow

\* Without overlap no enrolment is past its first step while a teardown removes things.
Apart == \A c, d \in Calls : ~(Removing(c) /\ Enrolling(d))

\* The connection row is recorded first and cleared last: the role has the recorded password,
\* and what is not recorded does not exist.
RowFirst ==
  /\ role # None => role = row.pw
  /\ row = NoRow => role = None /\ ~db.made
  /\ ~torn => row.ver <= db.ver

\* What an enrolment has behind it at each place.
EnrolmentSound ==
  \A c \in Calls : Enrolling(c) =>
    /\ call[c].at # "dbrow" => row # NoRow
    /\ At(c, "role") /\ call[c].pw # None => call[c].pw = row.pw
    /\ call[c].at \in {"lock", "apply", "activate"} => db.made /\ db.ext

\* What a teardown has behind it at each place.
RemovalSound ==
  \A c \in Calls :
    /\ At(c, "dropdb") => row # NoRow \/ reg.status = "deleted"
    /\ call[c].at \in {"droprole", "clear"} => ~db.made /\ (torn \/ reg.status = "deleted")
    /\ At(c, "clear") => role = None

\* A tenant that has been activated is backed until a teardown begins to remove things.
Backed ==
  reg.status \in Serving \cup {"deleting"} /\ ~torn =>
    row # NoRow /\ role = row.pw /\ db.made /\ db.ext

Sound == ~mixed => Apart /\ RowFirst /\ EnrolmentSound /\ RemovalSound /\ Backed
IInv == TypeOK /\ CallsSound /\ StoresSound /\ Sound
=============================================================================
