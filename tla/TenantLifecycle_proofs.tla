------------------------- MODULE TenantLifecycle_proofs -------------------------
(* Proofs about TenantLifecycle, for any number of calls in flight, any        *)
(* passwords, any schema version and any number of failures.                   *)
EXTENDS TenantLifecycle, TLAPS

-----------------------------------------------------------------------------
(* Calls.                                                                     *)

\* What becomes of the calls when one of them begins, moves on or ends.
LEMMA CallMoves ==
  ASSUME TypeOK, NEW c \in Calls
  PROVE  /\ \A place \in Places : GoTo(c, place) =>
              /\ call' \in [Calls -> CallStates]
              /\ call'[c].at = place /\ call'[c].op = call[c].op /\ call'[c].pw = call[c].pw
              /\ \A d \in Calls : d # c => call'[d] = call[d]
         /\ Return(c) =>
              /\ call' \in [Calls -> CallStates]
              /\ call'[c] = Ended /\ \A d \in Calls : d # c => call'[d] = call[d]
         /\ \A op \in Ops, place \in Places : Begin(c, op, place) =>
              /\ call' \in [Calls -> CallStates]
              /\ call'[c].op = op /\ call'[c].at = place /\ call'[c].pw = None
              /\ \A d \in Calls : d # c => call'[d] = call[d]
<1>1. call \in [Calls -> CallStates] /\ Ended \in CallStates
  BY DEF TypeOK, Ended, CallStates
<1>2. ASSUME NEW place \in Places, GoTo(c, place)
      PROVE  /\ call' \in [Calls -> CallStates]
             /\ call'[c].at = place /\ call'[c].op = call[c].op /\ call'[c].pw = call[c].pw
             /\ \A d \in Calls : d # c => call'[d] = call[d]
  BY <1>1, <1>2 DEF GoTo, CallStates
<1>3. ASSUME Return(c)
      PROVE  /\ call' \in [Calls -> CallStates]
             /\ call'[c] = Ended /\ \A d \in Calls : d # c => call'[d] = call[d]
  BY <1>1, <1>3 DEF Return
<1>4. ASSUME NEW op \in Ops, NEW place \in Places, Begin(c, op, place)
      PROVE  /\ call' \in [Calls -> CallStates]
             /\ call'[c].op = op /\ call'[c].at = place /\ call'[c].pw = None
             /\ \A d \in Calls : d # c => call'[d] = call[d]
  BY <1>1, <1>4 DEF Begin, CallStates, Ended
<1> QED  BY <1>2, <1>3, <1>4

\* Every step keeps every column and every call in its domain.
LEMMA TypeStep ==
  ASSUME TypeOK, [Next]_vars
  PROVE  TypeOK'
<1>1. /\ None \in Places \cup {None} /\ 0 \in Versions /\ Latest \in Versions
      /\ \A n \in Versions : n < Latest => n + 1 \in Versions
  BY TenantsAssumption DEF Versions
<1>2. \A c \in Calls, place \in Places :
        GoTo(c, place) => call' \in [Calls -> CallStates]
  BY CallMoves
<1>3. \A c \in Calls :
        Return(c) => call' \in [Calls -> CallStates]
  BY CallMoves
<1>4. \A c \in Calls : Unlocked(c) \in Calls \cup {None}
  BY DEF TypeOK, Unlocked
<1>5. ASSUME NEW c \in Calls, Start(c) PROVE TypeOK'
  <2>1. PICK op \in Ops, place \in Places : Begin(c, op, place)
    BY <1>5 DEF Start, Enrol, MigrateAll, Teardown, AdminPatch, Ops, Places
  <2>2. call' \in [Calls -> CallStates]
    BY <2>1, CallMoves
  <2> QED  BY <2>1, <2>2 DEF Begin, TypeOK
<1>6. ASSUME NEW c \in Calls, Provision(c) PROVE TypeOK'
  <2>1. CASE EnsureTenantRow(c)
    BY <1>2, <2>1 DEF EnsureTenantRow, TypeOK, Statuses, Places
  <2>2. CASE EnsureDatabaseRow(c)
    BY <1>1, <1>2, <2>2 DEF EnsureDatabaseRow, TypeOK, Places, CallStates
  <2>3. CASE CreateRole(c)
    BY <1>2, <2>3 DEF CreateRole, TypeOK, Places, CallStates
  <2>4. CASE CreateDatabase(c)
    BY <1>2, <2>4 DEF CreateDatabase, TypeOK, Places
  <2>5. CASE InstallExtensions(c)
    BY <1>2, <2>5 DEF InstallExtensions, TypeOK, Places
  <2>6. CASE Activate(c)
    BY <1>3, <2>6 DEF Activate, TypeOK, Statuses, Serving
  <2> QED  BY <1>6, <2>1, <2>2, <2>3, <2>4, <2>5, <2>6 DEF Provision
<1>7. ASSUME NEW c \in Calls, Migrate(c) PROVE TypeOK'
  <2>1. AfterMigration(c) => call' \in [Calls -> CallStates]
    BY <1>2, <1>3 DEF AfterMigration, Places
  <2>2. CASE SkipLocked(c)
    BY <2>1, <2>2 DEF SkipLocked, TypeOK
  <2>3. CASE LockRow(c)
    BY <1>2, <2>3 DEF LockRow, TypeOK, Places
  <2>4. CASE ApplyNext(c)
    BY <1>1, <2>4 DEF ApplyNext, TypeOK
  <2>5. CASE RecordVersion(c)
    BY <1>1, <2>1, <2>5 DEF RecordVersion, TypeOK
  <2> QED  BY <1>7, <2>2, <2>3, <2>4, <2>5 DEF Migrate
<1>8. ASSUME NEW c \in Calls, RunDelete(c) PROVE TypeOK'
  <2>1. CASE DeleteCheck(c)
    BY <1>2, <1>3, <2>1 DEF DeleteCheck, TypeOK, Places
  <2>2. CASE DropDatabase(c)
    BY <1>1, <1>2, <2>2 DEF DropDatabase, TypeOK, Places, NoDb
  <2>3. CASE DropRole(c)
    BY <1>2, <2>3 DEF DropRole, TypeOK, Places
  <2>4. CASE ClearRegistry(c)
    BY <1>1, <1>3, <2>4 DEF ClearRegistry, TypeOK, NoRow, Statuses
  <2> QED  BY <1>8, <2>1, <2>2, <2>3, <2>4 DEF RunDelete
<1>9. ASSUME NEW c \in Calls, Patch(c) PROVE TypeOK'
  <2>1. CASE PatchRead(c)
    BY <1>2, <1>3, <2>1 DEF PatchRead, TypeOK, Places
  <2>2. CASE PatchWrite(c)
    BY <1>2, <1>3, <2>2 DEF PatchWrite, TypeOK, Places
  <2>3. CASE PatchStatus(c)
    BY <1>3, <2>3 DEF PatchStatus, TypeOK, Statuses
  <2> QED  BY <1>9, <2>1, <2>2, <2>3 DEF Patch
<1>10. ASSUME NEW c \in Calls, Refused(c) \/ Fails(c) PROVE TypeOK'
  BY <1>3, <1>4, <1>10, TenantsAssumption DEF Refused, Fails, TypeOK
<1>11. ASSUME NEW to \in Serving, Transition(to) PROVE TypeOK'
  BY <1>11 DEF Transition, TypeOK, Statuses
<1>12. CASE ScheduleDelete
  BY <1>12 DEF ScheduleDelete, Allowed, TypeOK, Statuses, Serving
<1>13. CASE CancelDelete
  BY <1>13 DEF CancelDelete, Restored, Allowed, TypeOK, Statuses, Serving
<1>14. CASE GraceElapses
  BY <1>14 DEF GraceElapses, TypeOK
<1>15. CASE UNCHANGED vars
  BY <1>15 DEF vars, TypeOK
<1> QED
  BY <1>5, <1>6, <1>7, <1>8, <1>9, <1>10, <1>11, <1>12, <1>13, <1>14, <1>15 DEF Next

-----------------------------------------------------------------------------
(* Places, and what the databases see to.                                     *)

\* The operation of a call, told by its place.
LEMMA PlaceTells ==
  ASSUME CallsSound, NEW c \in Calls
  PROVE  /\ call[c].at \in {"tenant", "dbrow", "role", "database", "extensions", "activate"}
              => call[c].op = "provision"
         /\ call[c].at \in {"lock", "apply"} => call[c].op \in {"provision", "migrate"}
         /\ call[c].at \in {"check", "dropdb", "droprole", "clear"} => call[c].op = "delete"
         /\ call[c].at \in {"read", "write", "status"} => call[c].op = "patch"
  BY DEF CallsSound, PlacesOf, None

LEMMA CallsStep ==
  ASSUME TypeOK, CallsSound, [Next]_vars
  PROVE  CallsSound'
<1>1. ASSUME NEW c \in Calls, NEW place \in PlacesOf(call[c].op) \cap Places, GoTo(c, place),
             place # "tenant", place = "dbrow" => At(c, "tenant")
      PROVE  CallsSound'
  BY <1>1, CallMoves DEF CallsSound, At
<1>2. ASSUME NEW c \in Calls, Return(c) PROVE CallsSound'
  BY <1>2, CallMoves DEF CallsSound, PlacesOf, Ended, None
<1>3. ASSUME NEW c \in Calls, NEW op \in Ops, NEW place \in PlacesOf(op) \cap Places,
             Begin(c, op, place)
      PROVE  CallsSound'
  BY <1>3, CallMoves DEF CallsSound
<1>4. ASSUME UNCHANGED call PROVE CallsSound'
  BY <1>4 DEF CallsSound
<1>5. ASSUME NEW c \in Calls, Start(c) PROVE CallsSound'
  BY <1>3, <1>5 DEF Start, Enrol, MigrateAll, Teardown, AdminPatch, Ops, Places, PlacesOf
<1>6. ASSUME NEW c \in Calls, Provision(c) PROVE CallsSound'
  <2>1. call[c].op = "provision"
    BY <1>6, PlaceTells DEF Provision, EnsureTenantRow, EnsureDatabaseRow, CreateRole,
                            CreateDatabase, InstallExtensions, Activate, At
  <2>2. \A place \in {"dbrow", "role", "database", "extensions", "lock"} :
          place \in PlacesOf(call[c].op) \cap Places
    BY <2>1 DEF PlacesOf, Places
  <2>3. CASE EnsureDatabaseRow(c) /\ row = NoRow
    <3>1. call'[c].at = "role" /\ call'[c].op = "provision" /\ \A d \in Calls : d # c => call'[d] = call[d]
      BY <2>1, <2>3 DEF EnsureDatabaseRow, TypeOK, CallStates
    <3> QED  BY <3>1, <2>1, <2>2 DEF CallsSound
  <2> QED
    BY <1>1, <1>2, <1>6, <2>2, <2>3 DEF Provision, EnsureTenantRow, EnsureDatabaseRow,
       CreateRole, CreateDatabase, InstallExtensions, Activate
<1>7. ASSUME NEW c \in Calls, Migrate(c) PROVE CallsSound'
  <2>1. call[c].op \in {"provision", "migrate"}
    BY <1>7, PlaceTells DEF Migrate, SkipLocked, LockRow, ApplyNext, RecordVersion, At
  <2>2. "apply" \in PlacesOf(call[c].op) \cap Places
    BY <2>1 DEF PlacesOf, Places
  <2>3. AfterMigration(c) => CallsSound'
    BY <1>1, <1>2 DEF AfterMigration, PlacesOf, Places
  <2> QED
    BY <1>1, <1>4, <1>7, <2>2, <2>3 DEF Migrate, SkipLocked, LockRow, ApplyNext, RecordVersion
<1>8. ASSUME NEW c \in Calls, RunDelete(c) PROVE CallsSound'
  <2>1. call[c].op = "delete"
    BY <1>8, PlaceTells DEF RunDelete, DeleteCheck, DropDatabase, DropRole, ClearRegistry, At
  <2>2. {"dropdb", "droprole", "clear"} \subseteq PlacesOf(call[c].op) \cap Places
    BY <2>1 DEF PlacesOf, Places
  <2> QED
    BY <1>1, <1>2, <1>8, <2>2 DEF RunDelete, DeleteCheck, DropDatabase, DropRole, ClearRegistry
<1>9. ASSUME NEW c \in Calls, Patch(c) PROVE CallsSound'
  <2>1. call[c].op = "patch"
    BY <1>9, PlaceTells DEF Patch, PatchRead, PatchWrite, PatchStatus, At
  <2>2. {"write", "status"} \subseteq PlacesOf(call[c].op) \cap Places
    BY <2>1 DEF PlacesOf, Places
  <2> QED
    BY <1>1, <1>2, <1>9, <2>2 DEF Patch, PatchRead, PatchWrite, PatchStatus
<1>10. ASSUME NEW c \in Calls, Refused(c) \/ Fails(c) PROVE CallsSound'
  BY <1>2, <1>10 DEF Refused, Fails
<1>11. CASE \/ \E to \in Serving : Transition(to)
            \/ ScheduleDelete \/ CancelDelete \/ GraceElapses \/ UNCHANGED vars
  BY <1>4, <1>11 DEF Transition, ScheduleDelete, CancelDelete, GraceElapses, vars
<1> QED  BY <1>5, <1>6, <1>7, <1>8, <1>9, <1>10, <1>11 DEF Next

LEMMA StoresStep ==
  ASSUME TypeOK, StoresSound, [Next]_vars
  PROVE  StoresSound'
<1>1. CASE UNCHANGED <<row, db, role, torn>>
  BY <1>1 DEF StoresSound
<1>2. ASSUME NEW c \in Calls, EnsureDatabaseRow(c) PROVE StoresSound'
  BY <1>2, TenantsAssumption DEF EnsureDatabaseRow, StoresSound, None
<1>3. ASSUME NEW c \in Calls, CreateRole(c) PROVE StoresSound'
  BY <1>3 DEF CreateRole, StoresSound
<1>4. ASSUME NEW c \in Calls, CreateDatabase(c) \/ InstallExtensions(c) PROVE StoresSound'
  BY <1>4 DEF CreateDatabase, InstallExtensions, StoresSound, TypeOK
<1>5. ASSUME NEW c \in Calls, ApplyNext(c) PROVE StoresSound'
  BY <1>5 DEF ApplyNext, StoresSound, TypeOK
<1>6. ASSUME NEW c \in Calls, RecordVersion(c) PROVE StoresSound'
  <2>1. role # None /\ role = row.pw
    BY <1>6 DEF RecordVersion, CanApply, StoresSound
  <2> QED  BY <1>6, <2>1 DEF RecordVersion, StoresSound, TypeOK, NoRow
<1>7. ASSUME NEW c \in Calls, DropDatabase(c) PROVE StoresSound'
  BY <1>7 DEF DropDatabase, StoresSound, NoDb
<1>8. ASSUME NEW c \in Calls, DropRole(c) PROVE StoresSound'
  BY <1>8 DEF DropRole, StoresSound
<1>9. ASSUME NEW c \in Calls, ClearRegistry(c) PROVE StoresSound'
  BY <1>9 DEF ClearRegistry, StoresSound
<1> QED
  BY <1>1, <1>2, <1>3, <1>4, <1>5, <1>6, <1>7, <1>8, <1>9
     DEF Next, vars, Start, Enrol, MigrateAll, Teardown, AdminPatch, Begin, Provision,
         EnsureTenantRow, Activate, Migrate, SkipLocked, LockRow, RunDelete, DeleteCheck, Patch,
         PatchRead, PatchWrite, PatchStatus, Refused, Fails, Transition, ScheduleDelete,
         CancelDelete, GraceElapses

-----------------------------------------------------------------------------
(* Enrolments and teardowns that do not overlap.                              *)

\* Calls that end and calls that begin, and status changes that neither activate a tenant nor
\* bring a deleted one back, disturb nothing.
LEMMA QuietStep ==
  ASSUME IInv, ~mixed, UNCHANGED <<row, role, db, torn>>,
         \A d \in Calls : call'[d] = call[d] \/ (~Removing(d)' /\ ~Enrolling(d)'),
         \/ reg'.status = reg.status
         \/ reg.status \in Serving \cup {"deleting"} /\ reg'.status \in Serving \cup {"deleting"}
  PROVE  (Apart /\ RowFirst /\ EnrolmentSound /\ RemovalSound /\ Backed)'
<1>1. Apart /\ RowFirst /\ EnrolmentSound /\ RemovalSound /\ Backed
  BY DEF IInv, Sound
<1>2. Apart'
  BY <1>1 DEF Apart, Removing, Enrolling
<1>3. EnrolmentSound'
  BY <1>1 DEF EnrolmentSound, Enrolling, At
<1>4. RowFirst' /\ Backed'
  BY <1>1 DEF RowFirst, Backed
<1>5. RemovalSound'
  BY <1>1 DEF RemovalSound, Removing, At, Serving
<1> QED  BY <1>2, <1>3, <1>4, <1>5

\* An overlap is not forgotten.
LEMMA MixedStays ==
  ASSUME TypeOK, [Next]_vars, mixed
  PROVE  mixed'
<1>1. ASSUME NEW c \in Calls, EnsureTenantRow(c) \/ DeleteCheck(c) PROVE mixed'
  BY <1>1 DEF EnsureTenantRow, DeleteCheck
<1>2. CASE UNCHANGED mixed
  BY <1>2
<1> QED
  BY <1>1, <1>2
     DEF Next, vars, Start, Enrol, MigrateAll, Teardown, AdminPatch, Begin, Provision,
         EnsureDatabaseRow, CreateRole, CreateDatabase, InstallExtensions, Activate, Migrate,
         SkipLocked, LockRow, ApplyNext, RecordVersion, RunDelete, DropDatabase, DropRole,
         ClearRegistry, Patch, PatchRead, PatchWrite, PatchStatus, Refused, Fails, Transition,
         ScheduleDelete, CancelDelete, GraceElapses

LEMMA SoundStep ==
  ASSUME IInv, [Next]_vars
  PROVE  Sound'
<1> SUFFICES ASSUME ~mixed' PROVE (Apart /\ RowFirst /\ EnrolmentSound /\ RemovalSound /\ Backed)'
  BY DEF Sound
<1>1. TypeOK /\ CallsSound /\ StoresSound
  BY DEF IInv
<1>2. ~mixed /\ Apart /\ RowFirst /\ EnrolmentSound /\ RemovalSound /\ Backed
  BY MixedStays DEF IInv, Sound
<1>3. ASSUME NEW c \in Calls, EnsureTenantRow(c)
      PROVE  (Apart /\ RowFirst /\ EnrolmentSound /\ RemovalSound /\ Backed)'
  <2>1. /\ call'[c].at = "dbrow" /\ \A d \in Calls : d # c => call'[d] = call[d]
        /\ \A d \in Calls : ~Removing(d)
    BY <1>1, <1>3, CallMoves DEF EnsureTenantRow, Places, Removing
  <2>2. UNCHANGED <<row, role, db, torn>> /\ reg'.status = "provisioning"
    BY <1>1, <1>3 DEF EnsureTenantRow, TypeOK
  <2>3. Apart' /\ EnrolmentSound' /\ RemovalSound'
    BY <1>2, <2>1, <2>2 DEF Apart, EnrolmentSound, RemovalSound, Removing, Enrolling, At
  <2> QED  BY <1>2, <2>2, <2>3 DEF RowFirst, Backed, Serving
<1>4. ASSUME NEW c \in Calls, EnsureDatabaseRow(c)
      PROVE  (Apart /\ RowFirst /\ EnrolmentSound /\ RemovalSound /\ Backed)'
  <2>1. /\ call'[c].at = "role" /\ call'[c].op = call[c].op
        /\ \A d \in Calls : d # c => call'[d] = call[d]
        /\ Enrolling(c) /\ \A d \in Calls : ~Removing(d)
    BY <1>1, <1>2, <1>4, CallMoves, PlaceTells
       DEF EnsureDatabaseRow, Places, Removing, Enrolling, At, Apart, TypeOK, CallStates
  <2>2. UNCHANGED <<reg, role, db, torn>> /\ row' # NoRow
    BY <1>4, TenantsAssumption DEF EnsureDatabaseRow, NoRow, None
  <2>3. CASE row # NoRow /\ GoTo(c, "role") /\ UNCHANGED row
    <3>1. call'[c].pw = None
      BY <1>1, <1>4, <2>3, CallMoves DEF EnsureDatabaseRow, At, CallsSound, Places
    <3> QED
      BY <1>2, <2>1, <2>2, <2>3, <3>1
         DEF Apart, RowFirst, EnrolmentSound, RemovalSound, Backed, Removing, Enrolling, At
  <2>4. CASE row = NoRow
    <3>1. call'[c].pw = row'.pw /\ row'.ver = 0
      BY <1>1, <1>4, <2>4 DEF EnsureDatabaseRow, TypeOK, CallStates
    <3>2. Apart' /\ RemovalSound'
      BY <1>2, <2>1, <2>2 DEF Apart, RemovalSound, Removing, Enrolling, At
    <3>3. RowFirst' /\ Backed'
      BY <1>1, <1>2, <2>2, <2>4, <3>1 DEF RowFirst, Backed, TypeOK, Versions
    <3>4. EnrolmentSound'
      BY <1>2, <2>1, <2>2, <2>4, <3>1 DEF EnrolmentSound, Enrolling, At
    <3> QED  BY <3>2, <3>3, <3>4
  <2> QED  BY <1>4, <2>3, <2>4 DEF EnsureDatabaseRow
<1>5. ASSUME NEW c \in Calls, CreateRole(c)
      PROVE  (Apart /\ RowFirst /\ EnrolmentSound /\ RemovalSound /\ Backed)'
  <2>1. /\ call'[c].at = "database" /\ call'[c].op = call[c].op
        /\ \A d \in Calls : d # c => call'[d] = call[d]
        /\ Enrolling(c) /\ \A d \in Calls : ~Removing(d)
    BY <1>1, <1>2, <1>5, CallMoves, PlaceTells
       DEF CreateRole, Places, Removing, Enrolling, At, Apart
  <2>2. /\ UNCHANGED <<reg, row, db, torn>> /\ row # NoRow
        /\ role' = role \/ (role = None /\ role' = row.pw)
    BY <1>2, <1>5, <2>1 DEF CreateRole, EnrolmentSound, At
  <2>3. Apart' /\ RemovalSound'
    BY <1>2, <2>1, <2>2 DEF Apart, RemovalSound, Removing, Enrolling, At
  <2>4. RowFirst' /\ Backed'
    BY <1>1, <1>2, <2>2 DEF RowFirst, Backed, StoresSound
  <2>5. EnrolmentSound'
    BY <1>2, <2>1, <2>2 DEF EnrolmentSound, Enrolling, At
  <2> QED  BY <2>3, <2>4, <2>5
<1>6. ASSUME NEW c \in Calls, CreateDatabase(c)
      PROVE  (Apart /\ RowFirst /\ EnrolmentSound /\ RemovalSound /\ Backed)'
  <2>1. /\ call'[c].at = "extensions" /\ call'[c].op = call[c].op
        /\ \A d \in Calls : d # c => call'[d] = call[d]
        /\ Enrolling(c) /\ \A d \in Calls : ~Removing(d)
    BY <1>1, <1>2, <1>6, CallMoves, PlaceTells
       DEF CreateDatabase, Places, Removing, Enrolling, At, Apart
  <2>2. /\ UNCHANGED <<reg, row, role, torn>> /\ row # NoRow
        /\ db'.made /\ db'.ext = db.ext /\ db'.ver = db.ver
    BY <1>1, <1>2, <1>6, <2>1 DEF CreateDatabase, EnrolmentSound, At, TypeOK
  <2>3. Apart' /\ RemovalSound'
    BY <1>2, <2>1, <2>2 DEF Apart, RemovalSound, Removing, Enrolling, At
  <2>4. RowFirst' /\ Backed'
    BY <1>1, <1>2, <2>2 DEF RowFirst, Backed
  <2>5. EnrolmentSound'
    BY <1>2, <2>1, <2>2 DEF EnrolmentSound, Enrolling, At
  <2> QED  BY <2>3, <2>4, <2>5
<1>7. ASSUME NEW c \in Calls, InstallExtensions(c)
      PROVE  (Apart /\ RowFirst /\ EnrolmentSound /\ RemovalSound /\ Backed)'
  <2>1. /\ call'[c].at = "lock" /\ call'[c].op = call[c].op
        /\ \A d \in Calls : d # c => call'[d] = call[d]
        /\ Enrolling(c) /\ \A d \in Calls : ~Removing(d)
    BY <1>1, <1>2, <1>7, CallMoves, PlaceTells
       DEF InstallExtensions, Places, Removing, Enrolling, At, Apart
  <2>2. /\ UNCHANGED <<reg, row, role, torn>> /\ row # NoRow
        /\ db.made /\ db'.made /\ db'.ext /\ db'.ver = db.ver
    BY <1>1, <1>2, <1>7, <2>1 DEF InstallExtensions, EnrolmentSound, At, TypeOK
  <2>3. Apart' /\ RemovalSound'
    BY <1>2, <2>1, <2>2 DEF Apart, RemovalSound, Removing, Enrolling, At
  <2>4. RowFirst' /\ Backed'
    BY <1>1, <1>2, <2>2 DEF RowFirst, Backed
  <2>5. EnrolmentSound'
    BY <1>2, <2>1, <2>2 DEF EnrolmentSound, Enrolling, At
  <2> QED  BY <2>3, <2>4, <2>5
<1>8. ASSUME NEW c \in Calls, Activate(c)
      PROVE  (Apart /\ RowFirst /\ EnrolmentSound /\ RemovalSound /\ Backed)'
  <2>1. /\ call'[c] = Ended /\ \A d \in Calls : d # c => call'[d] = call[d]
        /\ Enrolling(c) /\ \A d \in Calls : ~Removing(d)
    BY <1>1, <1>2, <1>8, CallMoves, PlaceTells DEF Activate, Removing, Enrolling, At, Apart
  <2>2. /\ UNCHANGED <<row, role, db, torn>> /\ reg'.status = "active"
        /\ row # NoRow /\ db.made /\ db.ext /\ role = row.pw
    BY <1>1, <1>2, <1>8, <2>1 DEF Activate, EnrolmentSound, At, TypeOK, StoresSound, RowFirst
  <2>3. Apart' /\ RemovalSound' /\ EnrolmentSound'
    BY <1>2, <2>1, <2>2 DEF Apart, EnrolmentSound, RemovalSound, Removing, Enrolling, At, Ended, None
  <2> QED  BY <1>2, <2>2, <2>3 DEF RowFirst, Backed
<1>9. ASSUME NEW c \in Calls, Migrate(c)
      PROVE  (Apart /\ RowFirst /\ EnrolmentSound /\ RemovalSound /\ Backed)'
  <2>1. call[c].at \in {"lock", "apply"} /\ call[c].op \in {"provision", "migrate"} /\ ~Removing(c)
    BY <1>9, <1>1, PlaceTells
       DEF Migrate, SkipLocked, LockRow, ApplyNext, RecordVersion, At, Removing
  <2>2. /\ ~Removing(c)' /\ (Enrolling(c)' => Enrolling(c) /\ call'[c].at \in {"lock", "apply", "activate"})
        /\ \A d \in Calls : d # c => call'[d] = call[d]
    BY <1>1, <1>9, <2>1, CallMoves
       DEF Migrate, SkipLocked, LockRow, ApplyNext, RecordVersion, AfterMigration, At, Removing,
           Enrolling, Ended, Places, None
  <2>3. /\ UNCHANGED <<reg, role, torn>> /\ row'.pw = row.pw /\ (row' = NoRow <=> row = NoRow)
        /\ db'.made = db.made /\ db'.ext = db.ext
        /\ row.ver <= db.ver => row'.ver <= db'.ver
    <3>1. CASE SkipLocked(c) \/ LockRow(c)
      BY <3>1 DEF SkipLocked, LockRow
    <3>2. CASE ApplyNext(c)
      BY <1>1, <3>2 DEF ApplyNext, TypeOK, Versions
    <3>3. CASE RecordVersion(c)
      <4>1. row' = [row EXCEPT !.ver = db.ver] /\ UNCHANGED <<reg, role, db, torn>>
        BY <3>3 DEF RecordVersion
      <4>2. row.pw # None
        BY <1>1, <3>3 DEF RecordVersion, CanApply, StoresSound
      <4> QED  BY <1>1, <4>1, <4>2 DEF TypeOK, Versions, NoRow
    <3> QED  BY <1>9, <3>1, <3>2, <3>3 DEF Migrate
  <2>4. Apart' /\ RemovalSound'
    BY <1>2, <2>2, <2>3 DEF Apart, RemovalSound, Removing, Enrolling, At
  <2>5. RowFirst' /\ Backed'
    BY <1>2, <2>3 DEF RowFirst, Backed
  <2>6. EnrolmentSound'
    BY <1>2, <2>1, <2>2, <2>3 DEF EnrolmentSound, Enrolling, At
  <2> QED  BY <2>4, <2>5, <2>6
<1>10. ASSUME NEW c \in Calls, DeleteCheck(c)
      PROVE  (Apart /\ RowFirst /\ EnrolmentSound /\ RemovalSound /\ Backed)'
  <2>1. /\ \A d \in Calls : call[d].op # "provision"
        /\ call'[c].op # "provision" /\ \A d \in Calls : d # c => call'[d] = call[d]
    <3>1. \A d \in Calls : call[d].op # "provision"
      BY <1>10 DEF DeleteCheck
    <3>2. /\ call'[c].op \in {call[c].op, None}
          /\ \A d \in Calls : d # c => call'[d] = call[d]
      BY <1>1, <1>10, CallMoves DEF DeleteCheck, Places, Ended
    <3> QED  BY <3>1, <3>2 DEF None
  <2>2. UNCHANGED <<reg, row, role, db, torn>>
    BY <1>10 DEF DeleteCheck
  <2>3. Apart' /\ EnrolmentSound'
    BY <2>1 DEF Apart, EnrolmentSound, Enrolling
  <2>4. RemovalSound'
    <3>1. /\ At(c, "dropdb")' => row # NoRow
          /\ At(c, "clear")' => row = NoRow /\ reg.status = "deleting"
          /\ ~At(c, "droprole")'
      BY <1>1, <1>10, CallMoves DEF DeleteCheck, Places, At, Ended, None
    <3>2. ~At(c, "clear")'
      BY <1>1, <1>2, <3>1 DEF Backed, StoresSound
    <3> QED  BY <1>2, <2>1, <2>2, <3>1, <3>2 DEF RemovalSound, At
  <2> QED  BY <1>2, <2>2, <2>3, <2>4 DEF RowFirst, Backed
<1>11. ASSUME NEW c \in Calls, DropDatabase(c)
      PROVE  (Apart /\ RowFirst /\ EnrolmentSound /\ RemovalSound /\ Backed)'
  <2>1. /\ call'[c].at = "droprole" /\ call'[c].op = "delete" /\ Removing(c)
        /\ \A d \in Calls : d # c => call'[d] = call[d]
        /\ \A d \in Calls : ~Enrolling(d)
    BY <1>1, <1>2, <1>11, CallMoves, PlaceTells DEF DropDatabase, Places, Removing, At, Apart
  <2>2. UNCHANGED <<reg, row, role>> /\ ~db'.made /\ db'.ver = 0 /\ (torn' <=> row # NoRow)
    BY <1>11 DEF DropDatabase, NoDb
  <2>3. Apart' /\ EnrolmentSound'
    BY <2>1 DEF Apart, EnrolmentSound, Enrolling
  <2>4. RemovalSound'
    BY <1>2, <1>11, <2>1, <2>2 DEF RemovalSound, DropDatabase, At
  <2>5. RowFirst' /\ Backed'
    <3>1. row = NoRow => row.ver = 0 /\ reg.status = "deleted"
      BY <1>2, <1>11 DEF RemovalSound, DropDatabase, NoRow
    <3> QED  BY <1>2, <2>2, <3>1 DEF RowFirst, Backed, Serving
  <2> QED  BY <2>3, <2>4, <2>5
<1>12. ASSUME NEW c \in Calls, DropRole(c)
      PROVE  (Apart /\ RowFirst /\ EnrolmentSound /\ RemovalSound /\ Backed)'
  <2>1. /\ call'[c].at = "clear" /\ call'[c].op = "delete" /\ Removing(c)
        /\ \A d \in Calls : d # c => call'[d] = call[d]
        /\ \A d \in Calls : ~Enrolling(d)
    BY <1>1, <1>2, <1>12, CallMoves, PlaceTells DEF DropRole, Places, Removing, At, Apart
  <2>2. UNCHANGED <<reg, row, db, torn>> /\ ~db.made /\ role' = None /\ (torn \/ reg.status = "deleted")
    BY <1>2, <1>12 DEF DropRole, RemovalSound, At
  <2>3. Apart' /\ EnrolmentSound'
    BY <2>1 DEF Apart, EnrolmentSound, Enrolling
  <2>4. RemovalSound'
    BY <1>2, <2>1, <2>2 DEF RemovalSound, At
  <2>5. RowFirst' /\ Backed'
    BY <1>2, <2>2 DEF RowFirst, Backed, Serving
  <2> QED  BY <2>3, <2>4, <2>5
<1>13. ASSUME NEW c \in Calls, ClearRegistry(c)
      PROVE  (Apart /\ RowFirst /\ EnrolmentSound /\ RemovalSound /\ Backed)'
  <2>1. /\ call'[c] = Ended /\ Removing(c)
        /\ \A d \in Calls : d # c => call'[d] = call[d]
        /\ \A d \in Calls : ~Enrolling(d)
    BY <1>1, <1>2, <1>13, CallMoves DEF ClearRegistry, Removing, At, Apart
  <2>2. /\ UNCHANGED <<role, db>> /\ row' = NoRow /\ reg'.status = "deleted"
        /\ role = None /\ ~db.made /\ db.ver \in Nat
    BY <1>1, <1>2, <1>13 DEF ClearRegistry, RemovalSound, At, TypeOK, Versions
  <2>3. Apart' /\ EnrolmentSound'
    BY <2>1 DEF Apart, EnrolmentSound, Enrolling, Ended, None
  <2>4. RemovalSound'
    BY <1>2, <2>1, <2>2 DEF RemovalSound, At, Ended, None
  <2>5. RowFirst' /\ Backed'
    BY <2>2 DEF RowFirst, Backed, Serving, NoRow
  <2> QED  BY <2>3, <2>4, <2>5
<1>14. ASSUME NEW c \in Calls, Start(c) \/ Patch(c) \/ Refused(c) \/ Fails(c)
       PROVE  (Apart /\ RowFirst /\ EnrolmentSound /\ RemovalSound /\ Backed)'
  <2>1. UNCHANGED <<row, role, db, torn>>
    BY <1>14 DEF Start, Enrol, MigrateAll, Teardown, AdminPatch, Begin, Patch, PatchRead,
                 PatchWrite, PatchStatus, Refused, Fails
  <2>2. \/ reg'.status = reg.status
        \/ reg.status \in Serving \cup {"deleting"} /\ reg'.status \in Serving \cup {"deleting"}
    <3>1. CASE PatchStatus(c)
      BY <1>1, <3>1 DEF PatchStatus, Allowed, Serving, TypeOK
    <3>2. CASE PatchWrite(c)
      BY <1>1, <3>2 DEF PatchWrite, TypeOK
    <3>3. CASE UNCHANGED reg
      BY <3>3
    <3> QED
      BY <1>14, <3>1, <3>2, <3>3
         DEF Start, Enrol, MigrateAll, Teardown, AdminPatch, Begin, Patch, PatchRead, Refused, Fails
  <2>3. /\ \A d \in Calls : d # c => call'[d] = call[d]
        /\ ~Removing(c)' /\ ~Enrolling(c)'
    <3>1. Return(c) => /\ \A d \in Calls : d # c => call'[d] = call[d]
                       /\ ~Removing(c)' /\ ~Enrolling(c)'
      BY <1>1, CallMoves DEF Removing, Enrolling, Ended, None
    <3>2. CASE Start(c)
      BY <1>1, <3>2, CallMoves
         DEF Start, Enrol, MigrateAll, Teardown, AdminPatch, Ops, Places, Removing, Enrolling
    <3>3. CASE Patch(c)
      <4>1. call[c].op = "patch"
        BY <1>1, <3>3, PlaceTells DEF Patch, PatchRead, PatchWrite, PatchStatus, At
      <4>2. ASSUME NEW place \in {"write", "status"}, GoTo(c, place)
            PROVE  /\ \A d \in Calls : d # c => call'[d] = call[d]
                   /\ ~Removing(c)' /\ ~Enrolling(c)'
        BY <1>1, <4>1, <4>2, CallMoves DEF Places, Removing, Enrolling
      <4> QED  BY <3>1, <3>3, <4>2 DEF Patch, PatchRead, PatchWrite, PatchStatus
    <3>4. CASE Refused(c) \/ Fails(c)
      BY <3>1, <3>4 DEF Refused, Fails
    <3> QED  BY <1>14, <3>2, <3>3, <3>4
  <2> QED  BY <1>2, <2>1, <2>2, <2>3, QuietStep
<1>15. CASE \/ \E to \in Serving : Transition(to)
            \/ ScheduleDelete \/ CancelDelete \/ GraceElapses \/ UNCHANGED vars
  <2>1. UNCHANGED <<row, role, db, torn, call>>
    BY <1>15 DEF Transition, ScheduleDelete, CancelDelete, GraceElapses, vars
  <2>2. \/ reg'.status = reg.status
        \/ reg.status \in Serving \cup {"deleting"} /\ reg'.status \in Serving \cup {"deleting"}
    <3>1. ASSUME NEW to \in Serving, Transition(to)
          PROVE  reg.status \in Serving \cup {"deleting"} /\ reg'.status \in Serving \cup {"deleting"}
      BY <1>1, <3>1 DEF Transition, Allowed, Serving, TypeOK
    <3>2. CASE ScheduleDelete
      BY <3>2 DEF ScheduleDelete, Allowed, Serving
    <3>3. CASE CancelDelete
      BY <1>1, <3>3 DEF CancelDelete, Restored, Allowed, Serving, TypeOK
    <3>4. CASE GraceElapses
      BY <1>1, <3>4 DEF GraceElapses, TypeOK
    <3> QED  BY <1>15, <3>1, <3>2, <3>3, <3>4 DEF vars
  <2> QED  BY <1>2, <2>1, <2>2, QuietStep
<1> QED
  BY <1>3, <1>4, <1>5, <1>6, <1>7, <1>8, <1>9, <1>10, <1>11, <1>12, <1>13, <1>14, <1>15
     DEF Next, Provision, RunDelete

-----------------------------------------------------------------------------
(* The theorems.                                                              *)

\* The inductive invariant holds in every reachable state.
THEOREM Invariance == Spec => []IInv
<1>1. Init => IInv
  <2> SUFFICES ASSUME Init PROVE IInv
    OBVIOUS
  <2>1. TypeOK
    <3>1. 0 \in Versions /\ 0 \in 0..MaxFaults
      BY TenantsAssumption DEF Versions
    <3>2. Ended \in CallStates
      BY DEF Ended, CallStates
    <3>3. NoRow \in [pw: Passwords \cup {None}, ver: Versions]
          /\ NoDb \in [made: BOOLEAN, ext: BOOLEAN, ver: Versions]
      BY <3>1 DEF NoRow, NoDb
    <3>4. reg \in [status: Statuses, deadline: {None, "future", "past"}, prev: Serving \cup {None}]
      BY DEF Init, Statuses
    <3> QED  BY <3>1, <3>2, <3>3, <3>4 DEF Init, TypeOK
  <2>2. CallsSound /\ StoresSound
    BY DEF Init, CallsSound, StoresSound, PlacesOf, NoRow, NoDb, Ended, None
  <2>3. Sound
    BY DEF Init, Sound, Apart, RowFirst, EnrolmentSound, RemovalSound, Backed, Removing,
           Enrolling, At, NoRow, NoDb, Ended, None, Serving
  <2> QED  BY <2>1, <2>2, <2>3 DEF IInv
<1>2. IInv /\ [Next]_vars => IInv'
  BY TypeStep, CallsStep, StoresStep, SoundStep DEF IInv
<1> QED  BY <1>1, <1>2, PTL DEF Spec

\* Registry row, connection row, role, database and calls stay well formed.
THEOREM TypeCorrect == Spec => []TypeOK
<1>1. IInv => TypeOK
  BY DEF IInv
<1> QED  BY <1>1, Invariance, PTL

\* Whatever enrolments, migrations, status changes and teardowns ran before, interleaved or
\* failed halfway, a tenant that is served has its role, its database and the version that is
\* recorded for it, unless a teardown was cut short or overlapped with an enrolment.
THEOREM ServedIsBackedAlways == Spec => []ServedIsBacked
<1>1. IInv => ServedIsBacked
  BY DEF IInv, Sound, Backed, RowFirst, ServedIsBacked
<1> QED  BY <1>1, Invariance, PTL

\* A teardown reports a tenant deleted only when the connection row, the role and the database
\* are gone, however many teardowns run side by side and however often one is repeated.
THEOREM DeletedIsGoneAlways == Spec => DeletedIsGone
<1>1. IInv /\ [Next]_vars =>
        [reg.status # "deleted" /\ reg'.status = "deleted" /\ ~mixed =>
           row' = NoRow /\ role' = None /\ ~db'.made]_vars
  <2> SUFFICES ASSUME IInv, [Next]_vars, reg.status # "deleted", reg'.status = "deleted", ~mixed
               PROVE  row' = NoRow /\ role' = None /\ ~db'.made
    OBVIOUS
  <2>1. TypeOK /\ RemovalSound
    BY DEF IInv, Sound
  <2>2. ASSUME NEW c \in Calls, ClearRegistry(c)
        PROVE  row' = NoRow /\ role' = None /\ ~db'.made
    BY <2>1, <2>2 DEF ClearRegistry, RemovalSound, At
  <2>3. ASSUME NEW c \in Calls, EnsureTenantRow(c) \/ Activate(c) \/ Patch(c) PROVE FALSE
    BY <2>1, <2>3
       DEF EnsureTenantRow, Activate, Patch, PatchRead, PatchWrite, PatchStatus, Serving, TypeOK
  <2>4. ASSUME NEW to \in Serving, Transition(to) PROVE FALSE
    BY <2>1, <2>4 DEF Transition, Serving, TypeOK
  <2>5. ~ScheduleDelete /\ ~CancelDelete /\ ~GraceElapses
    BY <2>1 DEF ScheduleDelete, CancelDelete, Restored, GraceElapses, Serving, TypeOK
  <2>6. reg' # reg
    OBVIOUS
  <2> QED
    BY <2>2, <2>3, <2>4, <2>5, <2>6
       DEF Next, vars, Start, Enrol, MigrateAll, Teardown, AdminPatch, Begin, Provision,
           EnsureDatabaseRow, CreateRole, CreateDatabase, InstallExtensions, Migrate,
           SkipLocked, LockRow, ApplyNext, RecordVersion, RunDelete, DeleteCheck, DropDatabase,
           DropRole, Refused, Fails
<1> QED  BY <1>1, Invariance, PTL DEF Spec, DeletedIsGone
=============================================================================
