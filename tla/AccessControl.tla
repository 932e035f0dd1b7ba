----------------------------- MODULE AccessControl -----------------------------
(***************************************************************************)
(* Who may act on a tenant: internal/cp/auth.  Password login with its     *)
(* lockout, OIDC login with linking and just-in-time users, sessions, API  *)
(* keys, memberships, the tenant-access gate of the admin routes and       *)
(* impersonation grants.                                                   *)
(*                                                                         *)
(* One tenant.  The services hold no state: handlers interleave between    *)
(* their SQL statements, at most Cardinality(Threads) at a time.  Deadlines *)
(* (lock window, idle session, key expiry) pass as steps of their own.     *)
(***************************************************************************)
EXTENDS Naturals, FiniteSets

CONSTANTS
  Users,        \* email addresses, each of at most one user
  Subjects,     \* subjects at the identity provider
  Threads,      \* handlers that run at once
  MaxFailures,  \* LockoutPolicy.MaxFailures
  MaxOps        \* bound on handlers started

ASSUME AccessAssumption ==
  /\ IsFiniteSet(Users) /\ IsFiniteSet(Threads)
  /\ "none" \notin Users \cup Subjects  \* stands for NULL
  /\ MaxFailures \in Nat \ {0} /\ MaxOps \in Nat

VARIABLES
  user,     \* users: row exists, password set, failed_login_count, locked_until (null, in the
            \* future or past), is_platform_admin
  started,  \* subjects whose browser holds the OIDC state cookie
  link,     \* user_identities: the user of a subject
  member,   \* tenant_members: role
  session,  \* the newest session of a user: "none", "live", "over" (idle or revoked)
  key,      \* an API key: "none", "live", "over" (revoked or expired)
  grant,    \* impersonation_sessions: "none", "active", "ended"
  audit,    \* audit_log: rows of each action
  thr,      \* handlers in flight
  ops,
  hist      \* what happened: since its counters were last reset, the wrong passwords given for a
            \* user, how many of them were not written, and the lock windows that passed; the
            \* users, the subjects and the tenant whose statements overlapped, the users a subject
            \* got sessions of, acts of platform admins outside their tenants

vars == <<user, started, link, member, session, key, grant, audit, thr, ops, hist>>

None == "none"
Roles == {"owner", "admin", "viewer"}
TenantActs == {"read", "setrole", "remove", "add", "newkey", "revoke"}
Idle == [op |-> None, at |-> None, u |-> None, arg |-> None, n |-> 0]
Locks == {"null", "future", "past"}
NoUser == [is |-> FALSE, pw |-> FALSE, fails |-> 0, lock |-> "null", plat |-> FALSE]

\* The handler, the statement it is at, the user it is about and what else, a number it read.
Handler == [op: TenantActs \cup {None, "login", "open", "oidc", "start", "end"},
            at: {None, "right", "wrong", "email", "jit", "link", "mint", "gate", "act", "write", "audit"},
            u: Users \cup {None}, arg: Subjects \cup Roles \cup {None}, n: Nat]
UserRow == [is: BOOLEAN, pw: BOOLEAN, fails: Nat, lock: Locks, plat: BOOLEAN]

TypeOK ==
  /\ user \in [Users -> UserRow]
  /\ started \subseteq Subjects
  /\ link \in [Subjects -> Users \cup {None}]
  /\ member \in [Users -> Roles \cup {None}]
  /\ session \in [Users -> {None, "live", "over"}]
  /\ key \in {None, "live", "over"} /\ grant \in {None, "active", "ended"}
  /\ audit \in [access: Nat, start: Nat, end: Nat]
  /\ thr \in [Threads -> Handler] /\ ops \in 0..MaxOps
  /\ hist \in [wrong: [Users -> Nat], unwritten: [Users -> Nat], windows: [Users -> Nat],
               raced: SUBSET (Users \cup Subjects \cup {"owners"}), crossed: Nat, minted: [Subjects -> SUBSET Users]]
  \* foreign keys
  /\ \A u \in Users : (member[u] # None \/ session[u] # None) => user[u].is
  /\ \A s \in Subjects : link[s] # None => user[link[s]].is

\* A tenant with two owners, one of them a password user, and a platform admin.
Init ==
  /\ \E pw \in Users, plat \in Users :
       /\ user = [u \in Users |-> IF u \in {pw, plat} THEN [NoUser EXCEPT !.is = TRUE, !.pw = (u = pw),
                                                              !.plat = (u = plat /\ u # pw)] ELSE NoUser]
       /\ member \in [Users -> {"owner", None}]
       /\ \A u \in Users : member[u] # None => user[u].is
       /\ \E u \in Users : member[u] = "owner"
  /\ started = {}
  /\ link = [s \in Subjects |-> None]
  /\ session = [u \in Users |-> IF user[u].is THEN "live" ELSE None]
  /\ key = None /\ grant = None
  /\ audit = [access |-> 0, start |-> 0, end |-> 0]
  /\ thr = [i \in Threads |-> Idle]
  /\ ops = 0
  /\ hist = [wrong |-> [u \in Users |-> 0], unwritten |-> [u \in Users |-> 0],
             windows |-> [u \in Users |-> 0], raced |-> {}, crossed |-> 0,
             minted |-> [s \in Subjects |-> {}]]

Free(i) == thr[i] = Idle /\ ops < MaxOps /\ ops' = ops + 1
At(i, op, at) == thr[i].op = op /\ thr[i].at = at
Done(i) == thr' = [thr EXCEPT ![i] = Idle]
Becomes(i, op, at, u, arg, n) ==
  thr' = [thr EXCEPT ![i] = [op |-> op, at |-> at, u |-> u, arg |-> arg, n |-> n]]
\* Another handler is between two statements about x.
Racing(op, x) == {x : j \in {k \in Threads : thr[k].op = op /\ x \in {thr[k].u, thr[k].arg}}}
Tables_ == <<user, started, link, member, session, key, grant, audit>>

-----------------------------------------------------------------------------
(* Password login.                                                         *)

\* Login reads the row; while locked the password is not even checked.
LoginReads(i, u, right) ==
  /\ Free(i) /\ user[u].is /\ user[u].pw /\ user[u].lock # "future"
  /\ hist' = [hist EXCEPT !.raced = @ \cup Racing("login", u)]
  /\ Becomes(i, "login", IF right THEN "right" ELSE "wrong", u, None, user[u].fails)
  /\ UNCHANGED Tables_

\* NextFailure: the count reached the maximum.
Trips(n) == n >= MaxFailures

\* Variant for mutation: the lock waits for one failure more.
WrongPasswordLate(i, written) ==
  /\ At(i, "login", "wrong")
  /\ LET n == thr[i].n + 1
     IN  user' = IF written
                 THEN [user EXCEPT ![thr[i].u].fails = n, ![thr[i].u].lock = IF Trips(n - 1) THEN "future" ELSE @]
                 ELSE user
  /\ hist' = [hist EXCEPT !.wrong[thr[i].u] = @ + 1, !.unwritten[thr[i].u] = @ + (IF written THEN 0 ELSE 1)]
  /\ Done(i)
  /\ UNCHANGED <<started, link, member, session, key, grant, audit, ops>>

\* recordFailure: the count read before the password was checked, plus one; when the statement
\* fails (a caller that hung up, the database) the count stays and the guess was free.
WrongPassword(i, written) ==
  /\ At(i, "login", "wrong")
  /\ LET n == thr[i].n + 1
     IN  user' = IF written
                 THEN [user EXCEPT ![thr[i].u].fails = n, ![thr[i].u].lock = IF Trips(n) THEN "future" ELSE @]
                 ELSE user
  /\ hist' = [hist EXCEPT !.wrong[thr[i].u] = @ + 1, !.unwritten[thr[i].u] = @ + (IF written THEN 0 ELSE 1)]
  /\ Done(i)
  /\ UNCHANGED <<started, link, member, session, key, grant, audit, ops>>

\* The counters are reset, in a statement of its own.
ResetCounters(i) ==
  /\ At(i, "login", "right")
  /\ user' = [user EXCEPT ![thr[i].u].fails = 0, ![thr[i].u].lock = "null"]
  /\ hist' = [hist EXCEPT !.wrong[thr[i].u] = 0, !.unwritten[thr[i].u] = 0, !.windows[thr[i].u] = 0]
  /\ Becomes(i, "open", "mint", thr[i].u, None, 0)
  /\ UNCHANGED <<started, link, member, session, key, grant, audit, ops>>

\* createSession: a row with a fresh token and the idle deadline.
CreateSession(u) == session' = [session EXCEPT ![u] = "live"]

\* Then the session is created.
LoginOpens(i) ==
  /\ At(i, "open", "mint")
  /\ CreateSession(thr[i].u)
  /\ Done(i)
  /\ UNCHANGED <<user, started, link, member, key, grant, audit, ops, hist>>

\* The statement a handler is at fails: its error is returned, the statements before it stay.
\* (A failed recordFailure is WrongPassword's, as the guess was answered; a tenant route that
\* fails in its gate or at its first statement is one never begun.)
StatementFails(i) ==
  /\ thr[i].at \in {"right", "email", "jit", "link", "mint", "write", "audit"}
  /\ Done(i)
  /\ UNCHANGED <<Tables_, ops, hist>>

\* The lock window passes; failed_login_count keeps its value.
LockLapses(u) ==
  /\ user[u].lock = "future"
  /\ user' = [user EXCEPT ![u].lock = "past"]
  /\ hist' = [hist EXCEPT !.windows[u] = @ + 1]
  /\ UNCHANGED <<started, link, member, session, key, grant, audit, thr, ops>>

\* Service.Signup: a password is hashed and a row with a unique email inserted.
InsertUser(u) ==
  /\ ~user[u].is
  /\ user' = [user EXCEPT ![u] = [NoUser EXCEPT !.is = TRUE, !.pw = TRUE]]

Signup(i, u) ==
  /\ Free(i) /\ InsertUser(u)
  /\ UNCHANGED <<started, link, member, session, key, grant, audit, thr, hist>>

\* BootstrapAdmin: inserted with a password, or only is_platform_admin set.
BootstrapAdmin(i, u, plat) ==
  /\ Free(i)
  /\ user' = [user EXCEPT ![u].is = TRUE, ![u].pw = @ \/ ~user[u].is, ![u].plat = plat]
  /\ UNCHANGED <<started, link, member, session, key, grant, audit, thr, hist>>

-----------------------------------------------------------------------------
(* OIDC login: Callback after state, nonce and verified email are accepted. *)
(* The email of a subject is what the provider says at the time.           *)

\* Start, AuthCodeURL: state, nonce and verifier go into a cookie.
StartOIDC(s) ==
  /\ s \notin started
  /\ started' = started \cup {s}
  /\ UNCHANGED <<user, link, member, session, key, grant, audit, thr, ops, hist>>

\* Callback clears the cookie whatever follows: state or nonce mismatch, failed exchange,
\* no or unverified email.
CallbackRefused(s) ==
  /\ s \in started
  /\ started' = started \ {s}
  /\ UNCHANGED <<user, link, member, session, key, grant, audit, thr, ops, hist>>

\* Variant for mutation: the email's user before the identity's.
CallbackEmailFirst(i, s, email) ==
  /\ Free(i) /\ s \in started
  /\ started' = started \ {s}
  /\ hist' = [hist EXCEPT !.raced = @ \cup Racing("oidc", s)]
  /\ IF link[s] # None /\ ~user[email].is
     THEN Becomes(i, "oidc", "mint", link[s], s, 0)
     ELSE Becomes(i, "oidc", "email", email, s, 0)
  /\ UNCHANGED <<user, link, member, session, key, grant, audit>>

\* resolveUser (1): the identity's user.
CallbackLooksUp(i, s, email) ==
  /\ Free(i) /\ s \in started
  /\ started' = started \ {s}
  /\ hist' = [hist EXCEPT !.raced = @ \cup Racing("oidc", s)]
  /\ IF link[s] # None
     THEN Becomes(i, "oidc", "mint", link[s], s, 0)
     ELSE Becomes(i, "oidc", "email", email, s, 0)
  /\ UNCHANGED <<user, link, member, session, key, grant, audit>>

\* (2) the user with the verified email, else (3) just-in-time creation or refusal.
CallbackMatchesEmail(i, jit) ==
  /\ At(i, "oidc", "email")
  /\ IF user[thr[i].u].is THEN thr' = [thr EXCEPT ![i].at = "link"]
     ELSE IF jit THEN thr' = [thr EXCEPT ![i].at = "jit"] ELSE Done(i)
  /\ UNCHANGED <<Tables_, ops, hist>>

\* jitCreate: a password-less user; when another login inserted the email first, that row.
JitCreate(i) ==
  /\ At(i, "oidc", "jit")
  /\ user' = [user EXCEPT ![thr[i].u].is = TRUE]
  /\ thr' = [thr EXCEPT ![i].at = "link"]
  /\ UNCHANGED <<started, link, member, session, key, grant, audit, ops, hist>>

\* linkIdentity: on conflict do nothing.
LinkIdentity(i) ==
  /\ At(i, "oidc", "link")
  /\ link' = [link EXCEPT ![thr[i].arg] = IF @ = None THEN thr[i].u ELSE @]
  /\ thr' = [thr EXCEPT ![i].at = "mint"]
  /\ UNCHANGED <<user, started, member, session, key, grant, audit, ops, hist>>

\* createSession for the user resolved; the lockout is not consulted.
MintSession(i) ==
  /\ At(i, "oidc", "mint")
  /\ CreateSession(thr[i].u)
  /\ hist' = [hist EXCEPT !.minted[thr[i].arg] = @ \cup {thr[i].u}]
  /\ Done(i)
  /\ UNCHANGED <<user, started, link, member, key, grant, audit, ops>>

\* Logout revokes.
Logout(u) ==
  /\ session[u] = "live"
  /\ session' = [session EXCEPT ![u] = "over"]
  /\ UNCHANGED <<user, started, link, member, key, grant, audit, thr, ops, hist>>

\* Twelve hours without a Lookup.
SessionIdles(u) ==
  /\ session[u] = "live"
  /\ session' = [session EXCEPT ![u] = "over"]
  /\ UNCHANGED <<user, started, link, member, key, grant, audit, thr, ops, hist>>

-----------------------------------------------------------------------------
(* The gates.                                                              *)

\* roleMatrix on the two permissions the acts ask for; editors and viewers are alike here.
Can(role, perm) == role \in IF perm = "manage" THEN {"owner", "admin"} ELSE Roles
\* The permission each tenant route is mounted with.
Perm(act) == IF act = "read" THEN "read" ELSE "manage"

\* Lookup: not revoked, not idle; a hit slides the deadline.
Lookup(u) == session[u] = "live"

\* RequireSession, then CSRF: refusals change nothing.
RequestBegins(i, u, act) ==
  /\ Free(i) /\ Lookup(u)
  /\ Becomes(i, act, "gate", u, None, 0)
  /\ UNCHANGED <<Tables_, hist>>

\* lookupPrincipal: one query for the role and the platform flag.
Principal(u) == [role |-> member[u], member |-> member[u] # None, platformAdmin |-> user[u].plat]

\* RequireTenantAccess: no claim on the tenant, or a role without the permission.
GateRefuses(i) ==
  /\ thr[i].op \in TenantActs /\ thr[i].at = "gate"
  /\ LET p == Principal(thr[i].u) IN ~p.platformAdmin /\ ~Can(p.role, Perm(thr[i].op))
  /\ Done(i)
  /\ UNCHANGED <<Tables_, ops, hist>>

GateAdmits(i) ==
  /\ thr[i].op \in TenantActs /\ thr[i].at = "gate"
  /\ LET p == Principal(thr[i].u)
     IN  IF p.platformAdmin THEN p.member ELSE Can(p.role, Perm(thr[i].op))
  /\ thr' = [thr EXCEPT ![i].at = "act"]
  /\ UNCHANGED <<Tables_, ops, hist>>

\* Variant for mutation: a failed audit write does not stop the request.
GateAuditsOrNot(i, written) ==
  /\ thr[i].op \in TenantActs /\ thr[i].at = "gate"
  /\ LET p == Principal(thr[i].u) IN p.platformAdmin /\ ~p.member
  /\ audit' = IF written THEN [audit EXCEPT !.access = @ + 1] ELSE audit
  /\ hist' = [hist EXCEPT !.crossed = @ + 1]
  /\ thr' = [thr EXCEPT ![i].at = "act"]
  /\ UNCHANGED <<user, started, link, member, session, key, grant, ops>>

\* A platform admin who is no member is admitted once the audit row is written.
GateAudits(i, written) ==
  /\ thr[i].op \in TenantActs /\ thr[i].at = "gate"
  /\ LET p == Principal(thr[i].u) IN p.platformAdmin /\ ~p.member
  /\ IF written
     THEN /\ audit' = [audit EXCEPT !.access = @ + 1]
          /\ hist' = [hist EXCEPT !.crossed = @ + 1]
          /\ thr' = [thr EXCEPT ![i].at = "act"]
     ELSE Done(i) /\ UNCHANGED <<audit, hist>>
  /\ UNCHANGED <<user, started, link, member, session, key, grant, ops>>

\* A read handler, or an admin request over its session: nothing of this model changes.
Reads(i) ==
  /\ At(i, "read", "act")
  /\ Done(i)
  /\ UNCHANGED <<Tables_, ops, hist>>

-----------------------------------------------------------------------------
(* Memberships.                                                            *)

Owners == {u \in Users : member[u] = "owner"}

\* The service's insert: a unique (tenant, user).
Joined(u, role) == [member EXCEPT ![u] = IF @ = None THEN role ELSE @]

\* An email without a user is refused.
UserByEmail(u) == user[u].is

AddMember(i, u, role) ==
  /\ At(i, "add", "act") /\ UserByEmail(u)
  /\ member' = Joined(u, role)
  /\ Done(i)
  /\ UNCHANGED <<user, started, link, session, key, grant, audit, ops, hist>>

\* SetMemberRole and RemoveMember are one statement each: the snapshot its subquery counts
\* owners in, then the row it locks and changes.
Guarded(i, u, to) ==
  /\ hist' = [hist EXCEPT !.raced = @ \cup {"owners" : j \in {k \in Threads : thr[k].at = "write"}}]
  /\ thr' = [thr EXCEPT ![i] = [@ EXCEPT !.at = "write", !.u = u, !.arg = to, !.n = Cardinality(Owners)]]
  /\ UNCHANGED <<Tables_, ops>>
SetRole(i, u, role) == At(i, "setrole", "act") /\ Guarded(i, u, role)
Remove(i, u) == At(i, "remove", "act") /\ Guarded(i, u, None)

\* Variant for mutation: the guard of the demotion is left out.
LastOwnerUnguarded(i) == FALSE 
\* The statement's guard: the row is an owner's, stops being one, and the count is 1.
LastOwner(i) == member[thr[i].u] = "owner" /\ thr[i].arg # "owner" /\ thr[i].n <= 1

GuardedWrites(i) ==
  /\ thr[i].op \in {"setrole", "remove"} /\ thr[i].at = "write"
  /\ member' = [member EXCEPT ![thr[i].u] = IF @ = None \/ LastOwner(i) THEN @ ELSE thr[i].arg]
  /\ Done(i)
  /\ UNCHANGED <<user, started, link, session, key, grant, audit, ops, hist>>

-----------------------------------------------------------------------------
(* API keys.                                                               *)

\* Only the secret's hash is stored.
InsertKey == key = None /\ key' = "live"
CreateKey(i) ==
  /\ At(i, "newkey", "act") /\ InsertKey
  /\ Done(i)
  /\ UNCHANGED <<user, started, link, member, session, grant, audit, ops, hist>>
\* Idempotent.
RevokeKey(i) ==
  /\ At(i, "revoke", "act")
  /\ key' = IF key = "live" THEN "over" ELSE key
  /\ Done(i)
  /\ UNCHANGED <<user, started, link, member, session, grant, audit, ops, hist>>
KeyExpires ==
  /\ key = "live" /\ key' = "over"
  /\ UNCHANGED <<user, started, link, member, session, grant, audit, thr, ops, hist>>
\* Verify: the hash's row, not revoked, not expired.
Verify == key = "live"
\* The request then runs with the key's tenant, whatever the key does meanwhile.
RequireScope(i) ==
  /\ Free(i) /\ Verify
  /\ Becomes(i, "read", "act", None, None, 0)
  /\ UNCHANGED <<Tables_, hist>>

-----------------------------------------------------------------------------
(* Impersonation.                                                          *)

\* RequirePlatformAdmin.
AdminGate(i, ok) ==
  /\ thr[i].op \in {"start", "end"} /\ thr[i].at = "gate"
  /\ ok = user[thr[i].u].plat
  /\ IF ok THEN thr' = [thr EXCEPT ![i].at = "act"] ELSE Done(i)
  /\ UNCHANGED <<Tables_, ops, hist>>
\* Start: the grant's row, then its audit row: two statements on the pool.
StartInserts(i) ==
  /\ At(i, "start", "act") /\ grant = None
  /\ grant' = "active"
  /\ thr' = [thr EXCEPT ![i].at = "audit"]
  /\ UNCHANGED <<user, started, link, member, session, key, audit, ops, hist>>
StartAudits(i, written) ==
  /\ At(i, "start", "audit")
  /\ audit' = IF written THEN [audit EXCEPT !.start = @ + 1] ELSE audit
  /\ Done(i)
  /\ UNCHANGED <<user, started, link, member, session, key, grant, ops, hist>>
\* End: an unknown grant is refused; ended_at is stamped once, every call is audited.
EndGrant(i, written) ==
  /\ At(i, "end", "act") /\ grant # None
  /\ grant' = "ended"
  /\ audit' = IF written THEN [audit EXCEPT !.end = @ + 1] ELSE audit
  /\ Done(i)
  /\ UNCHANGED <<user, started, link, member, session, key, ops, hist>>

-----------------------------------------------------------------------------
Accounts(i) ==
  \/ \E u \in Users : Signup(i, u) \/ \E b \in BOOLEAN : BootstrapAdmin(i, u, b) \/ LoginReads(i, u, b)
  \/ (\E b \in BOOLEAN : WrongPassword(i, b)) \/ ResetCounters(i) \/ LoginOpens(i) \/ StatementFails(i)
  \/ (\E s \in Subjects, e \in Users : CallbackLooksUp(i, s, e)) \/ (\E jit \in BOOLEAN : CallbackMatchesEmail(i, jit))
  \/ JitCreate(i) \/ LinkIdentity(i) \/ MintSession(i)
Gates(i) ==
  \/ \E u \in Users, act \in TenantActs \cup {"start", "end"} : RequestBegins(i, u, act)
  \/ GateRefuses(i) \/ GateAdmits(i) \/ Reads(i) \/ RequireScope(i)
  \/ \E ok \in BOOLEAN : GateAudits(i, ok) \/ AdminGate(i, ok)
Acts(i) ==
  \/ \E u \in Users, role \in Roles : AddMember(i, u, role)
  \/ \E u \in Users : Remove(i, u) \/ \E role \in Roles : SetRole(i, u, role)
  \/ GuardedWrites(i) \/ CreateKey(i) \/ RevokeKey(i)
  \/ StartInserts(i) \/ \E ok \in BOOLEAN : StartAudits(i, ok) \/ EndGrant(i, ok)

Next ==
  \/ \E i \in Threads : Accounts(i) \/ Gates(i) \/ Acts(i)
  \/ \E u \in Users : LockLapses(u) \/ Logout(u) \/ SessionIdles(u)
  \/ \E s \in Subjects : StartOIDC(s) \/ CallbackRefused(s)
  \/ KeyExpires

Spec == Init /\ [][Next]_vars

-----------------------------------------------------------------------------
(* Properties.                                                             *)

\* A tenant keeps an owner, whoever is demoted or removed in whatever order, as long as no
\* two guarded statements overlap (membership.go SetMemberRole, RemoveMember).
OwnerRemains == "owners" \in hist.raced \/ Owners # {}

\* A subject's sessions are all of the one user its identity was first linked to, whatever
\* emails the provider gives it later and whoever signs up under them, unless callbacks of
\* the subject overlap (oidc.go resolveUser, jitCreate, linkIdentity).
OneUserPerSubject ==
  \A s \in Subjects : s \in hist.raced \/ hist.minted[s] \subseteq {link[s]}

\* Unless attempts on one account overlap, the passwords that can be guessed wrong between two
\* resets of its counters are MaxFailures, one more for each lock window that was waited for,
\* and those whose count could not be written (service.go Login, recordFailure; lockout.go
\* NextFailure, IsLocked).
LockoutHolds ==
  \A u \in Users \ hist.raced :
    hist.wrong[u] <= MaxFailures + hist.windows[u] + hist.unwritten[u]

\* A platform admin never acts on a tenant without being a member of it or leaving an audit
\* row, also when the audit write fails (tenant_access.go RequireTenantAccess).
CrossTenantAudited == hist.crossed <= audit.access

-----------------------------------------------------------------------------
(* Inductive strengthening.                                                *)

\* A login is of a user there is, before and after its reset; so is the user a callback links or
\* mints a session of, and a guarded statement writes a role or removes.
HandlersSound ==
  \A i \in Threads :
    /\ thr[i].op \in {"login", "open"} => thr[i].u \in Users /\ user[thr[i].u].is
    /\ thr[i].op = "oidc" => thr[i].u \in Users /\ thr[i].arg \in Subjects
         /\ (thr[i].at \in {"link", "mint"} => user[thr[i].u].is)
    /\ thr[i].at = "write" => thr[i].op \in {"setrole", "remove"} /\ thr[i].u \in Users
         /\ thr[i].arg \in Roles \cup {None}

\* An attempt on an account nobody else is at holds the stored count, and no lock runs.
LoginsSound ==
  /\ \A u \in Users : ~user[u].is => user[u].fails = 0
  /\ \A i, j \in Threads :
       thr[i].op = "login" /\ thr[j].op = "login" /\ thr[i].u = thr[j].u /\ thr[i].u \notin hist.raced
         => thr[i].n = user[thr[i].u].fails /\ user[thr[i].u].lock # "future" /\ i = j

\* The stored count is the guesses that were written; the guess that trips the lock runs its
\* window, and the next one may be made when the window has passed.
LocksSound ==
  \A u \in Users \ hist.raced :
    /\ user[u].fails + hist.unwritten[u] = hist.wrong[u]
    /\ user[u].lock = "null" => user[u].fails < MaxFailures
    /\ user[u].lock = "future" => user[u].fails <= MaxFailures + hist.windows[u]
    /\ user[u].lock = "past" => user[u].fails < MaxFailures + hist.windows[u]

\* A callback alone with its subject finds it unlinked until it links it, and mints a session
\* of the user it is linked to.
CallbacksSound ==
  \A i, j \in Threads :
    thr[i].op = "oidc" /\ thr[j].op = "oidc" /\ thr[i].arg = thr[j].arg /\ thr[i].arg \notin hist.raced
      => /\ i = j
         /\ link[thr[i].arg] = IF thr[i].at = "mint" THEN thr[i].u ELSE None

\* Owners only join behind a guarded statement that runs alone.
GuardSound ==
  "owners" \notin hist.raced =>
    \A i, j \in Threads : thr[i].at = "write" /\ thr[j].at = "write"
      => i = j /\ thr[i].n <= Cardinality(Owners)

IInv ==
  /\ TypeOK /\ HandlersSound /\ LoginsSound /\ CallbacksSound /\ GuardSound
  /\ LocksSound /\ OwnerRemains /\ OneUserPerSubject /\ LockoutHolds /\ CrossTenantAudited
=============================================================================
