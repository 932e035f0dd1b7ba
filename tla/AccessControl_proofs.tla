------------------------- MODULE AccessControl_proofs -------------------------
(* Proofs about AccessControl, for any users, subjects and handlers at once,   *)
(* any maximum of failures and any number of requests.                         *)
EXTENDS AccessControl, FiniteSetTheorems, TLAPS

-----------------------------------------------------------------------------
(* Types and the quiet steps: what leaves a part of the invariant alone.     *)

History == [wrong: [Users -> Nat], unwritten: [Users -> Nat], windows: [Users -> Nat],
            raced: SUBSET (Users \cup Subjects \cup {"owners"}), crossed: Nat, minted: [Subjects -> SUBSET Users]]
Audit == [access: Nat, start: Nat, end: Nat]

\* The rows but for the foreign keys.
Rows ==
  /\ user \in [Users -> UserRow] /\ started \subseteq Subjects
  /\ link \in [Subjects -> Users \cup {None}] /\ member \in [Users -> Roles \cup {None}]
  /\ session \in [Users -> {None, "live", "over"}]
  /\ key \in {None, "live", "over"} /\ grant \in {None, "active", "ended"}
  /\ audit \in Audit /\ thr \in [Threads -> Handler] /\ ops \in 0..MaxOps /\ hist \in History
Referenced ==
  /\ \A u \in Users : (member[u] # None \/ session[u] # None) => user[u].is
  /\ \A s \in Subjects : link[s] # None => user[link[s]].is

LEMMA TypeOKIs == TypeOK <=> Rows /\ Referenced
  BY DEF TypeOK, Rows, Referenced, History, Audit
LEMMA TypeOKIsNext == (TypeOK <=> Rows /\ Referenced)'
  BY TypeOKIs, PTL

LEMMA Constants_ ==
  /\ None \notin Users /\ None \notin Subjects /\ MaxFailures \in Nat /\ MaxFailures > 0
  /\ MaxOps \in Nat /\ Idle \in Handler /\ Idle.op = None /\ Idle.at = None
  /\ None \notin Roles
  BY AccessAssumption DEF None, Idle, Handler, Roles

Logins == LoginsSound /\ LocksSound /\ LockoutHolds
Callbacks == CallbacksSound /\ OneUserPerSubject
Guards == GuardSound /\ OwnerRemains
LEMMA IInvIs ==
  IInv <=> TypeOK /\ HandlersSound /\ Logins /\ Callbacks /\ Guards /\ CrossTenantAudited
  BY DEF IInv, Logins, Callbacks, Guards

\* One handler moves.
LEMMA Moves ==
  ASSUME Rows, NEW i \in Threads, NEW r \in Handler, thr' = [thr EXCEPT ![i] = r]
  PROVE  /\ thr' \in [Threads -> Handler] /\ thr'[i] = r
         /\ \A j \in Threads : j # i => thr'[j] = thr[j]
  BY DEF Rows

LEMMA HandlersQuiet ==
  ASSUME HandlersSound, \A u \in Users : user[u].is => user'[u].is,
         \A j \in Threads : \/ thr'[j] = thr[j]
                            \/ thr'[j].op \notin {"login", "open", "oidc"} /\ thr'[j].at # "write"
  PROVE  HandlersSound'
  BY DEF HandlersSound

\* Handlers that are no logins, and changes of a user row that keep count and lock, but for a
\* row that is new.
LEMMA LoginsQuiet ==
  ASSUME Logins, hist'.wrong = hist.wrong /\ hist'.unwritten = hist.unwritten /\ hist'.windows = hist.windows, hist.raced \subseteq hist'.raced,
         \A u \in Users : /\ user'[u].fails = user[u].fails /\ (user[u].is => user'[u].is)
                          /\ \/ user'[u].lock = user[u].lock
                             \/ user[u].fails = 0 /\ user'[u].lock = "null",
         HandlersSound,
         \A j \in Threads : thr'[j].op = "login" =>
            thr[j].op = "login" /\ thr'[j].u = thr[j].u /\ thr'[j].n = thr[j].n
  PROVE  Logins'
<1>1. LoginsSound'
  <2>1. \A u \in Users : ~user'[u].is => user'[u].fails = 0
    BY DEF Logins, LoginsSound
  <2>2. ASSUME NEW i \in Threads, NEW j \in Threads, thr'[i].op = "login", thr'[j].op = "login",
               thr'[i].u = thr'[j].u, thr'[i].u \notin hist'.raced
        PROVE  thr'[i].n = user'[thr'[i].u].fails /\ user'[thr'[i].u].lock # "future" /\ i = j
    <3>1. thr[i].op = "login" /\ thr[j].op = "login" /\ thr[i].u = thr[j].u /\ thr[i].u \notin hist.raced
      BY <2>2
    <3>2. thr[i].u \in Users
      BY <3>1 DEF HandlersSound
    <3>3. thr[i].n = user[thr[i].u].fails /\ user[thr[i].u].lock # "future" /\ i = j
      BY <3>1 DEF Logins, LoginsSound
    <3> QED  BY <2>2, <3>2, <3>3
  <2> QED  BY <2>1, <2>2 DEF LoginsSound
<1>2. LocksSound'
  <2> SUFFICES ASSUME NEW v \in Users \ hist'.raced
               PROVE  /\ user'[v].fails + hist'.unwritten[v] = hist'.wrong[v]
                      /\ user'[v].lock = "null" => user'[v].fails < MaxFailures
                      /\ user'[v].lock = "future" => user'[v].fails <= MaxFailures + hist'.windows[v]
                      /\ user'[v].lock = "past" => user'[v].fails < MaxFailures + hist'.windows[v]
    BY DEF LocksSound
  <2>1. v \in Users \ hist.raced
    OBVIOUS
  <2> QED  BY <2>1, Constants_ DEF Logins, LocksSound
<1>3. LockoutHolds'
  BY DEF Logins, LockoutHolds
<1> QED  BY <1>1, <1>2, <1>3 DEF Logins

LEMMA CallbacksQuiet ==
  ASSUME Callbacks, link' = link, hist'.minted = hist.minted, hist.raced \subseteq hist'.raced,
         \A j \in Threads : thr'[j].op = "oidc" =>
            /\ thr[j].op = "oidc" /\ thr'[j].u = thr[j].u /\ thr'[j].arg = thr[j].arg
            /\ thr'[j].at = "mint" <=> thr[j].at = "mint"
  PROVE  Callbacks'
<1>1. CallbacksSound'
  <2> SUFFICES ASSUME NEW i \in Threads, NEW j \in Threads, thr'[i].op = "oidc", thr'[j].op = "oidc",
                      thr'[i].arg = thr'[j].arg, thr'[i].arg \notin hist'.raced
               PROVE  i = j /\ link'[thr'[i].arg] = IF thr'[i].at = "mint" THEN thr'[i].u ELSE None
    BY DEF CallbacksSound
  <2>1. thr[i].op = "oidc" /\ thr[j].op = "oidc" /\ thr[i].arg = thr[j].arg /\ thr[i].arg \notin hist.raced
    OBVIOUS
  <2>2. i = j /\ link[thr[i].arg] = IF thr[i].at = "mint" THEN thr[i].u ELSE None
    BY <2>1 DEF Callbacks, CallbacksSound
  <2> QED  BY <2>2
<1>2. OneUserPerSubject'
  BY DEF Callbacks, OneUserPerSubject
<1> QED  BY <1>1, <1>2 DEF Callbacks

LEMMA OwnersFinite ==
  ASSUME NEW S, S \subseteq Users
  PROVE  IsFiniteSet(S) /\ Cardinality(S) \in Nat
  BY AccessAssumption, FS_Subset, FS_CardinalityType

LEMMA GuardsQuiet ==
  ASSUME Rows, Guards, Owners \subseteq Owners', hist.raced \subseteq hist'.raced,
         \A j \in Threads : thr'[j].at = "write" => thr[j].at = "write" /\ thr'[j].n = thr[j].n
  PROVE  Guards'
<1>1. Owners \subseteq Users /\ Owners' \subseteq Users
  BY DEF Owners
<1>2. /\ Cardinality(Owners) \in Nat /\ Cardinality(Owners') \in Nat
      /\ Cardinality(Owners) <= Cardinality(Owners')
  BY <1>1, OwnersFinite, FS_Subset
<1>3. GuardSound'
  <2> SUFFICES ASSUME "owners" \notin hist'.raced, NEW i \in Threads, NEW j \in Threads,
                      thr'[i].at = "write", thr'[j].at = "write"
               PROVE  i = j /\ thr'[i].n <= Cardinality(Owners')
    BY DEF GuardSound
  <2>1. i = j /\ thr[i].n <= Cardinality(Owners)
    BY DEF Guards, GuardSound
  <2>2. thr[i].n \in Nat
    BY DEF Rows, Handler
  <2> QED  BY <1>2, <2>1, <2>2
<1>4. OwnerRemains'
  BY DEF Guards, OwnerRemains
<1> QED  BY <1>3, <1>4 DEF Guards

\* A step of a handler that is no login, no callback and no guarded statement.
LEMMA OtherQuiet ==
  ASSUME IInv, NEW i \in Threads, NEW r \in Handler, thr' = [thr EXCEPT ![i] = r],
         r.op \notin {"login", "open", "oidc"}, r.at # "write", UNCHANGED <<user, link>>,
         hist'.wrong = hist.wrong /\ hist'.unwritten = hist.unwritten /\ hist'.windows = hist.windows, hist'.raced = hist.raced, hist'.minted = hist.minted,
         Owners \subseteq Owners'
  PROVE  HandlersSound' /\ Logins' /\ Callbacks' /\ Guards' /\ thr' \in [Threads -> Handler]
<1>1. Rows /\ HandlersSound /\ Logins /\ Callbacks /\ Guards
  BY IInvIs, TypeOKIs
<1>2. /\ thr' \in [Threads -> Handler] /\ thr'[i] = r
      /\ \A j \in Threads : j # i => thr'[j] = thr[j]
  BY <1>1, Moves
<1>3. HandlersSound'
  BY <1>1, <1>2, HandlersQuiet
<1>4. Logins'
  BY <1>1, <1>2, LoginsQuiet
<1>5. Callbacks'
  BY <1>1, <1>2, CallbacksQuiet
<1>6. Guards'
  BY <1>1, <1>2, GuardsQuiet
<1> QED  BY <1>2, <1>3, <1>4, <1>5, <1>6

-----------------------------------------------------------------------------
(* Requests, API keys, impersonation and joining members.                    *)

Kept == TypeOK' /\ HandlersSound' /\ Logins' /\ Callbacks' /\ Guards' /\ CrossTenantAudited'

LEMMA RequestSteps ==
  ASSUME IInv, NEW i \in Threads,
         \/ \E u \in Users, act \in TenantActs \cup {"start", "end"} : RequestBegins(i, u, act)
         \/ GateRefuses(i) \/ GateAdmits(i) \/ Reads(i) \/ RequireScope(i) \/ StatementFails(i)
         \/ \E ok \in BOOLEAN : AdminGate(i, ok)
  PROVE  Kept
<1>1. Rows /\ Referenced /\ CrossTenantAudited /\ thr[i] \in Handler
  BY IInvIs, TypeOKIs DEF Rows
<1>2. ops' \in 0..MaxOps /\ UNCHANGED <<user, started, link, member, session, key, grant, audit, hist>>
  BY <1>1, Constants_ DEF Rows, RequestBegins, GateRefuses, GateAdmits, Reads, RequireScope, AdminGate,
     StatementFails, Tables_, Free
<1>3. PICK r \in Handler : /\ thr' = [thr EXCEPT ![i] = r] /\ r.op \notin {"login", "open", "oidc"}
                           /\ r.at # "write"
  <2>1. ASSUME NEW u \in Users, NEW act \in TenantActs \cup {"start", "end"}, RequestBegins(i, u, act)
        PROVE  \E r \in Handler : /\ thr' = [thr EXCEPT ![i] = r] /\ r.op \notin {"login", "open", "oidc"}
                                  /\ r.at # "write"
    <3> DEFINE r == [op |-> act, at |-> "gate", u |-> u, arg |-> None, n |-> 0]
    <3>1. r \in Handler /\ r.op \notin {"login", "open", "oidc"} /\ r.at # "write"
      BY DEF Handler, TenantActs
    <3> QED  BY <2>1, <3>1 DEF RequestBegins, Becomes
  <2>2. CASE \/ GateRefuses(i) \/ Reads(i) \/ StatementFails(i)
    BY <2>2, Constants_ DEF GateRefuses, Reads, StatementFails, Done, None
  <2>3. CASE GateAdmits(i)
    <3> DEFINE r == [thr[i] EXCEPT !.at = "act"]
    <3>1. r \in Handler /\ r.op \notin {"login", "open", "oidc"} /\ r.at # "write"
      BY <1>1, <2>3 DEF Handler, GateAdmits, TenantActs
    <3>2. thr' = [thr EXCEPT ![i] = r]
      BY <2>3 DEF GateAdmits
    <3> QED  BY <3>1, <3>2
  <2>4. CASE RequireScope(i)
    <3> DEFINE r == [op |-> "read", at |-> "act", u |-> None, arg |-> None, n |-> 0]
    <3>1. r \in Handler /\ r.op \notin {"login", "open", "oidc"} /\ r.at # "write"
      BY DEF Handler, TenantActs
    <3> QED  BY <2>4, <3>1 DEF RequireScope, Becomes
  <2>5. ASSUME NEW ok \in BOOLEAN, AdminGate(i, ok)
        PROVE  \E r \in Handler : /\ thr' = [thr EXCEPT ![i] = r] /\ r.op \notin {"login", "open", "oidc"}
                                  /\ r.at # "write"
    <3>1. CASE ok
      <4> DEFINE r == [thr[i] EXCEPT !.at = "act"]
      <4>1. r \in Handler /\ r.op \notin {"login", "open", "oidc"} /\ r.at # "write"
        BY <1>1, <2>5 DEF Handler, AdminGate
      <4>2. thr' = [thr EXCEPT ![i] = r]
        BY <2>5, <3>1 DEF AdminGate
      <4> QED  BY <4>1, <4>2
    <3>2. CASE ~ok
      BY <2>5, <3>2, Constants_ DEF AdminGate, Done, None
    <3> QED  BY <3>1, <3>2
  <2> QED  BY <2>1, <2>2, <2>3, <2>4, <2>5
<1>4. Owners' = Owners
  BY <1>2 DEF Owners
<1>5. HandlersSound' /\ Logins' /\ Callbacks' /\ Guards' /\ thr' \in [Threads -> Handler]
  BY <1>2, <1>3, <1>4, OtherQuiet
<1>6. TypeOK'
  BY <1>1, <1>2, <1>5, TypeOKIsNext DEF Rows, Referenced
<1>7. CrossTenantAudited'
  BY <1>1, <1>2 DEF CrossTenantAudited
<1> QED  BY <1>5, <1>6, <1>7 DEF Kept

\* The audit row is written before the platform admin is let in.
LEMMA GateAuditsStep ==
  ASSUME IInv, NEW i \in Threads, NEW written \in BOOLEAN, GateAudits(i, written)
  PROVE  Kept
<1>1. Rows /\ Referenced /\ CrossTenantAudited /\ thr[i] \in Handler /\ hist \in History /\ audit \in Audit
  BY IInvIs, TypeOKIs DEF Rows
<1>2. /\ UNCHANGED <<user, started, link, member, session, key, grant, ops>> /\ thr[i].op \in TenantActs
      /\ Owners' = Owners
  BY DEF GateAudits, Owners
<1>3. CASE written
  <2> DEFINE r == [thr[i] EXCEPT !.at = "act"]
  <2>1. r \in Handler /\ r.op \notin {"login", "open", "oidc"} /\ r.at # "write"
    BY <1>1, <1>2 DEF Handler, TenantActs
  <2>2. /\ thr' = [thr EXCEPT ![i] = r] /\ audit' = [audit EXCEPT !.access = @ + 1]
        /\ hist' = [hist EXCEPT !.crossed = @ + 1]
    BY <1>3 DEF GateAudits
  <2>3. /\ audit' \in Audit /\ audit'.access = audit.access + 1
        /\ hist' \in History /\ hist'.crossed = hist.crossed + 1 /\ hist'.wrong = hist.wrong /\ hist'.unwritten = hist.unwritten /\ hist'.windows = hist.windows
        /\ hist'.raced = hist.raced /\ hist'.minted = hist.minted
    BY <1>1, <2>2 DEF Audit, History
  <2> HIDE DEF r
  <2>4. HandlersSound' /\ Logins' /\ Callbacks' /\ Guards' /\ thr' \in [Threads -> Handler]
    BY <1>2, <2>1, <2>2, <2>3, OtherQuiet
  <2>5. TypeOK'
    BY <1>1, <1>2, <2>3, <2>4, TypeOKIsNext DEF Rows, Referenced
  <2>6. CrossTenantAudited'
    <3>1. hist.crossed \in Nat /\ audit.access \in Nat /\ hist.crossed <= audit.access
      BY <1>1 DEF History, Audit, CrossTenantAudited
    <3> QED  BY <2>3, <3>1 DEF CrossTenantAudited
  <2> QED  BY <2>4, <2>5, <2>6 DEF Kept
<1>4. CASE ~written
  <2>1. thr' = [thr EXCEPT ![i] = Idle] /\ UNCHANGED <<audit, hist>>
    BY <1>4 DEF GateAudits, Done
  <2>2. HandlersSound' /\ Logins' /\ Callbacks' /\ Guards' /\ thr' \in [Threads -> Handler]
    BY <1>2, <2>1, OtherQuiet, Constants_ DEF None
  <2>3. TypeOK'
    BY <1>1, <1>2, <2>1, <2>2, TypeOKIsNext DEF Rows, Referenced
  <2> QED  BY <1>1, <2>1, <2>2, <2>3 DEF Kept, CrossTenantAudited
<1> QED  BY <1>3, <1>4

LEMMA ActSteps ==
  ASSUME IInv, NEW i \in Threads,
         \/ \E u \in Users, role \in Roles : AddMember(i, u, role)
         \/ CreateKey(i) \/ RevokeKey(i) \/ StartInserts(i)
         \/ \E ok \in BOOLEAN : StartAudits(i, ok) \/ EndGrant(i, ok)
  PROVE  Kept
<1>1. Rows /\ Referenced /\ CrossTenantAudited /\ thr[i] \in Handler /\ audit \in Audit
  BY IInvIs, TypeOKIs DEF Rows
<1>2. UNCHANGED <<user, started, link, session, ops, hist>>
  BY DEF AddMember, CreateKey, RevokeKey, StartInserts, StartAudits, EndGrant
<1>3. PICK r \in Handler : /\ thr' = [thr EXCEPT ![i] = r] /\ r.op \notin {"login", "open", "oidc"}
                           /\ r.at # "write"
  <2>1. CASE StartInserts(i)
    <3> DEFINE r == [thr[i] EXCEPT !.at = "audit"]
    <3>1. r \in Handler /\ r.op \notin {"login", "open", "oidc"} /\ r.at # "write"
      BY <1>1, <2>1 DEF Handler, StartInserts, At
    <3>2. thr' = [thr EXCEPT ![i] = r]
      BY <2>1 DEF StartInserts
    <3> QED  BY <3>1, <3>2
  <2>2. CASE ~StartInserts(i)
    <3>1. Done(i)
      BY <2>2 DEF AddMember, CreateKey, RevokeKey, StartAudits, EndGrant
    <3> QED  BY <3>1, Constants_ DEF Done, None
  <2> QED  BY <2>1, <2>2
<1>4. /\ member' \in [Users -> Roles \cup {None}] /\ Owners \subseteq Owners'
      /\ \A u \in Users : member'[u] # None => user[u].is
  <2>1. ASSUME NEW u \in Users, NEW role \in Roles, AddMember(i, u, role)
        PROVE  /\ member' \in [Users -> Roles \cup {None}] /\ Owners \subseteq Owners'
               /\ \A v \in Users : member'[v] # None => user[v].is
    <3>1. member' = [member EXCEPT ![u] = IF member[u] = None THEN role ELSE member[u]] /\ user[u].is
      BY <2>1 DEF AddMember, Joined, UserByEmail
    <3>2. member \in [Users -> Roles \cup {None}]
      BY <1>1 DEF Rows
    <3> QED  BY <1>1, <3>1, <3>2 DEF Referenced, Owners, None
  <2>2. CASE UNCHANGED member
    BY <1>1, <2>2 DEF Rows, Referenced, Owners
  <2> QED  BY <2>1, <2>2 DEF CreateKey, RevokeKey, StartInserts, StartAudits, EndGrant
<1>5. HandlersSound' /\ Logins' /\ Callbacks' /\ Guards' /\ thr' \in [Threads -> Handler]
  BY <1>2, <1>3, <1>4, OtherQuiet
<1>6. key' \in {None, "live", "over"} /\ grant' \in {None, "active", "ended"}
  BY <1>1 DEF Rows, AddMember, CreateKey, InsertKey, RevokeKey, StartInserts, StartAudits, EndGrant
<1>7. audit' \in Audit /\ audit'.access = audit.access
  BY <1>1 DEF Audit, AddMember, CreateKey, RevokeKey, StartInserts, StartAudits, EndGrant
<1>8. TypeOK'
  BY <1>1, <1>2, <1>4, <1>5, <1>6, <1>7, TypeOKIsNext DEF Rows, Referenced
<1>9. CrossTenantAudited'
  BY <1>1, <1>2, <1>7 DEF CrossTenantAudited
<1> QED  BY <1>5, <1>8, <1>9 DEF Kept

\* Deadlines, logout and what the browser and the provider do.
LEMMA SurroundingSteps ==
  ASSUME IInv,
         \/ \E u \in Users : Logout(u) \/ SessionIdles(u)
         \/ \E s \in Subjects : StartOIDC(s) \/ CallbackRefused(s)
         \/ KeyExpires \/ UNCHANGED vars
  PROVE  Kept
<1>1. /\ Rows /\ Referenced /\ CrossTenantAudited /\ HandlersSound /\ Logins /\ Callbacks /\ Guards
  BY IInvIs, TypeOKIs DEF Rows
<1>2. UNCHANGED <<user, link, member, grant, audit, thr, ops, hist>>
  BY DEF Logout, SessionIdles, StartOIDC, CallbackRefused, KeyExpires, vars
<1>3. /\ started' \subseteq Subjects /\ session' \in [Users -> {None, "live", "over"}]
      /\ key' \in {None, "live", "over"}
      /\ \A u \in Users : session'[u] # None => session[u] # None
  BY <1>1 DEF Rows, Logout, SessionIdles, StartOIDC, CallbackRefused, KeyExpires, vars, None
<1>4. TypeOK'
  BY <1>1, <1>2, <1>3, TypeOKIsNext DEF Rows, Referenced
<1>5. Owners' = Owners
  BY <1>2 DEF Owners
<1>6. HandlersSound' /\ Logins' /\ Callbacks' /\ Guards'
  BY <1>1, <1>2, <1>5, HandlersQuiet, LoginsQuiet, CallbacksQuiet, GuardsQuiet
<1> QED  BY <1>1, <1>2, <1>4, <1>6 DEF Kept, CrossTenantAudited

-----------------------------------------------------------------------------
(* Password login and accounts.                                              *)

LEMMA RacingIs ==
  ASSUME NEW op, NEW x, NEW y
  PROVE  /\ y \in Racing(op, x) => y = x
         /\ x \in Racing(op, x) <=> \E k \in Threads : thr[k].op = op /\ x \in {thr[k].u, thr[k].arg}
  BY DEF Racing

\* An account is made: no handler moves, a count changes only with a new row.
LEMMA AccountSteps ==
  ASSUME IInv,
         \E i \in Threads, u \in Users : Signup(i, u) \/ \E plat \in BOOLEAN : BootstrapAdmin(i, u, plat)
  PROVE  Kept
<1>1. Rows /\ Referenced /\ CrossTenantAudited /\ HandlersSound /\ Logins /\ Callbacks /\ Guards
  BY IInvIs, TypeOKIs
<1>2. /\ UNCHANGED <<started, link, member, session, key, grant, audit, thr, hist>>
      /\ ops' \in 0..MaxOps
  <2>1. ops \in 0..MaxOps
    BY <1>1 DEF Rows
  <2>2. ops < MaxOps /\ ops' = ops + 1
    BY DEF Signup, BootstrapAdmin, Free
  <2>3. UNCHANGED <<started, link, member, session, key, grant, audit, thr, hist>>
    BY DEF Signup, BootstrapAdmin
  <2>4. ops' \in 0..MaxOps
    BY <2>1, <2>2, Constants_
  <2> QED  BY <2>3, <2>4
<1> DEFINE Fits(v) == /\ user'[v].fails = user[v].fails
                      /\ user[v].is => user'[v].is
                      /\ \/ user'[v].lock = user[v].lock
                         \/ user[v].fails = 0 /\ user'[v].lock = "null"
<1>3. user' \in [Users -> UserRow] /\ \A v \in Users : Fits(v)
  <2>1. user \in [Users -> UserRow]
    BY <1>1 DEF Rows
  <2>2. ASSUME NEW u \in Users, InsertUser(u)
        PROVE  user' \in [Users -> UserRow] /\ \A v \in Users : Fits(v)
    <3> DEFINE row == [NoUser EXCEPT !.is = TRUE, !.pw = TRUE]
    <3>1. row \in UserRow /\ row.fails = 0 /\ row.lock = "null"
      BY DEF NoUser, UserRow, Locks
    <3>2. user' = [user EXCEPT ![u] = row] /\ ~user[u].is
      BY <2>2 DEF InsertUser
    <3>3. user[u].fails = 0
      BY <1>1, <3>2 DEF Logins, LoginsSound
    <3> HIDE DEF row
    <3> QED  BY <2>1, <3>1, <3>2, <3>3
  <2>3. ASSUME NEW u \in Users, NEW plat \in BOOLEAN, NEW i \in Threads, BootstrapAdmin(i, u, plat)
        PROVE  user' \in [Users -> UserRow] /\ \A v \in Users : Fits(v)
    <3> DEFINE pw == user[u].pw \/ ~user[u].is
               row == [user[u] EXCEPT !.is = TRUE, !.pw = pw, !.plat = plat]
    <3>1. user[u] \in UserRow /\ pw \in BOOLEAN
      BY <2>1
    <3> HIDE DEF pw
    <3>2. row \in UserRow /\ row.fails = user[u].fails /\ row.is /\ row.lock = user[u].lock
      BY <3>1 DEF UserRow
    <3>3. user' = [user EXCEPT ![u] = row]
      BY <2>3 DEF BootstrapAdmin, pw
    <3> HIDE DEF row
    <3> QED  BY <2>1, <3>2, <3>3
  <2> HIDE DEF Fits
  <2> QED  BY <2>2, <2>3 DEF Signup
<1>4. TypeOK'
  BY <1>1, <1>2, <1>3, TypeOKIsNext DEF Rows, Referenced
<1>5. HandlersSound' /\ Logins' /\ Callbacks'
  BY <1>1, <1>2, <1>3, HandlersQuiet, LoginsQuiet, CallbacksQuiet
<1>6. Owners' = Owners
  BY <1>2 DEF Owners
<1>7. Guards'
  BY <1>1, <1>2, <1>6, GuardsQuiet
<1> QED  BY <1>1, <1>2, <1>4, <1>5, <1>7 DEF Kept, CrossTenantAudited

\* What LocksSound says of one row and its counters.
LocksFit(row, wrong, unwritten, windows) ==
  /\ row.fails + unwritten = wrong
  /\ row.lock = "null" => row.fails < MaxFailures
  /\ row.lock = "future" => row.fails <= MaxFailures + windows
  /\ row.lock = "past" => row.fails < MaxFailures + windows

LEMMA LocksBound ==
  ASSUME NEW row \in UserRow, NEW wrong \in Nat, NEW unwritten \in Nat, NEW windows \in Nat,
         LocksFit(row, wrong, unwritten, windows)
  PROVE  wrong <= MaxFailures + windows + unwritten
<1>1. row.fails \in Nat /\ row.lock \in {"null", "future", "past"} /\ MaxFailures \in Nat
  BY Constants_ DEF UserRow, Locks
<1>2. row.fails <= MaxFailures + windows
  BY <1>1 DEF LocksFit
<1> QED  BY <1>1, <1>2 DEF LocksFit

\* One row and its counters change: every account keeps its locks when that one does.
LEMMA LocksAt ==
  ASSUME Logins, NEW u \in Users, NEW row \in UserRow,
         NEW wrong \in Nat, NEW unwritten \in Nat, NEW windows \in Nat,
         u \notin hist.raced => LocksFit(row, wrong, unwritten, windows),
         user'[u] = row, hist'.wrong[u] = wrong, hist'.unwritten[u] = unwritten, hist'.windows[u] = windows,
         hist'.raced = hist.raced,
         \A v \in Users : v # u => /\ user'[v] = user[v] /\ hist'.wrong[v] = hist.wrong[v]
                                   /\ hist'.unwritten[v] = hist.unwritten[v]
                                   /\ hist'.windows[v] = hist.windows[v]
  PROVE  LocksSound' /\ LockoutHolds'
<1>1. \A v \in Users \ hist.raced :
        LocksFit(user'[v], hist'.wrong[v], hist'.unwritten[v], hist'.windows[v])
  BY DEF Logins, LocksSound, LocksFit
<1>2. LocksSound'
  BY <1>1 DEF LocksSound, LocksFit
<1>3. \A v \in Users \ hist.raced :
        hist'.wrong[v] <= MaxFailures + hist'.windows[v] + hist'.unwritten[v]
  BY LocksBound DEF Logins, LockoutHolds
<1> QED  BY <1>2, <1>3 DEF LockoutHolds

\* The counters of one account change.
LEMMA CountersAt ==
  ASSUME hist \in History, NEW u \in Users, NEW wrong \in Nat, NEW unwritten \in Nat, NEW windows \in Nat,
         hist' = [hist EXCEPT !.wrong = [hist.wrong EXCEPT ![u] = wrong],
                              !.unwritten = [hist.unwritten EXCEPT ![u] = unwritten],
                              !.windows = [hist.windows EXCEPT ![u] = windows]]
  PROVE  /\ hist' \in History /\ hist'.raced = hist.raced
         /\ hist'.minted = hist.minted /\ hist'.crossed = hist.crossed
         /\ hist'.wrong[u] = wrong /\ hist'.unwritten[u] = unwritten /\ hist'.windows[u] = windows
         /\ \A v \in Users : v # u => /\ hist'.wrong[v] = hist.wrong[v]
                                       /\ hist'.unwritten[v] = hist.unwritten[v]
                                       /\ hist'.windows[v] = hist.windows[v]
<1>1. /\ hist.wrong \in [Users -> Nat] /\ hist.unwritten \in [Users -> Nat] /\ hist.windows \in [Users -> Nat]
  BY DEF History
<1> DEFINE w == [hist.wrong EXCEPT ![u] = wrong]
           n == [hist.unwritten EXCEPT ![u] = unwritten]
           x == [hist.windows EXCEPT ![u] = windows]
<1>2. /\ w \in [Users -> Nat] /\ n \in [Users -> Nat] /\ x \in [Users -> Nat]
      /\ w[u] = wrong /\ n[u] = unwritten /\ x[u] = windows
      /\ \A v \in Users : v # u => /\ w[v] = hist.wrong[v] /\ n[v] = hist.unwritten[v]
                                    /\ x[v] = hist.windows[v]
  BY <1>1
<1>3. hist' = [hist EXCEPT !.wrong = w, !.unwritten = n, !.windows = x]
  OBVIOUS
<1> HIDE DEF w, n, x
<1>4. hist' \in History /\ hist'.wrong = w /\ hist'.unwritten = n /\ hist'.windows = x
  BY <1>2, <1>3 DEF History
<1>5. hist'.raced = hist.raced /\ hist'.minted = hist.minted /\ hist'.crossed = hist.crossed
  BY <1>3 DEF History
<1> QED  BY <1>2, <1>4, <1>5

\* The lock window passes: the next guess has been waited for.
LEMMA LockLapsesStep ==
  ASSUME IInv, NEW u \in Users, LockLapses(u)
  PROVE  Kept
<1>1. /\ Rows /\ Referenced /\ CrossTenantAudited /\ HandlersSound /\ Logins /\ Callbacks /\ Guards
      /\ hist \in History /\ user \in [Users -> UserRow] /\ user[u] \in UserRow
  BY IInvIs, TypeOKIs DEF Rows
<1> DEFINE row == [user[u] EXCEPT !.lock = "past"]
           windows == hist.windows[u] + 1
<1>2. /\ UNCHANGED <<started, link, member, session, key, grant, audit, thr, ops>>
      /\ user[u].lock = "future" /\ user' = [user EXCEPT ![u] = row]
  BY DEF LockLapses
<1>3. row \in UserRow /\ row.fails = user[u].fails /\ row.is = user[u].is /\ row.lock = "past"
  BY <1>1 DEF UserRow, Locks
<1> HIDE DEF row
<1>4. /\ user' \in [Users -> UserRow] /\ user'[u] = row
      /\ \A v \in Users : v # u => user'[v] = user[v]
  BY <1>1, <1>2, <1>3
<1>5. /\ hist.wrong[u] \in Nat /\ hist.unwritten[u] \in Nat /\ hist.windows[u] \in Nat
      /\ windows \in Nat
  BY <1>1 DEF History
<1>6. hist' = [hist EXCEPT !.wrong = [hist.wrong EXCEPT ![u] = hist.wrong[u]],
                           !.unwritten = [hist.unwritten EXCEPT ![u] = hist.unwritten[u]],
                           !.windows = [hist.windows EXCEPT ![u] = windows]]
  BY <1>1 DEF LockLapses, History
<1> HIDE DEF windows
<1>7. /\ hist' \in History /\ hist'.raced = hist.raced
      /\ hist'.minted = hist.minted /\ hist'.crossed = hist.crossed
      /\ hist'.wrong[u] = hist.wrong[u] /\ hist'.unwritten[u] = hist.unwritten[u] /\ hist'.windows[u] = windows
      /\ \A v \in Users : v # u => /\ hist'.wrong[v] = hist.wrong[v]
                                    /\ hist'.unwritten[v] = hist.unwritten[v]
                                    /\ hist'.windows[v] = hist.windows[v]
  BY <1>1, <1>5, <1>6, CountersAt
<1>8. u \notin hist.raced => LocksFit(row, hist.wrong[u], hist.unwritten[u], windows)
  <2>1. user[u].fails \in Nat /\ MaxFailures \in Nat
    BY <1>1, Constants_ DEF UserRow
  <2> QED  BY <1>1, <1>2, <1>3, <1>5, <2>1 DEF Logins, LocksSound, LocksFit, windows
<1>9. LocksSound' /\ LockoutHolds'
  BY <1>1, <1>3, <1>4, <1>5, <1>7, <1>8, LocksAt
<1>10. LoginsSound'
  <2>1. \A v \in Users : /\ user'[v].fails = user[v].fails /\ (user[v].is => user'[v].is)
                         /\ user[v].lock # "future" => user'[v].lock # "future"
    BY <1>2, <1>3, <1>4
  <2>2. ASSUME NEW v \in Users, ~user'[v].is PROVE user'[v].fails = 0
    <3>1. ~user[v].is /\ user'[v].fails = user[v].fails
      BY <2>1, <2>2
    <3> QED  BY <1>1, <3>1 DEF Logins, LoginsSound
  <2>3. ASSUME NEW j \in Threads, NEW k \in Threads, thr[j].op = "login", thr[k].op = "login",
               thr[j].u = thr[k].u, thr[j].u \notin hist.raced
        PROVE  thr[j].n = user'[thr[j].u].fails /\ user'[thr[j].u].lock # "future" /\ j = k
    <3>1. /\ thr[j].n = user[thr[j].u].fails /\ user[thr[j].u].lock # "future" /\ j = k
          /\ thr[j].u \in Users
      BY <1>1, <2>3 DEF Logins, LoginsSound, HandlersSound
    <3>2. user'[thr[j].u].fails = user[thr[j].u].fails /\ user'[thr[j].u].lock # "future"
      BY <2>1, <3>1
    <3> QED  BY <3>1, <3>2
  <2>4. thr' = thr /\ hist'.raced = hist.raced
    BY <1>2, <1>7
  <2> QED  BY <2>2, <2>3, <2>4 DEF LoginsSound
<1>11. \A v \in Users : user'[v].is = user[v].is
  BY <1>3, <1>4
<1>12. TypeOK'
  BY <1>1, <1>2, <1>4, <1>7, <1>11, TypeOKIsNext DEF Rows, Referenced
<1>13. Owners' = Owners
  BY <1>2 DEF Owners
<1>14. HandlersSound' /\ Callbacks' /\ Guards'
  BY <1>1, <1>2, <1>7, <1>11, <1>13, HandlersQuiet, CallbacksQuiet, GuardsQuiet
<1> QED  BY <1>1, <1>2, <1>7, <1>9, <1>10, <1>12, <1>14 DEF Kept, Logins, CrossTenantAudited

\* The row is read; another login between its statements on the same account is a race.
LEMMA LoginReadsStep ==
  ASSUME IInv, NEW i \in Threads, NEW u \in Users, NEW right \in BOOLEAN, LoginReads(i, u, right)
  PROVE  Kept
<1>1. /\ Rows /\ Referenced /\ CrossTenantAudited /\ HandlersSound /\ Logins /\ Callbacks /\ Guards
      /\ hist \in History /\ user \in [Users -> UserRow]
  BY IInvIs, TypeOKIs DEF Rows
<1> DEFINE at == IF right THEN "right" ELSE "wrong"
           r == [op |-> "login", at |-> at, u |-> u, arg |-> None, n |-> user[u].fails]
           raced == hist.raced \cup Racing("login", u)
<1>2. /\ UNCHANGED <<user, started, link, member, session, key, grant, audit>>
      /\ ops' \in 0..MaxOps /\ user[u].is /\ user[u].lock # "future"
      /\ thr' = [thr EXCEPT ![i] = r] /\ hist' = [hist EXCEPT !.raced = raced]
  BY <1>1, Constants_ DEF Rows, LoginReads, Tables_, Free, Becomes
<1>3. r \in Handler /\ r.op = "login" /\ r.u = u /\ r.n = user[u].fails /\ r.at \in {"right", "wrong"}
  BY <1>1 DEF Handler, UserRow
<1>4. raced \subseteq Users \cup Subjects \cup {"owners"} /\ hist.raced \subseteq raced
  BY <1>1, RacingIs DEF History
<1>5. u \in raced \/ \A k \in Threads : thr[k].op = "login" => thr[k].u # u
  BY RacingIs
<1> HIDE DEF r, raced
<1>6. /\ hist' \in History /\ hist'.raced = raced /\ hist'.wrong = hist.wrong /\ hist'.unwritten = hist.unwritten /\ hist'.windows = hist.windows
      /\ hist'.minted = hist.minted /\ hist'.crossed = hist.crossed
  BY <1>1, <1>2, <1>4 DEF History
<1>7. /\ thr' \in [Threads -> Handler] /\ thr'[i] = r
      /\ \A j \in Threads : j # i => thr'[j] = thr[j]
  BY <1>1, <1>2, <1>3, Moves
<1>8. TypeOK'
  BY <1>1, <1>2, <1>6, <1>7, TypeOKIsNext DEF Rows, Referenced
<1>9. HandlersSound'
  BY <1>1, <1>2, <1>3, <1>7 DEF HandlersSound
<1>10. Callbacks'
  BY <1>1, <1>2, <1>3, <1>4, <1>6, <1>7, CallbacksQuiet
<1>11. Owners' = Owners
  BY <1>2 DEF Owners
<1>12. Guards'
  BY <1>1, <1>3, <1>4, <1>6, <1>7, <1>11, GuardsQuiet
<1>13. LoginsSound'
  <2>1. ASSUME NEW j \in Threads, NEW k \in Threads, thr'[j].op = "login", thr'[k].op = "login",
               thr'[j].u = thr'[k].u, thr'[j].u \notin raced
        PROVE  thr'[j].n = user[thr'[j].u].fails /\ user[thr'[j].u].lock # "future" /\ j = k
    <3>1. CASE j # i /\ k # i
      BY <1>1, <1>4, <1>7, <2>1, <3>1 DEF Logins, LoginsSound
    <3>2. CASE j = i \/ k = i
      <4>1. thr'[j].u = u
        BY <1>3, <1>7, <2>1, <3>2
      <4>2. j = i /\ k = i
        BY <1>5, <1>7, <2>1, <4>1
      <4> QED  BY <1>2, <1>3, <1>7, <4>2
    <3> QED  BY <3>1, <3>2
  <2> QED  BY <1>1, <1>2, <1>6, <2>1 DEF Logins, LoginsSound
<1>14. LocksSound' /\ LockoutHolds'
  BY <1>1, <1>2, <1>4, <1>6 DEF Logins, LocksSound, LockoutHolds
<1> QED  BY <1>1, <1>2, <1>6, <1>8, <1>9, <1>10, <1>12, <1>13, <1>14 DEF Kept, Logins, CrossTenantAudited

\* A login stores what it found: the row of its user and the counters change, the handler ends
\* or goes on to open a session.
LEMMA LoginStores ==
  ASSUME IInv, NEW i \in Threads, thr[i].op = "login", NEW u \in Users, u = thr[i].u,
         NEW row \in UserRow, row.is, user' = [user EXCEPT ![u] = row],
         NEW r \in Handler, thr' = [thr EXCEPT ![i] = r],
         r.at # "write", r.op = None \/ (r.op = "open" /\ r.u = u),
         NEW wrong \in Nat, NEW unwritten \in Nat, NEW windows \in Nat,
         hist' = [hist EXCEPT !.wrong = [hist.wrong EXCEPT ![u] = wrong],
                              !.unwritten = [hist.unwritten EXCEPT ![u] = unwritten],
                              !.windows = [hist.windows EXCEPT ![u] = windows]],
         u \notin hist.raced => LocksFit(row, wrong, unwritten, windows),
         UNCHANGED <<started, link, member, session, key, grant, audit, ops>>
  PROVE  Kept
<1>1. /\ Rows /\ Referenced /\ CrossTenantAudited /\ HandlersSound /\ Logins /\ Callbacks /\ Guards
      /\ hist \in History /\ user \in [Users -> UserRow]
  BY IInvIs, TypeOKIs DEF Rows
<1>2. /\ hist' \in History /\ hist'.raced = hist.raced
      /\ hist'.minted = hist.minted /\ hist'.crossed = hist.crossed
      /\ hist'.wrong[u] = wrong /\ hist'.unwritten[u] = unwritten /\ hist'.windows[u] = windows
      /\ \A v \in Users : v # u => /\ hist'.wrong[v] = hist.wrong[v]
                                    /\ hist'.unwritten[v] = hist.unwritten[v]
                                    /\ hist'.windows[v] = hist.windows[v]
  BY <1>1, CountersAt
<1>3. /\ user' \in [Users -> UserRow] /\ user'[u] = row
      /\ \A v \in Users : v # u => user'[v] = user[v]
  BY <1>1
<1>4. LocksSound' /\ LockoutHolds'
  BY <1>1, <1>2, <1>3, LocksAt
<1>5. /\ thr' \in [Threads -> Handler] /\ thr'[i] = r
      /\ \A j \in Threads : j # i => thr'[j] = thr[j]
  BY <1>1, Moves
<1>6. \A v \in Users : user[v].is => user'[v].is
  BY <1>3
<1>7. TypeOK'
  BY <1>1, <1>2, <1>3, <1>5, <1>6, TypeOKIsNext DEF Rows, Referenced
<1>8. HandlersSound'
  BY <1>1, <1>3, <1>5, <1>6, Constants_ DEF HandlersSound, None
<1>9. Callbacks'
  BY <1>1, <1>2, <1>5, CallbacksQuiet, Constants_ DEF None
<1>10. Owners' = Owners
  BY DEF Owners
<1>11. Guards'
  BY <1>1, <1>2, <1>5, <1>10, GuardsQuiet
<1>12. LoginsSound'
  <2>1. \A v \in Users : ~user'[v].is => user'[v].fails = 0
    BY <1>1, <1>3 DEF Logins, LoginsSound
  <2>2. ASSUME NEW j \in Threads, NEW k \in Threads, thr'[j].op = "login", thr'[k].op = "login",
               thr'[j].u = thr'[k].u, thr'[j].u \notin hist.raced
        PROVE  thr'[j].n = user'[thr'[j].u].fails /\ user'[thr'[j].u].lock # "future" /\ j = k
    <3>1. j # i /\ k # i
      BY <1>5, <2>2 DEF None
    <3>2. thr[j].u # u
      BY <1>1, <1>5, <2>2, <3>1 DEF Logins, LoginsSound
    <3>3. /\ thr[j].n = user[thr[j].u].fails /\ user[thr[j].u].lock # "future"
          /\ j = k /\ thr[j].u \in Users
      BY <1>1, <1>5, <2>2, <3>1 DEF Logins, LoginsSound, HandlersSound
    <3> QED  BY <1>3, <1>5, <3>1, <3>2, <3>3
  <2> QED  BY <1>2, <2>1, <2>2 DEF LoginsSound
<1> QED  BY <1>1, <1>2, <1>4, <1>7, <1>8, <1>9, <1>11, <1>12 DEF Kept, Logins, CrossTenantAudited

\* A login between its statements is of a user there is; alone with the account, it holds the
\* stored count and no lock runs.
LEMMA LoginHolds ==
  ASSUME IInv, NEW i \in Threads, thr[i].op = "login"
  PROVE  /\ thr[i].u \in Users /\ user[thr[i].u] \in UserRow /\ user[thr[i].u].is /\ thr[i].n \in Nat
         /\ hist.wrong[thr[i].u] \in Nat /\ hist.unwritten[thr[i].u] \in Nat /\ hist.windows[thr[i].u] \in Nat
         /\ thr[i].u \notin hist.raced =>
              /\ thr[i].n = user[thr[i].u].fails /\ user[thr[i].u].lock # "future"
              /\ LocksFit(user[thr[i].u], hist.wrong[thr[i].u], hist.unwritten[thr[i].u], hist.windows[thr[i].u])
<1>1. Rows /\ HandlersSound /\ Logins
  BY IInvIs, TypeOKIs
<1>2. thr[i].u \in Users /\ user[thr[i].u].is
  BY <1>1 DEF HandlersSound
<1>3. /\ user[thr[i].u] \in UserRow /\ thr[i].n \in Nat /\ hist.wrong[thr[i].u] \in Nat
      /\ hist.unwritten[thr[i].u] \in Nat /\ hist.windows[thr[i].u] \in Nat
  BY <1>1, <1>2 DEF Rows, Handler, History
<1> QED  BY <1>1, <1>2, <1>3 DEF Logins, LoginsSound, LocksSound, LocksFit

\* A wrong password is counted, or the statement that counts it fails.
LEMMA WrongPasswordStep ==
  ASSUME IInv, NEW i \in Threads, NEW written \in BOOLEAN, WrongPassword(i, written)
  PROVE  Kept
<1> DEFINE u == thr[i].u
           count == thr[i].n + 1
           lock == IF Trips(count) THEN "future" ELSE user[u].lock
           stored == [user[u] EXCEPT !.fails = count, !.lock = lock]
           row == IF written THEN stored ELSE user[u]
           wrong == hist.wrong[u] + 1
           unwritten == hist.unwritten[u] + (IF written THEN 0 ELSE 1)
<1>1. /\ thr[i].op = "login" /\ thr' = [thr EXCEPT ![i] = Idle]
      /\ UNCHANGED <<started, link, member, session, key, grant, audit, ops>>
  BY DEF WrongPassword, At, Done
<1>2. /\ u \in Users /\ user[u] \in UserRow /\ user[u].is /\ thr[i].n \in Nat
      /\ hist.wrong[u] \in Nat /\ hist.unwritten[u] \in Nat /\ hist.windows[u] \in Nat
      /\ u \notin hist.raced =>
           /\ thr[i].n = user[u].fails /\ user[u].lock # "future"
           /\ LocksFit(user[u], hist.wrong[u], hist.unwritten[u], hist.windows[u])
  BY <1>1, LoginHolds
<1>3. lock \in Locks
  BY <1>2 DEF UserRow, Locks
<1>4. user \in [Users -> UserRow] /\ hist \in History
  BY IInvIs, TypeOKIs DEF Rows
<1>5. user' = [user EXCEPT ![u] = row]
  <2>1. CASE written
    BY <1>2, <1>4, <2>1 DEF WrongPassword
  <2>2. CASE ~written
    BY <1>2, <1>4, <2>2 DEF WrongPassword
  <2> QED  BY <2>1, <2>2
<1>6. hist' = [hist EXCEPT !.wrong = [hist.wrong EXCEPT ![u] = wrong],
                           !.unwritten = [hist.unwritten EXCEPT ![u] = unwritten],
                           !.windows = [hist.windows EXCEPT ![u] = hist.windows[u]]]
  BY <1>2, <1>4 DEF WrongPassword, History
<1>7. /\ wrong \in Nat /\ unwritten \in Nat /\ (written => unwritten = hist.unwritten[u])
      /\ (~written => unwritten = hist.unwritten[u] + 1)
  BY <1>2
<1>8. /\ row \in UserRow /\ row.is
      /\ written => row.fails = thr[i].n + 1 /\ row.lock = lock
      /\ ~written => row = user[u]
  <2>1. count \in Nat
    BY <1>2
  <2> HIDE DEF lock, count
  <2>2. stored \in UserRow /\ stored.is /\ stored.fails = count /\ stored.lock = lock
    BY <1>2, <1>3, <2>1 DEF UserRow
  <2> HIDE DEF stored
  <2>3. CASE written
    BY <2>2, <2>3 DEF count
  <2>4. CASE ~written
    BY <1>2, <2>4
  <2> QED  BY <2>3, <2>4
<1> HIDE DEF row, unwritten
<1>9. ASSUME u \notin hist.raced PROVE LocksFit(row, wrong, unwritten, hist.windows[u])
  <2>1. user[u].fails \in Nat /\ user[u].lock \in {"null", "past"} /\ MaxFailures \in Nat
        /\ thr[i].n = user[u].fails
    BY <1>2, <1>9, Constants_ DEF UserRow, Locks
  <2>2. LocksFit(user[u], hist.wrong[u], hist.unwritten[u], hist.windows[u])
    BY <1>2, <1>9
  <2>3. CASE ~written
    <3>1. row = user[u] /\ unwritten = hist.unwritten[u] + 1
      BY <1>7, <1>8, <2>3
    <3> QED  BY <1>2, <2>1, <2>2, <3>1 DEF LocksFit
  <2>4. CASE written
    <3>1. row.fails = user[u].fails + 1 /\ row.lock = lock /\ unwritten = hist.unwritten[u]
      BY <1>7, <1>8, <2>1, <2>4
    <3>2. row.fails + unwritten = wrong
      BY <1>2, <2>1, <2>2, <3>1 DEF LocksFit
    <3>3. CASE Trips(user[u].fails + 1)
      <4>1. row.lock = "future"
        BY <2>1, <3>1, <3>3
      <4>2. user[u].fails < MaxFailures + hist.windows[u]
        BY <1>2, <2>1, <2>2 DEF LocksFit
      <4>3. row.fails <= MaxFailures + hist.windows[u]
        BY <1>2, <2>1, <3>1, <4>2
      <4> QED  BY <3>2, <4>1, <4>3 DEF LocksFit
    <3>4. CASE ~Trips(user[u].fails + 1)
      <4>1. row.lock = user[u].lock /\ user[u].fails + 1 < MaxFailures
        BY <2>1, <3>1, <3>4 DEF Trips
      <4>2. row.fails < MaxFailures /\ row.fails < MaxFailures + hist.windows[u]
        BY <1>2, <2>1, <3>1, <4>1
      <4> QED  BY <2>1, <3>2, <4>1, <4>2 DEF LocksFit
    <3> QED  BY <3>3, <3>4
  <2> QED  BY <2>3, <2>4
<1>10. Idle \in Handler /\ Idle.at # "write" /\ Idle.op = None
  BY Constants_ DEF None
<1> HIDE DEF wrong
<1>11. u = thr[i].u /\ u \in Users /\ wrong \in Nat /\ unwritten \in Nat /\ hist.windows[u] \in Nat
  BY <1>2, <1>7
<1> HIDE DEF u
<1> QED  BY <1>1, <1>5, <1>6, <1>8, <1>9, <1>10, <1>11, LoginStores

\* A right password resets the counters; the session is a statement of its own.
LEMMA ResetCountersStep ==
  ASSUME IInv, NEW i \in Threads, ResetCounters(i)
  PROVE  Kept
<1> DEFINE u == thr[i].u
           row == [user[u] EXCEPT !.fails = 0, !.lock = "null"]
           r == [op |-> "open", at |-> "mint", u |-> u, arg |-> None, n |-> 0]
<1>1. /\ thr[i].op = "login" /\ thr' = [thr EXCEPT ![i] = r]
      /\ UNCHANGED <<started, link, member, session, key, grant, audit, ops>>
  BY DEF ResetCounters, At, Becomes
<1>2. u \in Users /\ user[u] \in UserRow /\ user[u].is
  BY <1>1, LoginHolds
<1>3. user \in [Users -> UserRow] /\ hist \in History
  BY IInvIs, TypeOKIs DEF Rows
<1>4. user' = [user EXCEPT ![u] = row]
  BY <1>2, <1>3 DEF ResetCounters
<1>5. hist' = [hist EXCEPT !.wrong = [hist.wrong EXCEPT ![u] = 0],
                           !.unwritten = [hist.unwritten EXCEPT ![u] = 0],
                           !.windows = [hist.windows EXCEPT ![u] = 0]]
  BY <1>3 DEF ResetCounters, History
<1>6. row \in UserRow /\ row.is /\ row.fails = 0 /\ row.lock = "null"
  BY <1>2 DEF UserRow, Locks
<1>7. r \in Handler /\ r.at # "write" /\ r.op = "open" /\ r.u = u
  BY <1>2 DEF Handler
<1> HIDE DEF row, r
<1>8. LocksFit(row, 0, 0, 0)
  BY <1>6, Constants_ DEF LocksFit
<1>9. u = thr[i].u /\ 0 \in Nat
  OBVIOUS
<1> HIDE DEF u
<1> QED  BY <1>1, <1>2, <1>4, <1>5, <1>6, <1>7, <1>8, <1>9, LoginStores

\* A session of the user whose password was right.
LEMMA LoginOpensStep ==
  ASSUME IInv, NEW i \in Threads, LoginOpens(i)
  PROVE  Kept
<1>1. Rows /\ Referenced /\ CrossTenantAudited /\ HandlersSound
  BY IInvIs, TypeOKIs
<1>2. /\ UNCHANGED <<user, started, link, member, key, grant, audit, ops, hist>>
      /\ thr[i].op = "open" /\ thr' = [thr EXCEPT ![i] = Idle]
      /\ session' = [session EXCEPT ![thr[i].u] = "live"]
  BY DEF LoginOpens, At, Done, CreateSession
<1>3. thr[i].u \in Users /\ user[thr[i].u].is
  BY <1>1, <1>2 DEF HandlersSound
<1>4. /\ session' \in [Users -> {None, "live", "over"}]
      /\ \A v \in Users : session'[v] # None => user[v].is
  BY <1>1, <1>2, <1>3 DEF Rows, Referenced
<1>5. Owners' = Owners
  BY <1>2 DEF Owners
<1>6. HandlersSound' /\ Logins' /\ Callbacks' /\ Guards' /\ thr' \in [Threads -> Handler]
  BY <1>2, <1>5, OtherQuiet, Constants_ DEF None
<1>7. TypeOK'
  BY <1>1, <1>2, <1>4, <1>6, TypeOKIsNext DEF Rows, Referenced
<1> QED  BY <1>1, <1>2, <1>6, <1>7 DEF Kept, CrossTenantAudited

-----------------------------------------------------------------------------
(* OIDC login.                                                               *)

\* The identity is looked up; another callback of the subject between its statements is a race.
LEMMA CallbackLooksUpStep ==
  ASSUME IInv, NEW i \in Threads, NEW s \in Subjects, NEW email \in Users, CallbackLooksUp(i, s, email)
  PROVE  Kept
<1>1. /\ Rows /\ Referenced /\ CrossTenantAudited /\ HandlersSound /\ Logins /\ Callbacks /\ Guards
      /\ hist \in History
  BY IInvIs, TypeOKIs DEF Rows
<1> DEFINE linked == link[s] # None
           r == [op |-> "oidc", at |-> IF linked THEN "mint" ELSE "email",
                 u |-> IF linked THEN link[s] ELSE email, arg |-> s, n |-> 0]
           raced == hist.raced \cup Racing("oidc", s)
<1>2. /\ UNCHANGED <<user, link, member, session, key, grant, audit>>
      /\ started' = started \ {s} /\ hist' = [hist EXCEPT !.raced = raced]
      /\ thr' = [thr EXCEPT ![i] = r]
  BY DEF CallbackLooksUp, Becomes
<1>3. ops' \in 0..MaxOps
  <2>1. ops \in 0..MaxOps
    BY <1>1 DEF Rows
  <2>2. ops < MaxOps /\ ops' = ops + 1
    BY DEF CallbackLooksUp, Free
  <2> QED  BY <2>1, <2>2, Constants_
<1>4. /\ r \in Handler /\ r.op = "oidc" /\ r.arg = s /\ r.u \in Users /\ r.at \in {"mint", "email"}
      /\ r.at = "mint" <=> link[s] # None
      /\ r.at = "mint" => r.u = link[s]
  <2>1. link[s] \in Users \cup {None}
    BY <1>1 DEF Rows
  <2> QED  BY <2>1 DEF Handler
<1>5. raced \subseteq Users \cup Subjects \cup {"owners"} /\ hist.raced \subseteq raced
  BY <1>1, RacingIs DEF History
<1>6. s \in raced \/ \A k \in Threads : thr[k].op = "oidc" => thr[k].arg # s
  BY RacingIs
<1> HIDE DEF r, raced
<1>7. /\ hist' \in History /\ hist'.raced = raced /\ hist'.wrong = hist.wrong /\ hist'.unwritten = hist.unwritten /\ hist'.windows = hist.windows
      /\ hist'.minted = hist.minted /\ hist'.crossed = hist.crossed
  BY <1>1, <1>2, <1>5 DEF History
<1>8. /\ thr' \in [Threads -> Handler] /\ thr'[i] = r
      /\ \A j \in Threads : j # i => thr'[j] = thr[j]
  BY <1>1, <1>2, <1>4, Moves
<1>9. TypeOK'
  BY <1>1, <1>2, <1>3, <1>7, <1>8, TypeOKIsNext DEF Rows, Referenced
<1>10. HandlersSound'
  <2>1. r.at = "mint" => user[r.u].is
    BY <1>1, <1>4 DEF Referenced
  <2> QED  BY <1>1, <1>2, <1>4, <1>8, <2>1 DEF HandlersSound
<1>11. Logins'
  BY <1>1, <1>2, <1>4, <1>5, <1>7, <1>8, LoginsQuiet
<1>12. Owners' = Owners
  BY <1>2 DEF Owners
<1>13. Guards'
  BY <1>1, <1>4, <1>5, <1>7, <1>8, <1>12, GuardsQuiet
<1>14. CallbacksSound'
  <2> SUFFICES ASSUME NEW j \in Threads, NEW k \in Threads, thr'[j].op = "oidc", thr'[k].op = "oidc",
                      thr'[j].arg = thr'[k].arg, thr'[j].arg \notin raced
               PROVE  j = k /\ link[thr'[j].arg] = IF thr'[j].at = "mint" THEN thr'[j].u ELSE None
    BY <1>2, <1>7 DEF CallbacksSound
  <2>1. CASE j # i /\ k # i
    BY <1>1, <1>5, <1>8, <2>1 DEF Callbacks, CallbacksSound
  <2>2. CASE j = i \/ k = i
    <3>1. thr'[j].arg = s
      BY <1>4, <1>8, <2>2
    <3>2. j = i /\ k = i
      BY <1>6, <1>8, <3>1
    <3> QED  BY <1>4, <1>8, <3>2
  <2> QED  BY <2>1, <2>2
<1>15. OneUserPerSubject'
  BY <1>1, <1>2, <1>5, <1>7 DEF Callbacks, OneUserPerSubject
<1> QED  BY <1>1, <1>2, <1>7, <1>9, <1>10, <1>11, <1>13, <1>14, <1>15
         DEF Kept, Callbacks, CrossTenantAudited

\* A callback between the lookup and the link: refused, matched to a user or creating one.
LEMMA CallbackMatchesStep ==
  ASSUME IInv, NEW i \in Threads, (\E jit \in BOOLEAN : CallbackMatchesEmail(i, jit)) \/ JitCreate(i)
  PROVE  Kept
<1>1. /\ Rows /\ Referenced /\ CrossTenantAudited /\ HandlersSound /\ Logins /\ Callbacks /\ Guards
      /\ user \in [Users -> UserRow] /\ thr[i] \in Handler
  BY IInvIs, TypeOKIs DEF Rows
<1>2. /\ UNCHANGED <<started, link, member, session, key, grant, audit, ops, hist>>
      /\ thr[i].op = "oidc" /\ thr[i].at \in {"email", "jit"}
  BY DEF CallbackMatchesEmail, JitCreate, Tables_, At
<1> DEFINE u == thr[i].u
<1>3. u \in Users /\ thr[i].arg \in Subjects /\ user[u] \in UserRow
  BY <1>1, <1>2 DEF HandlersSound
<1>4. /\ user' \in [Users -> UserRow]
      /\ \A v \in Users : /\ user'[v].fails = user[v].fails /\ user'[v].lock = user[v].lock
                          /\ user[v].is => user'[v].is
      /\ JitCreate(i) => user'[u].is
  <2>1. CASE JitCreate(i)
    <3> DEFINE row == [user[u] EXCEPT !.is = TRUE]
    <3>1. row \in UserRow /\ row.is /\ row.fails = user[u].fails /\ row.lock = user[u].lock
      BY <1>3 DEF UserRow
    <3>2. user' = [user EXCEPT ![u] = row]
      BY <2>1 DEF JitCreate
    <3> HIDE DEF row
    <3> QED  BY <1>1, <1>3, <3>1, <3>2
  <2>2. CASE ~JitCreate(i)
    BY <1>1, <2>2 DEF CallbackMatchesEmail, Tables_
  <2> QED  BY <2>1, <2>2
<1>5. PICK r \in Handler :
        /\ thr' = [thr EXCEPT ![i] = r]
        /\ \/ r = Idle
           \/ /\ r.op = "oidc" /\ r.u = u /\ r.arg = thr[i].arg /\ r.at \in {"jit", "link"}
              /\ r.at = "link" => user'[u].is
  <2> DEFINE to(x) == [thr[i] EXCEPT !.at = x]
  <2>1. \A x \in {"jit", "link"} : to(x) \in Handler /\ to(x).op = "oidc" /\ to(x).u = u
           /\ to(x).arg = thr[i].arg /\ to(x).at = x
    BY <1>1, <1>2 DEF Handler
  <2>2. CASE JitCreate(i)
    <3>1. thr' = [thr EXCEPT ![i] = to("link")]
      BY <2>2 DEF JitCreate
    <3> QED  BY <1>4, <2>1, <2>2, <3>1
  <2>3. ASSUME NEW jit \in BOOLEAN, CallbackMatchesEmail(i, jit)
        PROVE  \/ thr' = [thr EXCEPT ![i] = to("link")] /\ user[u].is
               \/ thr' = [thr EXCEPT ![i] = to("jit")]
               \/ thr' = [thr EXCEPT ![i] = Idle]
    BY <2>3 DEF CallbackMatchesEmail, Done
  <2> HIDE DEF to
  <2> QED  BY <1>3, <1>4, <2>1, <2>2, <2>3, Constants_
<1>6. /\ thr' \in [Threads -> Handler] /\ thr'[i] = r
      /\ \A j \in Threads : j # i => thr'[j] = thr[j]
  BY <1>1, <1>5, Moves
<1>7. TypeOK'
  BY <1>1, <1>2, <1>4, <1>6, TypeOKIsNext DEF Rows, Referenced
<1>8. HandlersSound'
  BY <1>1, <1>3, <1>4, <1>5, <1>6, Constants_ DEF HandlersSound, None
<1>9. Logins'
  BY <1>1, <1>2, <1>4, <1>5, <1>6, LoginsQuiet, Constants_ DEF None
<1>10. Owners' = Owners
  BY <1>2 DEF Owners
<1>11. Guards'
  BY <1>1, <1>2, <1>5, <1>6, <1>10, GuardsQuiet, Constants_ DEF None
<1>12. Callbacks'
  BY <1>1, <1>2, <1>5, <1>6, CallbacksQuiet, Constants_ DEF None
<1> QED  BY <1>1, <1>2, <1>7, <1>8, <1>9, <1>11, <1>12 DEF Kept, CrossTenantAudited

\* A link once made stays; a callback alone with its subject makes the link it finds none of.
LEMMA LinkIdentityStep ==
  ASSUME IInv, NEW i \in Threads, LinkIdentity(i)
  PROVE  Kept
<1>1. /\ Rows /\ Referenced /\ CrossTenantAudited /\ HandlersSound /\ Logins /\ Callbacks /\ Guards
      /\ thr[i] \in Handler /\ link \in [Subjects -> Users \cup {None}] /\ hist \in History
  BY IInvIs, TypeOKIs DEF Rows
<1> DEFINE u == thr[i].u
           s == thr[i].arg
           r == [thr[i] EXCEPT !.at = "mint"]
<1>2. /\ UNCHANGED <<user, started, member, session, key, grant, audit, ops, hist>>
      /\ thr[i].op = "oidc" /\ thr[i].at = "link" /\ thr' = [thr EXCEPT ![i] = r]
      /\ link' = [link EXCEPT ![s] = IF link[s] = None THEN u ELSE link[s]]
  BY DEF LinkIdentity, At
<1>3. u \in Users /\ s \in Subjects /\ user[u].is
  BY <1>1, <1>2 DEF HandlersSound
<1>4. r \in Handler /\ r.op = "oidc" /\ r.u = u /\ r.arg = s /\ r.at = "mint"
  BY <1>1, <1>2 DEF Handler
<1> HIDE DEF r
<1>5. /\ thr' \in [Threads -> Handler] /\ thr'[i] = r
      /\ \A j \in Threads : j # i => thr'[j] = thr[j]
  BY <1>1, <1>2, <1>4, Moves
<1>6. /\ link' \in [Subjects -> Users \cup {None}]
      /\ \A x \in Subjects : link[x] # None => link'[x] = link[x]
      /\ \A x \in Subjects : x # s => link'[x] = link[x]
      /\ link[s] = None => link'[s] = u
  BY <1>1, <1>2, <1>3
<1>7. Rows'
  BY <1>1, <1>2, <1>5, <1>6 DEF Rows
<1>8. Referenced'
  <2>1. \A x \in Subjects : link'[x] # None => user[link'[x]].is
    <3> TAKE x \in Subjects
    <3>1. CASE link[x] # None
      BY <1>1, <1>6, <3>1 DEF Referenced
    <3>2. CASE link[x] = None
      BY <1>3, <1>6, <3>2
    <3> QED  BY <3>1, <3>2
  <2> QED  BY <1>1, <1>2, <2>1 DEF Referenced
<1>9. TypeOK'
  BY <1>7, <1>8, TypeOKIsNext
<1>10. HandlersSound'
  BY <1>1, <1>2, <1>3, <1>4, <1>5 DEF HandlersSound
<1>11. Logins'
  BY <1>1, <1>2, <1>4, <1>5, LoginsQuiet
<1>12. Owners' = Owners
  BY <1>2 DEF Owners
<1>13. Guards'
  BY <1>1, <1>2, <1>4, <1>5, <1>12, GuardsQuiet
<1>14. s \notin hist.raced => link[s] = None
  BY <1>1, <1>2 DEF Callbacks, CallbacksSound
<1>15. CallbacksSound'
  <2> SUFFICES ASSUME NEW j \in Threads, NEW k \in Threads, thr'[j].op = "oidc", thr'[k].op = "oidc",
                      thr'[j].arg = thr'[k].arg, thr'[j].arg \notin hist.raced
               PROVE  j = k /\ link'[thr'[j].arg] = IF thr'[j].at = "mint" THEN thr'[j].u ELSE None
    BY <1>2 DEF CallbacksSound
  <2>1. thr[j].op = "oidc" /\ thr[k].op = "oidc" /\ thr[j].arg = thr[k].arg /\ thr[j].arg = thr'[j].arg
    BY <1>2, <1>4, <1>5
  <2>2. j = k /\ link[thr[j].arg] = IF thr[j].at = "mint" THEN thr[j].u ELSE None
    BY <1>1, <2>1 DEF Callbacks, CallbacksSound
  <2>3. CASE j = i
    BY <1>4, <1>5, <1>6, <1>14, <2>1, <2>2, <2>3
  <2>4. CASE j # i
    <3>1. thr[j].arg # s
      BY <1>1, <1>2, <2>1, <2>4 DEF Callbacks, CallbacksSound
    <3>2. thr[j].arg \in Subjects
      BY <1>1, <2>1 DEF HandlersSound
    <3> QED  BY <1>5, <1>6, <2>1, <2>2, <2>4, <3>1, <3>2
  <2> QED  BY <2>3, <2>4
<1>16. OneUserPerSubject'
  <2> SUFFICES ASSUME NEW x \in Subjects, x \notin hist.raced
               PROVE  hist.minted[x] \subseteq {link'[x]}
    BY <1>2 DEF OneUserPerSubject
  <2>1. hist.minted[x] \subseteq {link[x]} /\ hist.minted[x] \subseteq Users
    BY <1>1 DEF Callbacks, OneUserPerSubject, History
  <2> QED  BY <1>6, <2>1, Constants_
<1> QED  BY <1>1, <1>2, <1>9, <1>10, <1>11, <1>13, <1>15, <1>16 DEF Kept, Callbacks, CrossTenantAudited

\* A session of the user the callback resolved.
LEMMA MintSessionStep ==
  ASSUME IInv, NEW i \in Threads, MintSession(i)
  PROVE  Kept
<1>1. /\ Rows /\ Referenced /\ CrossTenantAudited /\ HandlersSound /\ Logins /\ Callbacks /\ Guards
      /\ hist \in History
  BY IInvIs, TypeOKIs DEF Rows
<1> DEFINE u == thr[i].u
           s == thr[i].arg
           minted == [hist.minted EXCEPT ![s] = @ \cup {u}]
<1>2. /\ UNCHANGED <<user, started, link, member, key, grant, audit, ops>>
      /\ thr[i].op = "oidc" /\ thr[i].at = "mint" /\ thr' = [thr EXCEPT ![i] = Idle]
      /\ session' = [session EXCEPT ![u] = "live"] /\ hist' = [hist EXCEPT !.minted = minted]
  BY <1>1 DEF MintSession, At, Done, CreateSession, History
<1>3. u \in Users /\ s \in Subjects /\ user[u].is
  BY <1>1, <1>2 DEF HandlersSound
<1>4. /\ minted \in [Subjects -> SUBSET Users] /\ minted[s] = hist.minted[s] \cup {u}
      /\ \A x \in Subjects : x # s => minted[x] = hist.minted[x]
  BY <1>1, <1>3 DEF History
<1> HIDE DEF minted
<1>5. /\ hist' \in History /\ hist'.minted = minted /\ hist'.raced = hist.raced
      /\ hist'.wrong = hist.wrong /\ hist'.unwritten = hist.unwritten /\ hist'.windows = hist.windows /\ hist'.crossed = hist.crossed
  BY <1>1, <1>2, <1>4 DEF History
<1>6. /\ thr' \in [Threads -> Handler] /\ thr'[i] = Idle
      /\ \A j \in Threads : j # i => thr'[j] = thr[j]
  BY <1>1, <1>2, Moves, Constants_
<1>7. /\ session' \in [Users -> {None, "live", "over"}]
      /\ \A v \in Users : session'[v] # None => user[v].is
  BY <1>1, <1>2, <1>3 DEF Rows, Referenced
<1>8. TypeOK'
  BY <1>1, <1>2, <1>5, <1>6, <1>7, TypeOKIsNext DEF Rows, Referenced
<1>9. HandlersSound'
  BY <1>1, <1>2, <1>6, HandlersQuiet, Constants_ DEF None
<1>10. Logins'
  BY <1>1, <1>2, <1>5, <1>6, LoginsQuiet, Constants_ DEF None
<1>11. Owners' = Owners
  BY <1>2 DEF Owners
<1>12. Guards'
  BY <1>1, <1>5, <1>6, <1>11, GuardsQuiet, Constants_ DEF None
<1>13. CallbacksSound'
  BY <1>1, <1>2, <1>5, <1>6, Constants_ DEF Callbacks, CallbacksSound, None
<1>14. OneUserPerSubject'
  <2>1. s \notin hist.raced => link[s] = u
    BY <1>1, <1>2 DEF Callbacks, CallbacksSound
  <2> QED  BY <1>1, <1>2, <1>3, <1>4, <1>5, <2>1 DEF Callbacks, OneUserPerSubject
<1> QED  BY <1>1, <1>2, <1>5, <1>8, <1>9, <1>10, <1>12, <1>13, <1>14 DEF Kept, Callbacks, CrossTenantAudited

-----------------------------------------------------------------------------
(* Owners.                                                                   *)

\* A guarded statement takes its snapshot of the owners; another one under way is a race.
LEMMA GuardedStep ==
  ASSUME IInv, NEW i \in Threads, NEW u \in Users, NEW to \in Roles \cup {None},
         thr[i].op \in {"setrole", "remove"}, Guarded(i, u, to)
  PROVE  Kept
<1>1. /\ Rows /\ Referenced /\ CrossTenantAudited /\ HandlersSound /\ Logins /\ Callbacks /\ Guards
      /\ hist \in History /\ thr[i] \in Handler
  BY IInvIs, TypeOKIs DEF Rows
<1> DEFINE count == Cardinality(Owners)
           r == [thr[i] EXCEPT !.at = "write", !.u = u, !.arg = to, !.n = count]
           racing == {"owners" : j \in {k \in Threads : thr[k].at = "write"}}
           raced == hist.raced \cup racing
<1>2. /\ UNCHANGED <<user, started, link, member, session, key, grant, audit, ops>>
      /\ thr' = [thr EXCEPT ![i] = r] /\ hist' = [hist EXCEPT !.raced = raced]
  BY DEF Guarded, Tables_
<1>3. count \in Nat
  BY OwnersFinite DEF Owners
<1>4. r \in Handler /\ r.op = thr[i].op /\ r.at = "write" /\ r.u = u /\ r.arg = to /\ r.n = count
  BY <1>1, <1>3 DEF Handler
<1>5. raced \subseteq Users \cup Subjects \cup {"owners"} /\ hist.raced \subseteq raced
  BY <1>1 DEF History
<1>6. "owners" \in raced \/ \A k \in Threads : thr[k].at # "write"
  OBVIOUS
<1> HIDE DEF count, r, raced
<1>7. /\ hist' \in History /\ hist'.raced = raced /\ hist'.wrong = hist.wrong /\ hist'.unwritten = hist.unwritten /\ hist'.windows = hist.windows
      /\ hist'.minted = hist.minted /\ hist'.crossed = hist.crossed
  BY <1>1, <1>2, <1>5 DEF History
<1>8. /\ thr' \in [Threads -> Handler] /\ thr'[i] = r
      /\ \A j \in Threads : j # i => thr'[j] = thr[j]
  BY <1>1, <1>2, <1>4, Moves
<1>9. TypeOK'
  BY <1>1, <1>2, <1>7, <1>8, TypeOKIsNext DEF Rows, Referenced
<1>10. HandlersSound'
  BY <1>1, <1>2, <1>4, <1>8 DEF HandlersSound
<1>11. Logins'
  BY <1>1, <1>2, <1>4, <1>5, <1>7, <1>8, LoginsQuiet
<1>12. Callbacks'
  BY <1>1, <1>2, <1>4, <1>5, <1>7, <1>8, CallbacksQuiet
<1>13. Owners' = Owners
  BY <1>2 DEF Owners
<1>14. GuardSound'
  <2> SUFFICES ASSUME "owners" \notin raced, NEW j \in Threads, NEW k \in Threads,
                      thr'[j].at = "write", thr'[k].at = "write"
               PROVE  j = k /\ thr'[j].n <= Cardinality(Owners)
    BY <1>7, <1>13 DEF GuardSound
  <2>1. j = i /\ k = i
    BY <1>6, <1>8
  <2> QED  BY <1>3, <1>4, <1>8, <2>1 DEF count
<1>15. OwnerRemains'
  BY <1>1, <1>5, <1>7, <1>13 DEF Guards, OwnerRemains
<1> QED  BY <1>1, <1>2, <1>7, <1>9, <1>10, <1>11, <1>12, <1>14, <1>15 DEF Kept, Guards, CrossTenantAudited

\* It counted at least two owners, and owners only joined since, or it leaves the owner alone.
LEMMA GuardedWritesStep ==
  ASSUME IInv, NEW i \in Threads, GuardedWrites(i)
  PROVE  Kept
<1>1. /\ Rows /\ Referenced /\ CrossTenantAudited /\ HandlersSound /\ Logins /\ Callbacks /\ Guards
      /\ thr[i] \in Handler /\ member \in [Users -> Roles \cup {None}]
  BY IInvIs, TypeOKIs DEF Rows
<1> DEFINE u == thr[i].u
           role == IF member[u] = None \/ LastOwner(i) THEN member[u] ELSE thr[i].arg
<1>2. /\ UNCHANGED <<user, started, link, session, key, grant, audit, ops, hist>>
      /\ thr[i].op \in {"setrole", "remove"} /\ thr[i].at = "write" /\ thr' = [thr EXCEPT ![i] = Idle]
      /\ member' = [member EXCEPT ![u] = role]
  BY DEF GuardedWrites, Done
<1>3. u \in Users /\ thr[i].arg \in Roles \cup {None}
  BY <1>1, <1>2 DEF HandlersSound
<1>4. /\ role \in Roles \cup {None} /\ (role # None => member[u] # None)
      /\ role = member[u] \/ (~LastOwner(i) /\ role = thr[i].arg)
  BY <1>1, <1>3
<1> HIDE DEF role
<1>5. /\ member' \in [Users -> Roles \cup {None}] /\ member'[u] = role
      /\ \A v \in Users : v # u => member'[v] = member[v]
  BY <1>1, <1>2, <1>3, <1>4
<1>6. /\ thr' \in [Threads -> Handler] /\ thr'[i] = Idle
      /\ \A j \in Threads : j # i => thr'[j] = thr[j]
  BY <1>1, <1>2, Moves, Constants_
<1>7. Referenced'
  BY <1>1, <1>2, <1>3, <1>4, <1>5 DEF Referenced
<1>8. TypeOK'
  BY <1>1, <1>2, <1>5, <1>6, <1>7, TypeOKIsNext DEF Rows
<1>9. HandlersSound'
  BY <1>1, <1>2, <1>6, HandlersQuiet, Constants_ DEF None
<1>10. Logins'
  BY <1>1, <1>2, <1>6, LoginsQuiet, Constants_ DEF None
<1>11. Callbacks'
  BY <1>1, <1>2, <1>6, CallbacksQuiet, Constants_ DEF None
<1>12. CASE Owners \subseteq Owners'
  <2>1. Guards'
    BY <1>1, <1>2, <1>6, <1>12, GuardsQuiet, Constants_ DEF None
  <2> QED  BY <1>1, <1>2, <1>8, <1>9, <1>10, <1>11, <2>1 DEF Kept, CrossTenantAudited
<1>13. CASE ~(Owners \subseteq Owners')
  <2>1. member[u] = "owner" /\ role # "owner"
    <3>1. PICK v \in Owners : v \notin Owners'
      BY <1>13
    <3>2. v = u
      BY <1>5, <3>1 DEF Owners
    <3> QED  BY <1>5, <3>1, <3>2 DEF Owners
  <2>2. thr[i].arg # "owner" /\ ~LastOwner(i)
    BY <1>4, <2>1
  <2>3. ~(thr[i].n <= 1) /\ thr[i].n \in Nat
    BY <1>1, <2>1, <2>2 DEF LastOwner, Handler
  <2>4. u \in Owners /\ IsFiniteSet(Owners) /\ Cardinality(Owners) \in Nat
    BY <1>3, <2>1, OwnersFinite DEF Owners
  <2>5. GuardSound'
    <3>1. ASSUME "owners" \notin hist.raced, NEW j \in Threads, thr'[j].at = "write" PROVE FALSE
      <4>1. j # i /\ thr[j].at = "write"
        BY <1>6, <3>1, Constants_ DEF None
      <4> QED  BY <1>1, <1>2, <3>1, <4>1 DEF Guards, GuardSound
    <3> QED  BY <1>2, <3>1 DEF GuardSound
  <2>6. OwnerRemains'
    <3> SUFFICES ASSUME "owners" \notin hist.raced PROVE Owners' # {}
      BY <1>2 DEF OwnerRemains
    <3>1. thr[i].n <= Cardinality(Owners)
      BY <1>1, <1>2 DEF Guards, GuardSound
    <3>2. Cardinality(Owners \ {u}) = Cardinality(Owners) - 1
      BY <2>4, FS_RemoveElement
    <3>3. Cardinality(Owners \ {u}) # 0
      BY <2>3, <2>4, <3>1, <3>2
    <3>4. Owners \ {u} # {}
      BY <3>3, FS_EmptySet
    <3> QED  BY <1>5, <3>4 DEF Owners
  <2> QED  BY <1>1, <1>2, <1>8, <1>9, <1>10, <1>11, <2>5, <2>6 DEF Kept, Guards, CrossTenantAudited
<1> QED  BY <1>12, <1>13

-----------------------------------------------------------------------------
(* The specification.                                                        *)

LEMMA InitSound == Init => IInv
<1> SUFFICES ASSUME Init PROVE IInv
  OBVIOUS
<1>1. PICK pw \in Users, plat \in Users :
        /\ user = [u \in Users |-> IF u \in {pw, plat} THEN [NoUser EXCEPT !.is = TRUE, !.pw = (u = pw),
                                                               !.plat = (u = plat /\ u # pw)] ELSE NoUser]
        /\ member \in [Users -> {"owner", None}]
        /\ \A u \in Users : member[u] # None => user[u].is
        /\ \E u \in Users : member[u] = "owner"
  BY DEF Init
<1>2. /\ started = {} /\ link = [s \in Subjects |-> None]
      /\ session = [u \in Users |-> IF user[u].is THEN "live" ELSE None]
      /\ key = None /\ grant = None /\ audit = [access |-> 0, start |-> 0, end |-> 0]
      /\ thr = [i \in Threads |-> Idle] /\ ops = 0
      /\ hist = [wrong |-> [u \in Users |-> 0], unwritten |-> [u \in Users |-> 0],
                 windows |-> [u \in Users |-> 0], raced |-> {}, crossed |-> 0,
                 minted |-> [s \in Subjects |-> {}]]
  BY DEF Init
<1>3. \A u \in Users : user[u] \in UserRow /\ user[u].fails = 0 /\ user[u].lock = "null"
  BY <1>1 DEF NoUser, UserRow, Locks
<1>4. user \in [Users -> UserRow]
  <2>1. \E f \in [Users -> UserRow] : f = user
    <3>1. user = [u \in Users |-> user[u]]
      BY <1>1
    <3> QED  BY <1>3, <3>1
  <2> QED  BY <2>1
<1>5. hist \in History /\ audit \in Audit /\ hist.crossed = 0 /\ audit.access = 0
      /\ hist.wrong = [u \in Users |-> 0] /\ hist.unwritten = [u \in Users |-> 0]
      /\ hist.windows = [u \in Users |-> 0] /\ hist.minted = [s \in Subjects |-> {}]
  BY <1>2 DEF History, Audit
<1>6. ops \in 0..MaxOps
  BY <1>2, Constants_
<1>7. /\ link \in [Subjects -> Users \cup {None}] /\ member \in [Users -> Roles \cup {None}]
      /\ session \in [Users -> {None, "live", "over"}] /\ thr \in [Threads -> Handler]
      /\ started \subseteq Subjects /\ key \in {None, "live", "over"} /\ grant \in {None, "active", "ended"}
  BY <1>1, <1>2, Constants_ DEF Roles
<1>8. TypeOK
  BY <1>1, <1>2, <1>4, <1>5, <1>6, <1>7, TypeOKIs DEF Rows, Referenced
<1>9. HandlersSound /\ LoginsSound /\ CallbacksSound /\ GuardSound
  BY <1>2, <1>3, Constants_ DEF HandlersSound, LoginsSound, CallbacksSound, GuardSound, None
<1>10. OwnerRemains
  BY <1>1 DEF OwnerRemains, Owners
<1>11. OneUserPerSubject
  BY <1>5 DEF OneUserPerSubject
<1>12. LocksSound /\ LockoutHolds
  BY <1>3, <1>5, Constants_ DEF LocksSound, LockoutHolds
<1>13. CrossTenantAudited
  BY <1>5 DEF CrossTenantAudited
<1> QED  BY <1>8, <1>9, <1>10, <1>11, <1>12, <1>13 DEF IInv

LEMMA NextSound ==
  ASSUME IInv, [Next]_vars
  PROVE  IInv'
<1>1. Kept => IInv'
  BY DEF Kept, IInv, Logins, Callbacks, Guards
<1>2. ASSUME NEW i \in Threads, Accounts(i) PROVE Kept
  BY <1>2, AccountSteps, LoginReadsStep, WrongPasswordStep, ResetCountersStep, LoginOpensStep,
     CallbackLooksUpStep, CallbackMatchesStep, LinkIdentityStep, MintSessionStep, RequestSteps DEF Accounts
<1>3. ASSUME NEW i \in Threads, Gates(i) PROVE Kept
  BY <1>3, RequestSteps, GateAuditsStep DEF Gates
<1>4. ASSUME NEW i \in Threads, Acts(i) PROVE Kept
  <2>1. ASSUME NEW u \in Users, Remove(i, u) PROVE Kept
    BY <2>1, GuardedStep DEF Remove, At
  <2>2. ASSUME NEW u \in Users, NEW role \in Roles, SetRole(i, u, role) PROVE Kept
    BY <2>2, GuardedStep DEF SetRole, At
  <2> QED  BY <1>4, <2>1, <2>2, ActSteps, GuardedWritesStep DEF Acts
<1>5. CASE \/ \E u \in Users : LockLapses(u) \/ Logout(u) \/ SessionIdles(u)
           \/ \E s \in Subjects : StartOIDC(s) \/ CallbackRefused(s)
           \/ KeyExpires \/ UNCHANGED vars
  BY <1>1, <1>5, LockLapsesStep, SurroundingSteps
<1> QED  BY <1>1, <1>2, <1>3, <1>4, <1>5 DEF Next

\* The strengthened invariant holds in every behaviour of the handlers.
THEOREM Invariance == Spec => []IInv
<1>1. Init => IInv
  BY InitSound
<1>2. IInv /\ [Next]_vars => IInv'
  BY NextSound
<1> QED  BY <1>1, <1>2, PTL DEF Spec

\* The tables and the handlers have their types, and no membership, session or identity is of a
\* user there is not (the foreign keys of the control plane's tables).
THEOREM TypeCorrect == Spec => []TypeOK
<1>1. IInv => TypeOK
  BY DEF IInv
<1> QED  BY <1>1, Invariance, PTL

\* A tenant keeps an owner unless two guarded statements overlap (membership.go SetMemberRole,
\* RemoveMember).
THEOREM OwnerRemainsAlways == Spec => []OwnerRemains
<1>1. IInv => OwnerRemains
  BY DEF IInv
<1> QED  BY <1>1, Invariance, PTL

\* A subject signs in as one user, whatever emails the provider gives it later, unless its
\* callbacks overlap (oidc.go resolveUser, jitCreate, linkIdentity).
THEOREM OneUserPerSubjectAlways == Spec => []OneUserPerSubject
<1>1. IInv => OneUserPerSubject
  BY DEF IInv
<1> QED  BY <1>1, Invariance, PTL

\* Unless attempts on the account overlap, no more than MaxFailures passwords are guessed wrong
\* between two resets, but for one per lock window waited for and those whose count was not
\* written (service.go Login, recordFailure; lockout.go NextFailure).
THEOREM LockoutHoldsAlways == Spec => []LockoutHolds
<1>1. IInv => LockoutHolds
  BY DEF IInv
<1> QED  BY <1>1, Invariance, PTL

\* No platform admin acts outside its tenants without an audit row (tenant_access.go
\* RequireTenantAccess).
THEOREM CrossTenantAuditedAlways == Spec => []CrossTenantAudited
<1>1. IInv => CrossTenantAudited
  BY DEF IInv
<1> QED  BY <1>1, Invariance, PTL
=============================================================================
