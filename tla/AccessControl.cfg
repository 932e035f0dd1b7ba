SPECIFICATION Spec
CONSTANTS
  Users = {u1, u2, u3}
  Subjects = {s1}
  Threads = {t1, t2}
  MaxFailures = 2
  MaxOps = 3
SYMMETRY Symmetry
INVARIANTS OwnerRemains OneUserPerSubject LockoutHolds CrossTenantAudited
CHECK_DEADLOCK FALSE
