\* User ids, codes and versions run out, and a suspended owner can do nothing.
CONSTANTS
  u1 = u1 u2 = u2 u3 = u3 p1 = p1 p2 = p2 p3 = p3
  a1 = a1 a2 = a2 c1 = c1 c2 = c2
  role = role manage = manage edit = edit g1 = g1
  Users = {u1, u2, u3}
  Procs = {p1, p2, p3}
  Founder = u1
  Logins = {a1, a2}
  MaxAttempts = 2
  MaxCodes = 2
  MaxEnrolled = 2
  MaxLost = 2
  Calls = {c1, c2}
  MaxVersions = 2
  Members = {u1, u2, u3}
  FirstOwner = u1
  Roles = {Admin, role}
  Admin = Admin
  Permissions = {manage, edit}
  ManageRoles = manage
  ManagePermissions = manage
  CreateUsers = manage
  EditRoles = edit
  Grants = {g1}
  MaxWrites = 3
SPECIFICATION AccountSpec
SYMMETRY AccountSymmetry
INVARIANTS AccountTypeOK OneOwner SpentOnce GuessesBounded EnabledIsVerified
           RunsOnFreshRow PermissionsHaveSource
PROPERTIES OnlyOwnerHandsOver OffByPasswordOnly AdminFromOwner
CHECK_DEADLOCK FALSE
