SPECIFICATION Spec
CONSTANTS
  Requests = {a, b, c}
  Roles <- MCRoles
  Grants <- MCGrants
  Ttl = 2
  None = None
INVARIANT StaleHasReason
PROPERTY RolesTakeEffect
