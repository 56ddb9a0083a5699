CONSTANTS
  g1 = g1  g2 = g2  g3 = g3  a = a  b = b  n1 = n1  n2 = n2
  idp = idp  idp2 = idp2  sk = sk  c1 = c1  c2 = c2
  Gateway = {g1, g2, g3}  Team = {a, b}  Name = {n1, n2}
  Idp = {idp, idp2}  StaticKey = {sk}  Caller = {c1, c2}
  NoTeam = NoTeam  NoName = NoName  NoIdp = NoIdp  NoKey = NoKey
  Unconfigured = Unconfigured  None = None  Malformed = Malformed
  t1 = t1  t2 = t2
  Thread = {t1, t2}
  Request <- FaultRequests
  Installed <- OneInstalled
  Edits <- NoEdits
  Faults = {"refresh", "exchange", "unauthorized", "team_permission", "mint_lost", "delete", "discover", "unsupported"}
  Ageing = {"session", "credential", "key"}
  MaxRequests = 2
  MaxAged = 2
  MaxVersion = 1
SPECIFICATION Spec
SYMMETRY ThreadSymmetry
INVARIANTS
  BearerIsValid
  KeyHasCredential
