SPECIFICATION Spec
CONSTANTS
  Paths = {p1, p2}
  Passwords = {w1, w2}
  NoPath = NoPath
  Nobody = Nobody
  Kinds = {login}
  Patience = 2
INVARIANTS TypeOK OpenVaultIsGuarded PagesShowTheVault WholeVaultIsListed
PROPERTY IdleVaultIsLocked
