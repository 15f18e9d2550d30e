SPECIFICATION FairSpec
CONSTANTS
  t1 = t1  t2 = t2  g = g  ken = ken  guest = guest  p1 = p1  p2 = p2
  None = None
  NoSession = NoSession
  Tokens = {t1, g}
  Users = {ken, guest}
  Routes = {a, b}
  Slots = {p1, p2}
  Classes = {"login", "baseLogin", "public", "logout"}
  Hosts = {}
  Media = {}
  AllowedHosts = {}
  AllowedConfigs <- OnlyKen
  Owner <- KenOrGuest
  StateFile = TRUE
  MaxSecrets = 1
  MaxRevokes = 2
  LogoutsFail = TRUE
  Disconnects = FALSE
INVARIANTS TypeOK StrangersOut
PROPERTY LogoutTakesEffect
