SPECIFICATION Spec
CONSTANTS
  t1 = t1  t2 = t2  g = g  ken = ken  guest = guest  p1 = p1  p2 = p2
  None = None
  NoSession = NoSession
  Tokens = {t1, g}
  Users = {ken, guest}
  Routes = {a}
  Slots = {p1, p2}
  Classes = {"login", "api"}
  Hosts = {}
  Media = {}
  AllowedHosts = {}
  AllowedConfigs <- KenThenGuest
  Owner <- KenOrGuest
  StateFile = TRUE
  MaxSecrets = 1
  MaxRevokes = 1
  LogoutsFail = TRUE
  Disconnects = FALSE
INVARIANT OnlyAllowedUsers
