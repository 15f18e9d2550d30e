SPECIFICATION Spec
CONSTANTS
  t1 = t1  t2 = t2  g = g  ken = ken  guest = guest  p1 = p1  p2 = p2
  None = None
  NoSession = NoSession
  Tokens = {t1, t2}
  Users = {ken, guest}
  Routes = {a, b}
  Slots = {p1, p2}
  Classes = {"login", "api", "logout"}
  Hosts = {}
  Media = {}
  AllowedHosts = {}
  AllowedConfigs <- OnlyKen
  Owner <- KenOrGuest
  StateFile = TRUE
  MaxSecrets = 2
  MaxRevokes = 1
  LogoutsFail = TRUE
  Disconnects = TRUE
SYMMETRY SlotSymmetry
INVARIANTS GateSound AckedDurable LogoutFinal
PROPERTIES SecretStable ImplementsMap
