SPECIFICATION Spec
CONSTANTS
  t1 = t1  t2 = t2  g = g  ken = ken  guest = guest  p1 = p1  p2 = p2
  None = None
  NoSession = NoSession
  Tokens = {t1}
  Users = {ken, guest}
  Routes = {a}
  Slots = {p1, p2}
  Classes = {"login", "playback", "resource"}
  Hosts = {h}
  Media <- OneUrl
  AllowedHosts = {}
  AllowedConfigs <- OnlyKen
  Owner <- KenOrGuest
  StateFile = TRUE
  MaxSecrets = 1
  MaxRevokes = 1
  LogoutsFail = TRUE
  Disconnects = FALSE
INVARIANT SignedUrlsSurvive
