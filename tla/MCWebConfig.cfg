SPECIFICATION MCSpec
CONSTANTS
  h1 = h1
  h2 = h2
  p1 = p1
  p2 = p2
  u1 = u1
  u2 = u2
  home = home
  lab = lab
  Home = Home
  HOME = HOME
  Lab = Lab
  Hosts = {h1, h2}
  Profiles = {p1, p2}
  Urls = {u1, u2}
  Ids <- MCIds
  Names <- MCNames
  Slug <- MCSlug
  HostRows <- MCHostRows
  ProfileRows <- MCProfileRows
  Blank = Blank
  Redacted = Redacted
  NoServer = NoServer
  New = New
  NoFile = NoFile
  MaxTyped = 1
  MaxSaves = 2
INVARIANTS TypeOK
PROPERTIES SecretsStayHome TypedOrRestored LostIsReported EditsKeepSecrets
