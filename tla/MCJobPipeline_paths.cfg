SPECIFICATION Spec
CONSTANTS
  app1 = app1
  app2 = app2
  app3 = app3
  owner = owner
  repo = repo
  other = other
  host = host
  port = port
  apps = apps
  dir = dir
  sub = sub
  file = file
  def1 = def1
  def2 = def2
  prod = prod
  test = test
  Names <- MCNames
  NoName = NoName
  Star = Star
  StarDef = StarDef
  Stars <- MCStars
  AppDirs = {apps}
  Digits = {port}
  AppList <- MCAppList
  Specs <- SlashedSpecs
  Pushes <- OnePush
  Attempts = 3
  MaxParts = 3
CHECK_DEADLOCK FALSE
INVARIANTS
  PathPrefixMatches
