CONSTANTS
  Hosts = {h1, h2}
  EolHosts = {h1}
  Software <- Installed
  Services = {"redis"}
  VulnsOf <- Known
  OsOf <- Os
  Unreadable <- Silent
  KevFeed = {"c3"}
  Epss <- Scored
  Listening <- OpenPorts
  Policies = {cis}
  Checks <- Reports
  Accounts <- AccountSets
  Modules = {"syscheck"}
  FirstScan <- Serving
  ImageSets = {{i1}}
  ImageCves <- ImageCveSets
  Unread = Unread
  Limit = 1
  StaleHours = 24
  Waits = {25}
  MaxTime = 25
  MaxScans = 2
SPECIFICATION FindSpec
CHECK_DEADLOCK FALSE
INVARIANTS FindingsTypeOK FreshIsRecent UrgentIsListed WiderIsRiskier ViewsAgree
