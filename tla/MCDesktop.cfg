SPECIFICATION DesktopSpec
CONSTANTS
  b1 = b1
  b2 = b2
  b3 = b3
  n1 = n1
  n2 = n2
  i1 = i1
  i2 = i2
  f1 = f1
  None = None
  Bins = {b1, b2, b3}
  Known = {b1, b2}
  Invalid = {b3}
  Names = {n1, n2}
  MatchesOf <- MCMatchesOf
  Institutions = {i1, i2}
  Filters = {f1}
  Offered <- MCOffered
  Browsers = {"bank_lookup", "institutions"}
  Texts = {t1, t2}
  l1 = l1
  Labels = {l1}
  LabelOf <- MCLabelOf
  JobKinds = {"verify", "reindex", "vacuum", "backup", "restore", "rebuild", "rollback", "check", "install"}
  Retention = 2
  MaxStarts = 2
  Visits <- MCVisits
  Parts = {"options", "rows"}
  Threads = 2
  Keep = 2
  HardCap = 500
  MaxActs <- MCMaxActs
  MaxContents = 3
  ReportTypes <- MCReportTypes
  Scoped = "search"
  FilterValues <- MCFilterValues
  TemplateNames = {"t1", "t2"}
  MaxTemplates = 2
  Providers = {"github", "local"}
INVARIANT LoadedIsSaved
INVARIANT ShownTogether
INVARIANT OneInstall
INVARIANT OpenIsInstalled
INVARIANT InstalledWhole
PROPERTY Settles
PROPERTY ClosingStartsNothing
PROPERTY ComesBack
PROPERTY BusyEnds
PROPERTY SnapshotSurvives
CHECK_DEADLOCK FALSE
