SPECIFICATION AssessmentSpec
CONSTANTS
  Base = 2
  Width = 2
  Assigned <- MCAssigned
  Queries <- MCQueries
  Institutions = {1, 2}
  LinkForms <- MCLinkForms
  RangeForms <- MCRangeForms
  Relations <- MCRelations
  Regions <- MCRegions
  Matches <- MCNames
  Searches <- MCSearches
  MaxLinks = 2
  MaxRanges = 2
  PageSize = 2
  NameWords <- MCNameWords
  HeaderWords <- MCHeaderWords
  PageWidths = {20, 30, 32, 36, 60}
  CellPadding = 2
  RowCaps = {1, 3}
  PreviewRows = 1
  SearchCap = 2
  PortfolioCap = 2
  SampleRows = 1
  Defects <- MCDefects
  Expected = 2
INVARIANT ConflictShown
INVARIANT RootNeverOverrides
INVARIANT PresentOnly
INVARIANT PortfolioAgrees
INVARIANT ChartCoversTable
INVARIANT NothingCutSilently
INVARIANT ColumnsFit
INVARIANT FiguresAgree
