SPECIFICATION ProcessSpec
CONSTANTS
  Codenames = {"view_asset", "change_asset", "view_submissions", "partial_submissions", "change_submissions"}
  RequestCodenames = {"view_asset", "add_submissions", "view_submissions", "partial_submissions", "change_submissions"}
  Users = {"olga", "bob"}
  Anonymous = "anon"
  NoParent = NoParent
  PartialChoices = {{"change_submissions"}}
  Requests = {r1, r2}
  Editors = {r1, r2}
  Subs = {x1, x2}
  NoShot = NoShot
  MaxVersions = 2
  MaxShots = 2
  MaxEdits = 1
  Rows = {r1, r2}
  Values = {"x", "y"}
  Nulls = {0, 1}
  BatchSize = 1
  Absent = Absent
  MaxWrites = 1
  MaxStarts = 2
SYMMETRY Interchangeable
INVARIANTS RowsStayRight NothingIsLost
PROPERTIES AtomicCalls BulkIsExact EditsReplaceWhatTheyRead
CHECK_DEADLOCK FALSE
