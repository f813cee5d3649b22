SPECIFICATION ProjectsSpec
CONSTANTS
  Nothing = Nothing
  Requests = {r1}
  Kinds = {"edit", "deploy", "destroy"}
  MaxVersions = 2
  MaxRequests = 0
  Others = {r1, r2}
  OthersVersions = 2
  OthersRequests = 0
  Codenames = {"view_asset", "add_submissions", "view_submissions", "change_submissions", "partial_submissions"}
  Users = {"olga", "u", "anonymous"}
  Anonymous = "anonymous"
  Assets = {"f"}
  a = "f"
  MaxHash = 1
  MaxChanges = 3
  People = {"olga", "bob", "carl", "anonymous"}
  AssetCodenames = {"view_asset", "discover_asset", "manage_asset"}
  NoParent = NoParent
  Early = {"bob"}
  Readers = {"bob", "anonymous"}
  Unset = Unset
  MaxInterferences = 0
  MaxRows = 1
  MaxPosts = 1
  Limits = {1}
  MaxLimit = 2
  MaxRemovals = 1
INVARIANT PurgedHaveNothing
CHECK_DEADLOCK FALSE
