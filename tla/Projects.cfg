SPECIFICATION ProjectsSpec
CONSTANTS
  Nothing = Nothing
  Requests = {r1}
  Kinds = {"edit", "deploy", "destroy"}
  MaxVersions = 4
  MaxRequests = 6
  Others = {r1, r2}
  OthersVersions = 3
  OthersRequests = 4
  Codenames = {"view_asset", "add_submissions", "view_submissions", "change_submissions", "partial_submissions"}
  Users = {"olga", "u", "anonymous"}
  Anonymous = "anonymous"
  Assets = {"f"}
  a = "f"
  MaxHash = 2
  MaxChanges = 2
  People = {"olga", "bob", "carl", "anonymous"}
  AssetCodenames = {"view_asset", "discover_asset", "manage_asset"}
  NoParent = NoParent
  Early = {"bob"}
  Readers = {"bob", "anonymous"}
  Unset = Unset
  MaxInterferences = 1
  MaxRows = 3
  MaxPosts = 3
  Limits = {1}
  MaxLimit = 2
  MaxRemovals = 1
INVARIANTS ProjectsTypeOK FormsAreTrue SharingIsTold AccountsAreRight CommandsReconcile
PROPERTIES CompletedAgrees ImplementsPublication SecondSyncChangesNothing
CHECK_DEADLOCK FALSE
