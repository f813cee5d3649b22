SPECIFICATION Spec
CONSTANTS
  Codenames = {"view_asset", "change_asset",
    "manage_asset", "view_submissions", "partial_submissions"}
  Users = {"olga", "bob"}
  Anonymous = "anon"
  Assets <- PairAssets
  Owner <- PairOwner
  Type <- PairType
  NoParent = NoParent
  PartialChoices = {{"view_submissions"}}
  CopySources = {}
INVARIANTS PartialGrantHasRow
CHECK_DEADLOCK FALSE
