SPECIFICATION Spec
CONSTANTS
  Codenames = {"view_asset", "manage_asset", "add_submissions", "view_submissions",
    "partial_submissions", "change_submissions"}
  Users = {"olga", "bob", "anon"}
  Anonymous = "anon"
  Assets <- FormAssets
  Owner <- FormOwner
  Type <- FormType
  NoParent = NoParent
  PartialChoices = {{"view_submissions"}, {"change_submissions"}}
  CopySources = {"form"}
INVARIANTS AnonymousRowsAllowed OwnerHoldsEverything NeverPartialAndFull RowLevelIsRestricted
PROPERTIES CopyIsFaithful KobocatStaysComplete
CHECK_DEADLOCK FALSE
