SPECIFICATION Spec
CONSTANTS
  Codenames = {"view_asset","change_asset","manage_asset"}
  Users = {"olga", "bob"}
  Anonymous = "anon"
  Assets <- ShelfAssets
  Owner <- ShelfOwner
  Type <- ShelfType
  NoParent = NoParent
  PartialChoices = {}
  CopySources = {"sub"}
INVARIANTS InheritedFromParent
CHECK_DEADLOCK FALSE
