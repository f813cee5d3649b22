SPECIFICATION Spec
CONSTANTS
  Codenames = {"view_asset", "change_asset", "view_submissions"}
  Users = {"olga", "bob"}
  Anonymous = "anon"
  Assets <- TreeAssets
  Owner <- TreeOwner
  Type <- TreeType
  NoParent = NoParent
  PartialChoices = {}
  CopySources = {}
INVARIANTS TypeOK RowsCoherent EffectiveClosed InheritedFromParent
PROPERTIES RemovedIsGone ChangesArrive
CHECK_DEADLOCK FALSE
