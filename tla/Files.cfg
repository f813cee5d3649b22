SPECIFICATION FilesSpec
CONSTANTS
  Nothing = Nothing
  Originals = {a}
  Hashes = {v1, v2}
  Workers = {w1, w2}
  MaxFiles = 2
  MaxMetadata = 2
  Sources = {s1, s2}
  SourceFields = {f1, f2}
  Filenames = {v1, v2}
  MaxUids = 2
  Submissions = {w1, w2}
  Submitters = {v1, v2}
  Endpoints = {"list", "xml", "duplicate", "destroy", "bulk_delete", "bulk_update", "status", "reset", "statuses", "edit"}
INVARIANTS FilesTypeOK FilesAreTrue
PROPERTIES SyncAgrees OnlyTheirs OnlyWhatWasAsked
SYMMETRY Alike
CHECK_DEADLOCK FALSE
