CONSTANTS
  doc = doc
  anyMedium = anyMedium
  web = web
  Resources = {doc}
  Rules = {anyMedium, webOnly}
  Mediums = {web}
  Forms <- MCForms
  Evaluators = {e1}
  Clearers = {c1}
  Edit = Edit
  NoRow = NoRow
  NoRule = NoRule
  Deleted = Deleted
SPECIFICATION LiveSpec
INVARIANTS RunReconciles QuietRunsWriteNothing
PROPERTY Converges
CHECK_DEADLOCK FALSE
