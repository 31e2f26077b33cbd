SPECIFICATION Spec
CONSTANTS
  N = 3
  draft = draft
  answers = answers
  Human = {2}
  Save = 3
  Fields = {draft, answers, checks}
  checks = checks
  Writes <- WritesOf
  Given = {answers}
  none = none
  text = text
  callable = callable
  Values = {none, text, callable}
  Blank = none
  Stored <- StoredOf
  Rebuilt <- RebuiltOf
  Remake <- RemakeOf
  Same = Same
  Nothing = Nothing
  MaxRuns = 3
INVARIANTS PipelineInv RestoresAsItStood
\* The bound on passes lets the system rest.
CHECK_DEADLOCK FALSE
