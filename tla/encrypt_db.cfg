\* Calls that fail or die half-way, calls with another key, and InferDB at any
\* time between them, with a MANIFEST that CURRENT does not name.
CONSTANTS
  Files = {current, manifest, old, log}
  Logs = {log}
  PathExempt = FALSE
  Keys = {k1, k2}
  None = none
  SizeFails = FALSE
  MaxCalls = 3
  Current = current
  Manifests = {manifest, old}
  Named = manifest
  Periodic = {k1}
SPECIFICATION InferSpec
INVARIANTS AnswerOK OkMeansEveryFile TwiceRestores OneFileAtRisk InferredKeyFits
           EmptyKeyMeansUnencrypted
CHECK_DEADLOCK FALSE
