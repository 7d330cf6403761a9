CONSTANTS
  Stored = 4
  Requests <- MCRequests
  Generations = {0, 3}
  GenerationMod = 4
  Importers = {t1, t2}
  None = None
  ImportedModes = {9}
SPECIFICATION Spec
INVARIANTS TypeOK ReportedMeansEnforcing TablesOutliveCallouts LeftBehindOnlyByPartStart GenerationsAgree SecondCopyIsComplete
