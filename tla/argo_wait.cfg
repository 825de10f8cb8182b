SPECIFICATION Spec
CONSTANTS
  rolled = rolled
  still = still
  Apps = {rolled, still}
  Rolling = {rolled}
  LastRevision = 2
  Target = 1
  Content <- Manifests
  Image <- Images
  Polls = 2
  RefreshEvery = 1
  Modes = {"kubectl", "http"}
  NoOp = NoOp
CHECK_DEADLOCK FALSE
INVARIANTS TypeOK SuccessWasDelivered KeepsAsking BlipIsNotFatal
PROPERTY WaitEnds
