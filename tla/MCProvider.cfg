SPECIFICATION Spec
CONSTANTS
  Packages <- MCPackages
  FireFlyPackage = "firefly_1.0"
  ChaincodeNames = {"firefly", "asset"}
  FireFlyName = "firefly"
  NamesOf <- MCNamesOf
  NoPackage = "no package"
  Kinds <- MCKinds
  Members = 2
  MaxAccounts = 2
INVARIANT TypeOK
INVARIANT RecordedCanSign
INVARIANT StartedIsUnlocked
INVARIANT StartIsNotDoomed
INVARIANT ContractsRunTheirPackage
INVARIANT FinishedSetupIsUsable
