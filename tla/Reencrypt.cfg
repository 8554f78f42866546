SPECIFICATION FairSpec
CONSTANTS
  Configs <- SafeConfigs
  CrashIn = {}
  MaxKills = 2
  MaxPowerFails = 1
  MaxQuits = 1
INVARIANTS DataReadable HotzoneRecoverable
PROPERTIES NeverConvertedTwice ReencryptionFinishes
