CONSTANTS
  Equiplets <- MCEquiplets
  ModuleIds <- MCModuleIds
  States <- MCStates
  UBSuffixes <- MCUBSuffixes
SPECIFICATION Spec
INVARIANT
  RequestReachesModule
