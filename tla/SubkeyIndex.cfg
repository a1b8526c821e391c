CONSTANTS
  Names <- MCNames
  Subkeys <- MCSubkeys
  Versions <- MCVersions
  CmpMaxFastIndexPerHblock = 2
  CmpMaxIndexPerHblock = 4
SPECIFICATION Spec
INVARIANTS
  TypeOK
  EntriesFit
  NoCellLost
  FoundByName
  FoundByNumber
  LoadAccepts
PROPERTIES
  ChangesAreDirty
  SetSpec
