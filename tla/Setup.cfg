SPECIFICATION Spec
CONSTANTS
  LabelCount = 2
  Workers = {"a", "b"}
  MaxTrouble = 2
INVARIANTS TypeOK FailedAuthorizationKeepsTheToken NamesResolveToTheirOwnIds
PROPERTIES SetupOKMeansReady SetupRecovers
