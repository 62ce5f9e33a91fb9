SPECIFICATION Spec
CONSTANTS
  Topics = {}
  Unclassified = "unclassified"
  Configured = {"unclassified"}
  IdOf <- GmailIds
  Messages = {1, 2}
  Procs = {1, 2}
  Seconds = 2
  Views <- Fresh
  MaxFaults = 1
  MaxAsked = 2
INVARIANTS TypeOK OneVerdictPerMessage AFaultCostsOneRecord RolledBackIsAsBefore
PROPERTIES EverythingGetsAVerdict
