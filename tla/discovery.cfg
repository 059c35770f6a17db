SPECIFICATION Spec
CONSTANTS
  Handlers = {h1, h2}
  IDs = {i1}
  NoID = NoID
INVARIANTS
  TypeOK
  AloneCallAgrees
  SerialEventsFollow
PROPERTIES
  AloneReportAnnounces
