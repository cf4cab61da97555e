\* The last publication falls between two reads of one request.
SPECIFICATION FairSpec
CONSTANTS
  MaxPublish = 2
  Request = {r1}
  NoPayload = NoPayload
PROPERTIES
  LastReportIsShown
