SPECIFICATION LiveSpec
CONSTANTS
  Ips = {a1, a2}
  NoAddress = NoAddress
  NoClient = NoClient
  MaxClients = 2
  Streams = {"video", "audio"}
  StartValues = {0}
  Faults = {"leave"}
  MaxCount = 2
PROPERTY LayoutFollows
PROPERTY DecodingResumes
