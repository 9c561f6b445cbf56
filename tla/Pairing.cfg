\* two companies, two chats, one deep link, one request awaiting the vault
SPECIFICATION Spec
CONSTANTS
  Groups = {1, 2}
  Chats = {c1, c2}
  Links = {l1}
  Requests = {r1}
  None = None
INVARIANTS DisconnectHolds OneVoice OrphansAreDenied FounderIsHeard
SYMMETRY ChatSymmetry
