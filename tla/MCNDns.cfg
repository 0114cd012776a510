SPECIFICATION FairSpec
CONSTANTS
  Objects = {o1, o2}
  Workers = {w1, w2}
  Hosts = {psi, jabber}
  None = None
  NoAddr = NoAddr
  GUI = GUI
INVARIANTS
  SerialLookups
  ManagerOutlivesThreads
  ItemsReferToLiveObjects
  GuiNeverBlocksOnLookup
PROPERTIES
  QuitCompletes
  ServiceSpec
