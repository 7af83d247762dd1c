SPECIFICATION FairSpec
CONSTANTS
  Macs = {m1}
  Pulls = {p1, p2}
  Handlers = {x1, x2}
  Started = {x1}
  Cleaner = Cleaner
  NoMac = NoMac
  NoMsg = NoMsg
  Nobody = Nobody
INVARIANTS AnnouncedOnce QuietAgrees
PROPERTIES PullHandled ExpiredLeaves
