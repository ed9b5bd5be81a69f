SPECIFICATION LiveSpec
CONSTANTS
  Hosts = {h1, h2}
  Worker = w
  Nobody = nobody
INVARIANTS WaitersExact NoLostWakeup
PROPERTIES EverybodyServed ImplementsHandoff
