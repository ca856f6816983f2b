\* Three clients, two handles for them: one must wait when two are served.
CONSTANTS
  Conns = {c1, c2, c3}
  Handles = {h1, h2}
  Listener = listener
  Acceptor = acceptor
  NoHandle = nohandle
  NoHandler = nohandler
  SetSize = 3
  MaxIn = 1
  MaxQueue = 2
SPECIFICATION Spec
INVARIANTS IInv NoDangling HandlesAccounted ServedWatched AcceptorListens
PROPERTIES ClosedStaysQuiet NeverOvertaken LeasesKept InputServed PendingServed
CHECK_DEADLOCK FALSE
