\* Two clients and the acceptor, one place too few for them.
CONSTANTS
  Conns = {c1, c2}
  Handles = {h1, h2}
  Listener = listener
  Acceptor = acceptor
  NoHandle = nohandle
  NoHandler = nohandler
  SetSize = 2
  MaxIn = 1
  MaxQueue = 1
SPECIFICATION Spec
INVARIANT AcceptorListens
CHECK_DEADLOCK FALSE
