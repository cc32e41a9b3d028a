\* Two connections and two requests, in a queue with room for one message.
CONSTANTS
  Handlers = {1, 2}
  Fds <- MCFds
  Addrs = {1, 2}
  Tids = {1, 2}
  NULL = 0
  MaxReq = 2
  Cap = 1
SPECIFICATION LiveSpec
PROPERTIES
  OfflineRemoved
  TakenIsAnswered
  ChannelKept
\* All greenhouses may be gone, and no more requests come.
CHECK_DEADLOCK FALSE
