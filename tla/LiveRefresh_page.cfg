\* One page of another user, one writer, one stream breaks,
\* one shutdown or crash.
SPECIFICATION RSpec
CONSTANTS
    p1 = p1  r1 = r1  c1 = c1  c2 = c2
    Pages <- MCPages
    Owners = {}
    Requests <- MCRequests
    Conns <- MCConns
    Views <- MCViews
    Kinds <- MCKinds
    Buffer = 1
    MaxWrite = 2
    MaxLoss = 1
    MaxStop = 1
INVARIANTS ChannelsAreSound 
PROPERTIES  StreamsEnd Reconnects
