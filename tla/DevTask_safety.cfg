\* Two devices, one of them offline, and three kinds that share two channels.
CONSTANTS
  TsFw = TsFw
  Stars = Stars
  Dev0 = Dev0
  Dev1 = Dev1
  Threads = {t1, t2}
  NoThread = NoThread
  Devices = {Dev0, Dev1}
  Kinds = {1, 2, 9}
  Channels = {TsFw, Stars}
  ChannelsOf <- KindToChannel
  CannKinds <- CannConfig
  Online = {Dev0}
  DevChannels <- Listed
  MaxCalls = 6
SYMMETRY Symmetry
SPECIFICATION Spec
INVARIANTS TypeOK RefCountsMatchTasks  EnabledIsStarted UnsubscribeStopsAll
