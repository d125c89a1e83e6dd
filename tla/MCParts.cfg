SPECIFICATION PartsSpec
CONSTANTS
  \* Two handlers at a time, three people of whom one is not registered.
  People = {1, 2, 3}
  Registered = {1, 2}
  FriendTasks = {"s", "t"}
  MaxRequestIds = 3
  MaxFriendCalls = 5
  Names = {2, 3}
  Passwords = {5, 6}
  AccountTasks = {s, t}
  MaxUserIds = 2
  MaxTokens = 1
  TokenTtl = 1
  MaxClock = 2
  Folk = {1, 2, 3}
  Enrolled = {1, 2}
  GroupTasks = {s, t}
  MaxGroups = 2
  MaxGroupCalls = 4
  Uploads = {s, t}
  MaxFileSize = 2
  MaxFiles = 2
  MaxDownloads = 1
  \* Two conversations, both channels with room for one.
  Peers = {1, 2}
  Nobody = 0
  ChatEventRoom = 1
  ChatCmdRoom = 1
  MaxOwn = 1
  MaxTheirs = 2
  MaxChatEvents = 3
  \* A window of 3 bits and 9 frames: gaps, runs that are absorbed, frames
  \* beyond the window and late duplicates all occur. No frame number wraps.
  WINDOW_SIZE = 3
  Ring = 16
  FirstN = 1
  LastN = 9
  \* Groups of 3 bits, numbers of 7, a checksum of 8 bits.
  GroupBits = 3
  ValueBits = 7
  CrcBits = 8
  Poly = 224
  MAX_FRAME_LEN = 40
  Messages <- PartMessages
  Damage = {1, 6, 15}
  MaxRead = 6
  \* Six bits of nanoseconds: the product passes them long before the attempts end.
  BaseNanos = 3
  MaxNanos = 50
  NanoBits = 6
  MilliNanos = 2
  MaxAttempt = 9
  Rto = 3
  RetryDelayCap = 40
  MaxShift = 5
  \* Frames that fall due at the same instant, with and without jitter.
  LinkDirs = {"up"}
  Delay = 1
  Jitters = {0, 2}
  PumpCapacity = 1
  MaxLinkFrames = 3
  MaxTime = 3
  \* Four buckets of two slots.
  SIGNIFICANT_BITS = 1
  SampleBits = 4
  Percents = {1, 50, 90, 100}
  MaxSamples = 3
INVARIANTS FriendTablesAgree OneAccountPerName OwnedGroups RowHasFile UnreadExact NoSwallow AckExact DecodesStream LinkFaithful PercentilesSound
PROPERTIES AtMostOnce CeilingDoubles
CHECK_DEADLOCK FALSE
