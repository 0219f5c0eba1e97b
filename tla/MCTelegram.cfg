SPECIFICATION Spec
CONSTANTS
  a = a
  b = b
  Chats = {a, b}
  NoChat = NoChat
  Slots = {d1, d2, d3}
  NoSlot = NoSlot
  Posts <- AllPosts
  InboxSize = 1
  UpdateSlots = 1
  VoiceSlots = 1
  BatchSize = 2
  MaxUpdates = 3
  MaxFaults = 1
INVARIANTS
  OneTurnPerChat
PROPERTIES
  AllRouted
  ImplementsMailbox
