CONSTANTS
  Sound = {on, off}
  Enabled = {on}
  Torn = Torn
  Unreadable = Unreadable
  None = None
  Paths = {1, 2, 3}
  Pads = {1}
  Inner = {2}
  Outer = {3}
  Boards = {1, 2, 3}
  Keys = {letter, shift}
  Letters = {letter}
  Contacts = {c1}
  Short = 1
  Long = 2
  Gap = 1
  Horizon = 2
  MaxEvents = 3
SPECIFICATION FairSpec
INVARIANTS DevicesInHand TypingInHand NewestUpdateWins
PROPERTIES SettingsTakeEffect TapIsReleased
