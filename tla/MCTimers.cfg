\* One request; slots around the 3, 16 and 48 hour marks; one outage.
SPECIFICATION Spec
CONSTANTS
    Quarter = 2
    SlotOffsets = {8, 23, 24, 25, 30, 127, 128, 129, 131, 200, 384, 400}
    None = None
    MaxNow = 410
    MaxDowns = 1
INVARIANT TypeOK
INVARIANT RemindedOnce
INVARIANT ReminderNotSkipped
INVARIANT ExpiresInTime
INVARIANT TimeToAnswer
CHECK_DEADLOCK FALSE
