\* The reminder that is named for 23 hours.
SPECIFICATION Spec
CONSTANTS
    Quarter = 1
    SlotOffsets = {200}
    None = None
    MaxNow = 200
    MaxDowns = 0
INVARIANT Reminder23IsSentInTime
CHECK_DEADLOCK FALSE
