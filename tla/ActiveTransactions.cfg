SPECIFICATION Spec
CONSTANTS
    g = g
    a = a
    Account = {g, a}
    length <- MCLength
    source <- MCSource
    cemented_first <- MCFirst
    bucket <- MCBucket
    modified <- MCModified
    bucket_count = 2
    bucket_maximum = 1
    active_elections_size = 1
    recently_confirmed_size = 1
    MaxEvents = 1
    None = None
 
PROPERTIES WinnerDetailsReleased BlocksCemented
CHECK_DEADLOCK FALSE
