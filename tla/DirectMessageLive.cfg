\* One message through two resets, two process deaths or closes and
\* one rejected persist.
CONSTANTS
    m1 = m1
    Messages = {m1}
    MaxResets = 2
    MaxFailures = 1
    MaxCrashes = 2
SPECIFICATION Spec
PROPERTY
    MessagesSettle
CHECK_DEADLOCK FALSE
