\* Two tasks of the client, two runs of the server, three connections.
SPECIFICATION Spec
CONSTANTS
    Tasks = {1, 2}
    Conns = {1, 2, 3}
    Runs = {1, 2}
    MinVersion = 1
    MaxVersion = 1
    Workloads <- MCWorkloads
INVARIANTS
    StartTellsTruth
    NoStrayTask
    ConfigUsable
PROPERTIES
    StopIsObeyed
    Reconnects
    FailStop
CHECK_DEADLOCK FALSE
