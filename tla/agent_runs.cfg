SPECIFICATION Spec
CONSTANTS
    None = None
    Unset = Unset
    Wildcard = Wildcard
    a = a
    b = b
    c = c
    files = files
    desk = desk
    web = web
    github = github
    other = other
    Builtins = {web, github}
    Configured = {web}
    Servers = {files, desk}
    Stdio = {files}
    Runs = {a, b}
    RowsOf <- TwoChannels
    Place <- InOrder
    MaxDeaths = 1
INVARIANTS
    TypeOK
    OneConnectionPerServer
    ErrorHasCause
    OnlyEnabledServers
    ClosedMeansGone
PROPERTIES
    EverythingEnds
