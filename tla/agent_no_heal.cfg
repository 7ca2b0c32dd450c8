SPECIFICATION Spec
CONSTANTS
    None = None
    Unset = Unset
    Wildcard = Wildcard
    a = a
    b = b
    c = c
    files = files
    desk = desk
    web = web
    github = github
    other = other
    Builtins = {web, github}
    Configured = {web}
    Servers = {files}
    Stdio = {files}
    Runs = {a, b}
    RowsOf <- OneServer
    Place <- InOrder
    MaxDeaths = 1
INVARIANTS
    HealsOnNextRun
