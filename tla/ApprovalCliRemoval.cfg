\* Nothing crashes: a request, a REST approver and a CLI.
SPECIFICATION Spec
CONSTANTS
    r1 = r1
    r2 = r2
    ann = ann
    c1 = c1
    w1 = w1
    cli = cli
    system = system
    Requests = {r1}
    Rest = {ann}
    Cli = {c1}
    Sweepers = {w1}
    CliVoter = cli
    SystemVoter = system
    Voters = {ann, cli, system}
    Quorums = {1}
    MaxAttempts = 2
    AuditRequired = TRUE
    Mortal = {}
PROPERTY ApprovedCallIsKept
\* A call that is refused before any approval exists leaves nothing to do.
CHECK_DEADLOCK FALSE
