SPECIFICATION Spec
CONSTANTS
    Users = {founder, ann, bob}
    Founder = founder
    Invites = {i1, i2}
    Requests = {q1, q2}
    NoInvite = NoInvite
    Faults <- MailFaults
CHECK_DEADLOCK FALSE
SYMMETRY Symmetry
INVARIANTS
    TypeOK
    OneOwner
    MembersWereInvited
    InviteUsedOnce
