SPECIFICATION FairSpec
CONSTANTS
    inviter = inviter
    Invitee = {c1, c2}
    MaxAgents = 5
    MaxTalk = 1
    MaxFaults = 2
INVARIANT KeysAgree
PROPERTY Settles
CHECK_DEADLOCK FALSE
