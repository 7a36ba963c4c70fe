CONSTANTS
    m1 = m1
    r1 = r1
    r2 = r2
    Mails <- MCOneMail
    Workers <- MCWorkers
    MaxAttempts = 3
    BatchLimit = 1
    MaxFaults = 4
SPECIFICATION FairMailSpec
INVARIANTS MailTypeOK MailRules
PROPERTIES MailsSettle
