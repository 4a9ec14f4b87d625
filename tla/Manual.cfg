\* Administrators, a poller and the retry loop on one held settlement.
SPECIFICATION MCSpec
CONSTANTS
  Admins <- TwoAdmins
  Pollers <- OnePoller
  Runners <- OneRunner
  Nobody = "nobody"
  Notes = {"default", "evidence"}
  DefaultNote = "default"
  Reservation = 2
  ApprovedQuotas = {0, 1, 2}
  PolledQuotas = {1, 2}
  MaxRevision = 4
INVARIANTS ClosedByApproval SuccessIsTrue PaidApprovalStands
PROPERTIES ApprovalIsFinal ImplementsTaskQuota
