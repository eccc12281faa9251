CONSTANTS
  crawl = crawl
  scan = scan
  page = page
  host = host
  vuln = vuln
  Tasks = {crawl, scan}
  Outputs = {page, host, vuln}
  TaskOf <- MCTaskOf
  Assets = {page, vuln}
  Findings = {vuln, host}
  MaxPolls = 1
  MaxFaults = 2
SPECIFICATION FairSpec
INVARIANTS TypeOK StepWaitsForIngest StoredWithoutFaults ResentAfterFailureOnly
PROPERTIES StepEnds
CHECK_DEADLOCK FALSE
