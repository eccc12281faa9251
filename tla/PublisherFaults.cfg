CONSTANTS
  found = found
  resolved = resolved
  ticket = ticket
  changed = changed
  urgent = urgent
  Events = {found, resolved, ticket, urgent}
  Direct = {urgent}
  Processor = Processor
  SubjectOf <- MCSubjectOf
  BatchSize = 3
  BatchTimeout = 2
  Attempts = 2
  MaxFaults = 1
SPECIFICATION FairSpec
INVARIANTS TypeOK AgeBounded CopiesJustified NoFaultNoDrop NoOvertaking
PROPERTIES AlwaysSettles
