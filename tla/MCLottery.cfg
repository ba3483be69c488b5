CONSTANTS
  NPROC = 3
  NCPU = 2
  RANGE = 64
  MAXINT = 127
  TicketArgs <- Arguments
SPECIFICATION MCSpec
INVARIANTS SharesAreTickets FairWhileFewTickets Uniform
PROPERTY SomeoneRuns
