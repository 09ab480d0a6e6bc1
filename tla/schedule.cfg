SPECIFICATION Spec
CONSTANTS
  job = job
  every = every
  dates = dates
  steps = steps
  broken = broken
  serve = serve
  App = {job}
  Config = {every, dates, steps, broken, serve}
  NoConfig = NoConfig
  Expression <- Expressions
  Limit <- Limits
  Address <- Addresses
  Initial <- Start
  Minute = 2
  Calendar <- Times
  Horizon = 11
  MaxExecutions = 3
PROPERTIES
  WithinLimit
  EveryOccurrence
