CONSTANTS
  index = index guide = guide choice = choice note = note form = form readme = readme
  picture = picture gone = gone
  access = access routing = routing measured = measured
  NoHeader = NoHeader External = External
  NoPdf = NoPdf Cut = Cut NoPage = NoPage
  BookTree <- BookFiles
  Dated = {access, routing}
  Arguments <- Named
  BookHeaders <- FirstHeaders
  Edits <- AnyEdits
  MaxEdits = 2
  MaxRuns = 2
  Tabs = {t1, t2, t3} Fast = Fast Students = {o1} Slots = 1 Places = 1 NoResult = NoResult
  Tree <- AllFiles
  Docs = {index, guide, choice, form}
  Templates = {form}
  Evidence = {note}
  Records = {note}
  Decisions = {choice}
  Index = index
  Others = {picture}
  Absent = {gone}
  Repositories <- SomeRepositories
SPECIFICATION ScriptsSpec
INVARIANTS SearchExact PassedIsSound PdfsRight DonePassesDocsCheck ExitIsHonest QuietQueuePasses
SYMMETRY AnyOrder
CHECK_DEADLOCK FALSE
