INIT Init
NEXT Next
CONSTANTS
 Problems <- MCProblems
 Budgets = {12, 500}
 K = 2
 MaxAlternatives = 3
 MaxPasses = 20
 MaxExtensions = 2
 Schools = {"cas", "shanghai", "abudhabi"}
 RowSets <- MCRowSets
 Days <- MCDays
 Reports <- MCReports
 Edits <- MCEdits
 Now <- MCNow
 End <- MCEnd
 OfferedIn0 <- MCOfferedIn
 Before0 <- MCBefore
 Elect <- MCElect
 MaxEdits = 2
 Listings <- MCListings
 TermPlans <- MCTermPlans
 SchedPrefs <- MCWishes
 Weekdays <- MCWeek
 Elsewhere = {"a"}
 Ttl = 2
 MaxClock = 3
 Cap = 2
 MaxActs = 3
 MaxPlans = 2
 Mails = {"a@nyu.edu", "b@x.org"}
 Allowed = {"a@nyu.edu"}
 Ips = {"ip1"}
 IssueLimit = 2
 OtpTtl = 2
 DayLength = 2
 MaxTick = 3
 MaxRows = 3
 Verifiers = {1, 2}
 Turns = {1, 2}
 MaxSummaries = 2
 MaxIds = 4
 Durable = TRUE
 Chats = {1, 2}
 Bodies <- MCBodies
 Uploads <- MCUploads
 NewValues <- MCNewValues
 StoredRows <- MCStoredRows
 MaxAsks = 1
 MaxRounds = 2
 Messages <- MCMessages
 Replies <- MCReplies
 Profiles <- MCContexts
 ToolSets <- MCToolSets
 HistoryWindow = 3
 RestoreLimit = 4
 Pages = {1}
 MayReload = TRUE
 MaxMessages = 2
 Files = {"bad", "down", "A", "B"}
 Derives = {"A"}
 Undeclared = {"B"}
 Homes = {"shanghai"}
 GradTerms = {"f27"}
 Workloads = {"frontload"}
 Toggles = {"honors"}
 Texts = {"text"}
 Sayings = {"yes", "other", "term"}
 MaxPicks = 3
 MaxUploads = 2
 MaxSends = 1
 Printable <- MCPrintable
 Histories <- MCHistories
 ProgramLists <- MCProgramLists
 MaxSections = 3
 RunnerNumber = 3
 GroupIds = {"RG1"}
 ParentOf <- MCParentOf
 Transcript <- MCTranscript
 ProgramOf <- MCProgramOf
 MajorIds = {"R1004/10"}
 GenericIds = {"R1004"}
 Configs <- MCConfigs
 HistoryShown = 2
 ListShown = 1
 Statements <- MCStatements
 Invocations <- MCInvocations
 Questions <- MCQuestions
 StoredPlans <- MCStored
 Near = 4
 NegationNear = 2
 QuoteFar = 6
 QuoteNear = 2
 MaxStatements = 2
 MaxCalls = 1
 ViewPlans <- MCViewPlans
 PlanChanges <- MCPlanChanges
 Rejections <- MCRejections
 BubbleTerms <- MCBubbleTerms
 PlannedTerms <- MCPlannedTerms
 MaxBubbles = 1
 MaxChunks = 2
 MaxFrames = 5
 SlotWindows = {"withdraw_pf", "closed"}
INVARIANTS
 SearchIsHonest ConstraintsMirrorValidator
 DropSticks ProposalsAreAttendable EventsArriveOnce WorkspaceIsConsistent
 RedeemedCodeStaysDead DailyQuota WindowHoldsTheNewest 
 HandOverIsComplete ReportReadsAsPrinted AnswersMatchTheReport VerdictIsJust ComparisonIsTrue
PROPERTIES
 ImprovementIsSound WindowNeverReopens AcceptedBindIsPlaced ChangesAreAudited BubbleSpeaksForItself
CHECK_DEADLOCK FALSE
