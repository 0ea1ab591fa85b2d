------------------------------ MODULE Services -----------------------------
(***************************************************************************)
(* The services that share no state with one another, side by side: a       *)
(* behaviour is a behaviour of one of them, its "part", and the variables   *)
(* of the others are Off.  One run checks them all.                         *)
(***************************************************************************)
EXTENDS Integers, Sequences, FiniteSets

CONSTANTS
    Parts,                                          \* the services to check
    Creates, Sends, NoSend, Limit,                  \* Conversation
    Workers, Deliveries, MaxPosts,                  \* FollowupWebhook
    Readers, ReportWorkers, MaxReports, MaxPolls,   \* Reports
    Askers, MaxTasks,                               \* Whitepapers
    Requests, Personas, Works, MaxEditions,         \* Preparation
    Tokens, MaxUpdates,                             \* Sessions, with Requests
    Uploads, Images, MaxConcurrency, MaxQueue, MaxAttempts, CacheSize,  \* ImageExtract
    MaxRetries, MaxJsonRetries, MaxChunks,          \* AIClient
    Walks, PageSize, MaxRows,                       \* Catalogue
    MaxPersonas,                                    \* Recommendation
    Answers, RunSizes, MaxRuns,                     \* BusinessReport
    Dims, Sorted, Items, Replies, NoJson, AnswerCap, MaxItems,  \* DimensionScores
    MaxText,                                        \* JsonText
    Core, Extra, Values, Hinted, Targets,           \* VisionFields
    BatchDims, PerDim, Halves, NoList, Critics, Friendly, AnswerReplies, Unusable,  \* Questionnaire
    Prices, NoPrice, MaxAnalyses,                   \* ProductIntake
    Logins, Numbers, NoNumber, MockNumber, LoginLimit, MaxWindows  \* Login

VARIABLES
    part,  \* the service a behaviour is about
    provider, row, count, stored, memories, create, send, rowLock, stale,
    evaluation, event, tail, queue, delivery, posts, accepted, repeated, dead, silent,
    mode, scaled, report, reportQueue, pending, proc,
    whitepaper, text, reader, tasks, started, overlap, lost,
    status, selected, gone, edition, answers, request, work, paid, late,
    redisUp, life, blacklist, userRow, userCache, visit, overtaken,
    extractMode, inflight, permits, fields, upload,
    kind, pc, attempt, format, content, reasoning, chunks, cut, shown, sent, result,
    error,
    rows, made, pages, writing, walk, pagesStale,
    personas,
    sheet, runs,
    items, analysis, entries, radar,
    reply, nest, quoted, objects,
    scan, hints, flagged, fieldsShown,
    batch, outcome, survey, answered,
    order, step, seen, prompted, spent, product, analyses,
    real, counting, clock, counter, account, verified, login, admitted, failedOpen,
    config, phase, call

conversationVars == <<provider, row, count, stored, memories, create, send, rowLock,
    stale>>
webhookVars == <<evaluation, event, tail, queue, delivery, posts, accepted, repeated,
    dead, silent>>
reportVars == <<mode, scaled, report, reportQueue, pending, proc>>
whitepaperVars == <<whitepaper, text, reader, tasks, started, overlap, lost>>
preparationVars == <<status, selected, gone, edition, answers, request, work, paid, late>>
sessionVars == <<redisUp, life, blacklist, userRow, userCache, visit, overtaken>>
imageVars == <<extractMode, inflight, permits, fields, upload>>
clientVars == <<kind, pc, attempt, format, content, reasoning, chunks, cut, shown, sent,
    result, error>>
listVars == <<rows, made, pages, writing, walk, pagesStale>>
recommendVars == <<personas>>
metricsVars == <<sheet, runs>>
dimensionVars == <<items, analysis, entries, radar>>
jsonVars == <<reply, nest, quoted, objects>>
visionVars == <<scan, hints, flagged, fieldsShown>>
surveyVars == <<batch, outcome, survey, answered>>
intakeVars == <<order, step, seen, prompted, spent, product, analyses>>
loginVars == <<real, counting, clock, counter, account, verified, login, admitted,
    failedOpen>>
providerVars == <<config, phase, call>>
vars == <<part, conversationVars, webhookVars, reportVars, whitepaperVars,
          preparationVars, sessionVars, imageVars, clientVars, listVars, recommendVars,
          metricsVars, dimensionVars, jsonVars, visionVars, surveyVars, intakeVars,
          loginVars, providerVars>>

Chat == INSTANCE Conversation
Hook == INSTANCE FollowupWebhook
Report == INSTANCE Reports
    WITH Requests <- Readers, Workers <- ReportWorkers, MaxQueue <- MaxReports, row <- report, queue <- reportQueue
Paper == INSTANCE Whitepapers
    WITH Requests <- Askers, status <- whitepaper, request <- reader
Prep == INSTANCE Preparation
Session == INSTANCE Sessions WITH cache <- userCache, request <- visit
Image == INSTANCE ImageExtract
    WITH Requests <- Uploads, mode <- extractMode, cache <- fields, request <- upload
Client == INSTANCE AIClient
List == INSTANCE Catalogue WITH Limit <- PageSize, cache <- pages, stale <- pagesStale
Advice == INSTANCE Recommendation
Metrics == INSTANCE BusinessReport
Dimension == INSTANCE DimensionScores
Json == INSTANCE JsonText
Vision == INSTANCE VisionFields WITH shown <- fieldsShown
Survey == INSTANCE Questionnaire WITH Replies <- Halves
Intake == INSTANCE ProductIntake
SignIn == INSTANCE Login
Provider == INSTANCE Providers

\* What is assumed of the constants: the assumptions of the services.
ASSUME ServicesAssumption ==
    /\ Chat!ConversationAssumption
    /\ Hook!WebhookAssumption
    /\ Report!ReportsAssumption
    /\ Prep!PreparationAssumption
    /\ Session!SessionAssumption
    /\ Image!ExtractAssumption
    /\ Client!ClientAssumption
    /\ List!CatalogueAssumption
    /\ Advice!RecommendAssumption
    /\ Metrics!MetricsAssumption
    /\ Dimension!DimensionAssumption
    /\ Json!TextAssumption
    /\ Vision!VisionAssumption
    /\ Survey!QuestionnaireAssumption
    /\ Intake!IntakeAssumption
    /\ SignIn!LoginAssumption

Off == 0

conversationOff == provider = Off /\ row = Off /\ count = Off /\ stored = Off /\
    memories = Off /\ create = Off /\ send = Off /\ rowLock = Off /\ stale = Off
webhookOff == evaluation = Off /\ event = Off /\ tail = Off /\ queue = Off /\
    delivery = Off /\ posts = Off /\ accepted = Off /\ repeated = Off /\ dead = Off /\
    silent = Off
reportOff == mode = Off /\ scaled = Off /\ report = Off /\ reportQueue = Off /\
    pending = Off /\ proc = Off
whitepaperOff == whitepaper = Off /\ text = Off /\ reader = Off /\ tasks = Off /\
    started = Off /\ overlap = Off /\ lost = Off
preparationOff == status = Off /\ selected = Off /\ gone = Off /\ edition = Off /\ answers = Off /\
    request = Off /\ work = Off /\ paid = Off /\ late = Off
sessionOff == redisUp = Off /\ life = Off /\ blacklist = Off /\ userRow = Off /\
    userCache = Off /\ visit = Off /\ overtaken = Off
imageOff == extractMode = Off /\ inflight = Off /\ permits = Off /\ fields = Off /\
    upload = Off
clientOff == kind = Off /\ pc = Off /\ attempt = Off /\ format = Off /\
    content = Off /\ reasoning = Off /\ chunks = Off /\ cut = Off /\ shown = Off /\
    sent = Off /\ result = Off /\ error = Off
listOff == rows = Off /\ made = Off /\ pages = Off /\ writing = Off /\ walk = Off /\
    pagesStale = Off
recommendOff == personas = Off
metricsOff == sheet = Off /\ runs = Off
dimensionOff == items = Off /\ analysis = Off /\ entries = Off /\ radar = Off
jsonOff == reply = Off /\ nest = Off /\ quoted = Off /\ objects = Off
visionOff == scan = Off /\ hints = Off /\ flagged = Off /\ fieldsShown = Off
surveyOff == batch = Off /\ outcome = Off /\ survey = Off /\ answered = Off
intakeOff == order = Off /\ step = Off /\ seen = Off /\ prompted = Off /\ spent = Off /\
    product = Off /\ analyses = Off
loginOff == real = Off /\ counting = Off /\ clock = Off /\ counter = Off /\
    account = Off /\ verified = Off /\ login = Off /\ admitted = Off /\ failedOpen = Off
providerOff == config = Off /\ phase = Off /\ call = Off

Init ==
    /\ part \in Parts
    /\ IF part = "conversation" THEN Chat!Init ELSE conversationOff
    /\ IF part = "webhook" THEN Hook!Init ELSE webhookOff
    /\ IF part = "report" THEN Report!Init ELSE reportOff
    /\ IF part = "whitepaper" THEN Paper!Init ELSE whitepaperOff
    /\ IF part = "preparation" THEN Prep!Init ELSE preparationOff
    /\ IF part = "session" THEN Session!Init ELSE sessionOff
    /\ IF part = "image" THEN Image!Init ELSE imageOff
    /\ IF part = "client" THEN Client!Init ELSE clientOff
    /\ IF part = "list" THEN List!Init ELSE listOff
    /\ IF part = "recommend" THEN Advice!Init ELSE recommendOff
    /\ IF part = "metrics" THEN Metrics!Init ELSE metricsOff
    /\ IF part = "dimension" THEN Dimension!Init ELSE dimensionOff
    /\ IF part = "json" THEN Json!Init ELSE jsonOff
    /\ IF part = "vision" THEN Vision!Init ELSE visionOff
    /\ IF part = "survey" THEN Survey!Init ELSE surveyOff
    /\ IF part = "intake" THEN Intake!Init ELSE intakeOff
    /\ IF part = "login" THEN SignIn!Init ELSE loginOff
    /\ IF part = "provider" THEN Provider!Init ELSE providerOff

\* Every service but the one at work stays as it is.
Others(p) ==
    /\ IF p = "conversation" THEN TRUE ELSE UNCHANGED conversationVars
    /\ IF p = "webhook" THEN TRUE ELSE UNCHANGED webhookVars
    /\ IF p = "report" THEN TRUE ELSE UNCHANGED reportVars
    /\ IF p = "whitepaper" THEN TRUE ELSE UNCHANGED whitepaperVars
    /\ IF p = "preparation" THEN TRUE ELSE UNCHANGED preparationVars
    /\ IF p = "session" THEN TRUE ELSE UNCHANGED sessionVars
    /\ IF p = "image" THEN TRUE ELSE UNCHANGED imageVars
    /\ IF p = "client" THEN TRUE ELSE UNCHANGED clientVars
    /\ IF p = "list" THEN TRUE ELSE UNCHANGED listVars
    /\ IF p = "recommend" THEN TRUE ELSE UNCHANGED recommendVars
    /\ IF p = "metrics" THEN TRUE ELSE UNCHANGED metricsVars
    /\ IF p = "dimension" THEN TRUE ELSE UNCHANGED dimensionVars
    /\ IF p = "json" THEN TRUE ELSE UNCHANGED jsonVars
    /\ IF p = "vision" THEN TRUE ELSE UNCHANGED visionVars
    /\ IF p = "survey" THEN TRUE ELSE UNCHANGED surveyVars
    /\ IF p = "intake" THEN TRUE ELSE UNCHANGED intakeVars
    /\ IF p = "login" THEN TRUE ELSE UNCHANGED loginVars
    /\ IF p = "provider" THEN TRUE ELSE UNCHANGED providerVars
    /\ UNCHANGED part

ConversationStep == part = "conversation" /\ Chat!Next /\ Others("conversation")
WebhookStep == part = "webhook" /\ Hook!Next /\ Others("webhook")
ReportStep == part = "report" /\ Report!Next /\ Others("report")
WhitepaperStep == part = "whitepaper" /\ Paper!Next /\ Others("whitepaper")
PreparationStep == part = "preparation" /\ Prep!Next /\ Others("preparation")
SessionStep == part = "session" /\ Session!Next /\ Others("session")
ImageStep == part = "image" /\ Image!Next /\ Others("image")
ClientStep == part = "client" /\ Client!Next /\ Others("client")
ListStep == part = "list" /\ List!Next /\ Others("list")
RecommendStep == part = "recommend" /\ Advice!Next /\ Others("recommend")
MetricsStep == part = "metrics" /\ Metrics!Next /\ Others("metrics")
DimensionStep == part = "dimension" /\ Dimension!Next /\ Others("dimension")
JsonStep == part = "json" /\ Json!Next /\ Others("json")
VisionStep == part = "vision" /\ Vision!Next /\ Others("vision")
SurveyStep == part = "survey" /\ Survey!Next /\ Others("survey")
IntakeStep == part = "intake" /\ Intake!Next /\ Others("intake")
LoginStep == part = "login" /\ SignIn!Next /\ Others("login")
ProviderStep == part = "provider" /\ Provider!Next /\ Others("provider")

Next ==
    \/ ConversationStep \/ WebhookStep \/ ReportStep \/ WhitepaperStep
    \/ PreparationStep \/ SessionStep \/ ImageStep \/ ClientStep
    \/ ListStep \/ RecommendStep \/ MetricsStep \/ DimensionStep
    \/ JsonStep \/ VisionStep \/ SurveyStep \/ IntakeStep \/ LoginStep \/ ProviderStep

Spec == Init /\ [][Next]_vars

\* A send and a request for a report that have begun go on.  Nothing is assumed of workers.
FairSpec ==
    /\ Spec
    /\ \A s \in Sends : WF_conversationVars(part = "conversation" /\ Chat!SendGoesOn(s))
    /\ \A p \in Readers : WF_reportVars(part = "report" /\ Report!Steps(p))

-----------------------------------------------------------------------------
(* Properties: those of the services, each in its part                      *)

\* The type invariants of the services.
TypesOK ==
    /\ part \in Parts
    /\ part = "conversation" => Chat!TypeOK
    /\ part = "webhook" => Hook!TypeOK
    /\ part = "report" => Report!TypeOK
    /\ part = "whitepaper" => Paper!TypeOK
    /\ part = "preparation" => Prep!TypeOK
    /\ part = "session" => Session!TypeOK
    /\ part = "image" => Image!TypeOK
    /\ part = "client" => Client!TypeOK
    /\ part = "list" => List!TypeOK
    /\ part = "recommend" => Advice!TypeOK
    /\ part = "metrics" => Metrics!TypeOK
    /\ part = "dimension" => Dimension!TypeOK
    /\ part = "json" => Json!TypeOK
    /\ part = "vision" => Vision!TypeOK
    /\ part = "survey" => Survey!TypeOK
    /\ part = "intake" => Intake!TypeOK
    /\ part = "login" => SignIn!TypeOK
    /\ part = "provider" => Provider!TypeOK

\* Conversation: message_count, which the limit is checked on, counts the messages, one
\* reply at most passes the limit unless sends overlapped, and the client was told what
\* is stored.
CountIsExact ==
    part = "conversation" => /\ Chat!CountIsExact /\ Chat!LimitHolds
                             /\ Chat!StoredAsTold

\* Conversation: sends wait for one lock only, which every end of a stream gives back.
SendsEnd == \A s \in Sends :
    (part = "conversation" /\ send[s].pc = "open")
        ~> (part = "conversation" /\ send[s].pc \in {"end", "gone"})

\* Webhooks: delivered only when accepted, no outcome without its event, and the receiver
\* accepts an event once unless deliveries overlapped.
DeliveredMeansAccepted ==
    part = "webhook" => /\ Hook!DeliveredMeansAccepted
                        /\ Hook!OutcomeAnnounced
                        /\ Hook!AcceptedOnce

\* Reports: what can be read has a radar, and a radar rests on the answers.
RadarServed == /\ part = "report" => Report!RadarServed
               /\ part = "dimension" => Dimension!ScoresSound

\* Reports: a request ends, also when it waits for the analysis of a process that is gone.
ReadersEnd == \A p \in Readers :
    (part = "report" /\ proc[p].pc # "idle") ~> (part = "report" /\ proc[p].pc = "idle")

\* Whitepapers: "generating" has a task, "ready" has a text.
GeneratingIsOwned == part = "whitepaper" => /\ Paper!GeneratingIsOwned
                                            /\ Paper!ReadyHasText

\* Whitepapers: a ready one stays ready unless two retries overlapped.
ReadyStays == [][part = "whitepaper" => Paper!StaysReady]_vars

\* Preparation: personas answer what was ordered.
AnsweredAsOrdered == part = "preparation" => Prep!AnsweredAsOrdered

\* Preparation: done means answered by all.
DoneIsComplete == [][part = "preparation" => Prep!DoneCompletely]_vars

\* Sessions: a revoked token gets no further than the check, the cached profile is the one
\* of the row.
SessionsHold == part = "session" => /\ Session!RevokedStaysOut
                                    /\ Session!CachedProfileIsCurrent

\* Images: places are accounted for, calls are bounded.
PlacesAccounted == part = "image" => Image!PlacesAccounted /\ Image!CallsBounded

\* AI client: bounded requests, then a text or an error the callers know.
CallHolds == part = "client" => Client!CallHolds

\* Lists: a walk over the pages sees every row, and of a list of personas the few that are
\* recommended show a critical one.
ListsHold == /\ part = "list" => List!WalkSeesAll
             /\ part = "recommend" => Advice!CriticalShown

\* Figures: those of a report agree with one another and with what is told of them.
FiguresHold == part = "metrics" => Metrics!FiguresAgree /\ Metrics!ToldAsCounted

\* Replies of models: the object meant is found in the text.
RepliesTaken == part = "json" => Json!ObjectRecovered

\* Surveys: one is whole and its answers can be counted.
SurveysCount == part = "survey" => Survey!SurveyWhole /\ Survey!AnswersCountable

\* Products: what is refused costs and leaves nothing, what is stored is true to what was
\* given, and what is shown of a picture is no surer than it was read.
IntakeHolds == /\ part = "intake" => Intake!IntakeSound
               /\ part = "vision" => Vision!FieldsHonest

\* Login: the limit of a window, and the row of the user.
LoginHolds == part = "login" => SignIn!LimitKept /\ SignIn!AccountTrue

\* Providers: a configuration that was accepted gets clients and models that fit.
ProvidersUsable == part = "provider" => Provider!ProvidersUsable
=============================================================================
