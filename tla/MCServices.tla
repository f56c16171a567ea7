----------------------------- MODULE MCServices -----------------------------
(***************************************************************************)
(* The services beside the job executor, each checked on its own instance  *)
(* in one run: focus says which of them a behaviour is about.  They never  *)
(* run together here, so they take turns at the same state variables.      *)
(***************************************************************************)
EXTENDS Integers, Sequences, FiniteSets, TLC

VARIABLES
  focus, s1, s2, s3, s4, s5, s6, s7, s8, s9, s10, s11, s12, s13, s14, full, known, pty,
  taken, ring, exited, reader, stopper, subs, calls, queue, conn, snap, shown, desktop,
  loop, image, lastDigest, unavailable, acked, stopped, wire, ackWire, page

Jobs == {"backup", "backup-2", "watch"}
Lookalike == [slot \in {<<"backup", 2>>} |-> "backup-2"]
OnceRow(chain) == [schedule |-> "once", parked |-> "not parked", chain |-> chain, elevated |-> FALSE]
StoredRows == [j \in Jobs |-> OnceRow(IF j = "backup" THEN {"backup-2"} ELSE {})]

Registry == INSTANCE JobsRegistry WITH
    Jobs <- Jobs, Types <- {"none", "once", "daily_times"}, Lookalike <- Lookalike,
    StoredRows <- StoredRows, MaxEvents <- 2, file <- s1, route <- s2, writers <- s3,
    tasks <- s4, synced <- s5, spent <- s6

Login == INSTANCE LoginLockout WITH
    Clients <- {"a", "b", "c", "pc"}, Pc <- {"pc"}, FreeAttempts <- 0, BaseDelay <- 1,
    MaxDelay <- 2, ForgetAfter <- 3, MaxClients <- 2, AlertAfter <- 2, AlertCooldown <- 2,
    MaxOpen <- 1, MaxWrong <- 3, MaxTime <- 4, clock <- s1, streaks <- s2, open <- s3,
    lastAlert <- s4, held <- s5, lockedUntil <- s6, untold <- s7, wrong <- s8

Passkey == INSTANCE PasskeyGate WITH
    ChallengeTtl <- 1, TokenTtl <- 2, WindowLength <- 2, MaxCeremonies <- 3, MaxTicks <- 2,
    now <- s1, enrollUntil <- s2, challenge <- s3, devices <- s4, tokens <- s5,
    issued <- s6, enrollments <- s7, earned <- s8

RecordFile == INSTANCE RunRecordFile WITH
    Writers <- {"executor", "kill"}, LockAttempts <- 2, stage <- s1, tries <- s2,
    holder <- s3, bare <- s4, merged <- s5, scratch <- s6, scratchOpen <- s7, record <- s8,
    watched <- s9, mirror <- s10, crossed <- s11

Plan == INSTANCE FirePlan WITH
    Day <- 3, Week <- 2, Today <- 10, WindowLength <- 8, Grace <- 1, Early <- 1,
    MaxRuns <- 1, Cap <- 4, MaxHistory <- 2, Pins <- 0, plan <- s1, began <- s2, ran <- s3,
    pinned <- s4, cursor <- s5, fires <- s6, misses <- s7, verdict <- s8

Cache == INSTANCE CoverageCache WITH
    Pollers <- {"p1", "p2"}, TaskTtl <- 1, CoverageTtl <- 1, MaxClock <- 3,
    monotonic <- s1, entry <- s2, rewriting <- s3, taskCache <- s4, coverageCache <- s5,
    poll <- s6, lastSeen <- s7

Alerts == INSTANCE CoverageAlerts WITH
    Repeat <- 2, MaxWall <- 3, MaxMissed <- 1, MaxLost <- 1, wall <- s1, broken <- s2,
    missed <- s3, alertState <- s4, lastPing <- s5, hasty <- s6, lost <- s7

Tray == INSTANCE WebappTray WITH
    FailuresToAlert <- 2, MaxSpawns <- 2, procs <- s1, byHand <- s2, own <- s3,
    thread <- s4, inMutex <- s5, bypassed <- s6, gaveUp <- s7, quit <- s8, unbound <- s9,
    failures <- s10, alerted <- s11

Session == INSTANCE SessionHost WITH
    Conns <- {"c1"}, MaxChunks <- 2, RingMax <- 1

AppRows == INSTANCE AppInstances WITH
    Apps <- {"app", "tray"}, Trays <- {"tray"}, Pids <- {1}, Tolerance <- 1,
    MaxSeconds <- 3, MaxProcesses <- 4, runs <- s1, instances <- s2, stops <- s3,
    seconds <- s4, started <- s5, unnoticed <- s6, excused <- s7, strays <- s8

Screen == INSTANCE ScreenStream WITH
    Contents <- {"desk", "film"}, MaxConnecting <- 2, MaxWire <- 3

Mirror == INSTANCE MirrorWindows WITH
    Sessions <- {"s1"}, MaxWindows <- 3, MaxRestarts <- 1, windows <- s1,
    mirrorHwnds <- s2, polling <- s3, clicks <- s4, session <- s5, hostUp <- s6,
    stopping <- s7, sweep <- s8, listed <- s9, restarts <- s10, rushed <- s11, swept <- s12

Input == INSTANCE TerminalInput WITH
    Senders <- {"phone", "board"}, Floor <- 1, Quiet <- 2, Cap <- 3, Chunks <- 1,
    sender <- s1, composer <- s2, ingesting <- s3, submitted <- s4, silence <- s5,
    agent <- s6, spoiled <- s7

Load == INSTANCE SystemLoad WITH
    Busy <- 8, Lulls <- {[from |-> 2, to |-> 4]}, MaxLate <- 1, TickSeconds <- 1,
    FirstWindow <- 1, DemandWindow <- 1, Sustain <- 2, Attention <- 7, Danger <- 9,
    MaxUptime <- 6, MaxFailures <- 1, uptime <- s1, lull <- s2, baseline <- s3,
    samples <- s4, ticking <- s5, undemanded <- s6, sampleError <- s7, raised <- s8

Roster == INSTANCE SessionRoster WITH
    Clicks <- {"phone", "window"}, Detached <- {"window"}, MaxTrouble <- 2, host <- s1,
    tray <- s2, click <- s3, work <- s4, procs <- s5, roster <- s6, reused <- s7,
    trouble <- s8

Agent(dir, launched, tells) == [dir |-> dir, launched |-> launched, tells |-> tells]
Cast ==
  [legacy |-> Agent("top", TRUE, FALSE), older |-> Agent("top", TRUE, FALSE),
   telling |-> Agent("top", TRUE, TRUE), byhand |-> Agent("sub", FALSE, FALSE)]

Board == INSTANCE BoardCards WITH
    Agents <- DOMAIN Cast, Cast <- Cast,
    Below <- [top |-> {"top", "sub"}, sub |-> {"sub"}], Activity <- 0, Stale <- 1,
    MaxTime <- 1, MaxRows <- 2, MaxAgents <- 2, MaxBetween <- 1, now <- s1, agents <- s2,
    listed <- s3, rows <- s4, written <- s5, poll <- s6

Usage == INSTANCE UsageTime WITH
    Pages <- {"tab", "pwa"}, Device <- [tab |-> "desktop", pwa |-> "phone"],
    Views <- {"jobs"}, FlushAfter <- 1, IdleGap <- 1, MaxInterval <- 3, Day <- 1,
    Days <- 3, MaxAge <- 9, Cap <- 4, MaxTime <- 3, MaxEvents <- 4, MaxLost <- 1,
    now <- s1, pages <- s2, rows <- s3, shownAt <- s4, starts <- s5, missing <- s6,
    spent <- s7

Stem == <<"tray", "tunnel", "tunnel">>
Says == <<{"tray_lifecycle.ps1"}, {"uvicorn"}, {"cloudflared"}>>
Slug == [root \in {"all", "hub"} |->
           IF root = "all" THEN <<"hub-tray", "hub-tunnel", "hub-tunnel">> ELSE <<"tray", "tunnel">>]

AppsFile == INSTANCE AppsRegistry WITH
    Bats <- 1 .. 3, Stem <- Stem, Says <- Says, Folder <- <<2, 1, 1>>,
    Roots <- {"all", "hub"}, Slug <- Slug, NewNames <- {3}, MaxRequests <- 3,
    MaxMoves <- 1, disk <- s1, root <- s2, rows <- s3, dialog <- s4, boot <- s5,
    saves <- s6, spent <- s7

Ports == INSTANCE PortListeners WITH
    Pids <- 1 .. 3, Own <- 9, Servers <- 1 .. 3, Ports <- 1 .. 4, Internal <- {4},
    Dirs <- {"hub", "unreadable"},
    Layouts <- {<<1, 2, 3, 1>>, <<1, 1, 2, 0>>, <<9, 1, 2, 3>>}, MaxSteps <- 1,
    procs <- s1, socket <- s2, conns <- s3, steps <- s4

Settings == INSTANCE Settings WITH
    Tokens <- {"deck", "all"}, Full <- {"all"}, Projects <- {"hub"}, MaxEdits <- 3,
    file <- s1, app <- s2, up <- s3, route <- s4, script <- s5, meant <- s6, issued <- s7,
    revoked <- s8, hand <- s9, misread <- s10, overlapped <- s11, edits <- s12

Link == INSTANCE TerminalLink WITH
    Phones <- {"p1", "p2"}, Mirrors <- {"pc"}, Sizes <- {1, 2}, MaxTurns <- 1,
    MaxDrops <- 1, alive <- s1, pty <- s2, shown <- s3, size <- s4, sent <- s5, up <- s6,
    owner <- s7, lost <- s8, turns <- s9, drops <- s10

Param(name, kind, required, default, to) ==
  [name |-> name, kind |-> kind, required |-> required, default |-> default, to |-> to]
Drafts == {
  <<Param("count", "int", TRUE, "none", "flag"), Param("deep", "bool", FALSE, "none", "flag")>>,
  <<Param("deep", "bool", FALSE, "true", "flag"), Param("count", "string", TRUE, "text", "place")>>,
  <<Param("count", "int", FALSE, "number", "env")>>,
  <<Param("count", "int", FALSE, "text", "flag")>>,
  <<Param("deep", "bool", FALSE, "none", "place")>>}
Given == {[count |-> "number"], [count |-> "text", deep |-> "true"], [count |-> "digits", deep |-> "true"]}
Payloads == {[count |-> "number", deep |-> "true"], [count |-> "none", deep |-> "text"]}

Params == INSTANCE RunParams WITH
    Drafts <- Drafts, Given <- Given, Payloads <- Payloads,
    Secrets <- {"old", "new", "no secret"}, MaxRuns <- 2, MaxEdits <- 1, row <- s1,
    fileSecret <- s2, appSecret <- s3, busy <- s4, runs <- s5, queue <- s6, spawned <- s7,
    edits <- s8

JobRow(kind, script, config, chain) ==
  [name |-> "job", kind |-> kind, script |-> script, config |-> config, args |-> "",
   cooldown |-> 0, silence |-> 0, chain |-> chain]
Suffix == [clean |-> ".py", run |-> ".bat", watch |-> ".sh"]
FoundRows == ("backup" :> JobRow("", "run", "", {})) @@ ("backup-2" :> [nothing |-> TRUE])
RowDrafts == {JobRow("", "clean", "", {}), JobRow("", "watch", "", {}), JobRow("http-check", "", "url", {"backup"})}
Patches == {
  [name |-> "spaces"], [chain |-> {"backup-2"}], [args |-> "cmd characters"], [silence |-> 600],
  [kind |-> "shell-wsl", script |-> "watch"], [script |-> "clean"],
  [kind |-> "inline-shell", script |-> "", config |-> ".sh body"],
  [kind |-> "inline-shell", script |-> "", config |-> ".bat body", cooldown |-> 0],
  [config |-> "url with a word for timeout"], [config |-> "url without scheme"], [kind |-> "http-check", script |-> ""]}

JobFile == INSTANCE JobRows WITH
    Jobs <- {"backup", "backup-2"}, Stored <- FoundRows, Drafts <- RowDrafts,
    Patches <- Patches, Suffix <- Suffix, MaxEdits <- 4, file <- s1, disk <- s2, wsl <- s3,
    meant <- s4, edits <- s5

History == INSTANCE RunHistory WITH
    Keeps <- {1, 3}, Cooldown <- 1, Streak <- 2, MaxRuns <- 3, MaxBusy <- <<2, 0, 1>>,
    MaxDry <- <<0, 0, 1>>, MaxTime <- 1, Pinnable <- <<{1}, {}, {}>>, clock <- s1,
    keep <- s2, runs <- s3, kept <- s4, rows <- s5, step <- s6, todo <- s7, admitted <- s8,
    pin <- s9, pins <- s10, told <- s11, calm <- s12, safe <- s13, crossed <- s14

Main == <<"main">>
Dom == <<"parts", "dom">>
Icon == <<"parts", "icon">>

Assets == INSTANCE StaticAssets WITH
    Hashed <- <<Icon, Dom, Main>>, Index <- {Main},
    Imports <- (Main :> {Dom}) @@ (Dom :> {<<"..", "main">>}) @@ (Icon :> {}),
    Icons <- (Main :> {}) @@ (Dom :> {Icon}) @@ (Icon :> {}), MaxEdits <- 2, MaxPages <- 3,
    disk <- s1, read <- s2, cache <- s3, page <- s4, edits <- s5, pages <- s6, dirty <- s7,
    reverted <- s8, drifted <- s9

Tree(file, rest, declares) == [host |-> file, rest |-> rest, declares |-> declares]
Trees == <<
  Tree("old", "old", {"host"}), Tree("new", "old", {"host"}), Tree("new", "new", {"host"}),
  Tree("old", "old", {"rest"}), Tree("old", "old", {})>>

Version == INSTANCE HostFreshness WITH
    Trees <- Trees, Trunk <- <<1, 2, 3>>, Pointers <- {"set", "gone"}, Attempts <- 2,
    MaxSwitches <- 1, MaxStarts <- 1, MaxTrouble <- 2, head <- s1, merged <- s2,
    pointer <- s3, host <- s4, ask <- s5, switches <- s6, starts <- s7, trouble <- s8

Exchange == INSTANCE BoardExchange WITH
    RuleGap <- 1, Boxes <- {0, 1, 2}, Tails <- {3, 8}, MaxRows <- 4, MaxPrompts <- 1,
    rows <- s1, box <- s2, prompts <- s3, logged <- s4, sending <- s5

Glass == INSTANCE ScreenMirror WITH
    Heights <- {1, 2}, Lines <- 2, MaxPrinted <- 3, MaxChunk <- 2, MaxResizes <- 1,
    mirror <- s1, page <- s2, phase <- s3, parsed <- s4, queue <- s5, twice <- s6,
    apart <- s7, printed <- s8, resizes <- s9

Gitlab == INSTANCE IssueCards WITH
    Issues <- 1 .. 2, GroupOf <- <<"fleet", "fleet">>, Groups <- {"fleet", ""},
    Meta <- {2}, Pages <- {"phone", "pc"}, Limit <- 1, Day <- 2, MaxTime <- 2,
    closedAt <- s1, changed <- s2, now <- s3, fetch <- s4, cache <- s5

Child == INSTANCE TrayChildren WITH
    MaxTrays <- 2, MaxTrouble <- 1, tray <- s1, trays <- s2, quitting <- s3,
    hostThread <- s4, tunnelThread <- s5, host <- s6, tunnel <- s7, tunnelProc <- s8,
    urlFile <- s9, trouble <- s10, ended <- s11, blind <- s12, late <- s13

Stream == INSTANCE RunStream WITH
    MaxBytes <- 6, LineEnds <- {2, 5}, TailBytes <- 3, size <- s1, running <- s2,
    status <- s3, byOthers <- s4, pc <- s5, heard <- s6, found <- s7, offset <- s8,
    first <- s9, page <- s10

Output == INSTANCE AgentOutput WITH

    Vocabularies <- {{"esc", "]colour", "?", "rgb", "st"}, {"esc", "]title", "text", "bel"}, {"esc", "]colour", "?", "text"}, {"esc", "[paste", "on", "off"}},
    MaxTokens <- 5, CarryMax <- 3, vocabulary <- s1, printed <- s2, unread <- s3,
    carry <- s4, passed <- s5, mode <- s6, modeCarry <- s7, titleBuffer <- s8, title <- s9

\* A variable the service has no use for.
Unused(s) == s = 0

SessionWaits == Session!Init /\ full = FALSE
ScreenWaits == Screen!Init /\ desktop = "desk"

Init ==
  \/ focus = "registry" /\ Registry!Init /\ SessionWaits /\ ScreenWaits /\ Unused(s7)
     /\ Unused(s8) /\ Unused(s9) /\ Unused(s10) /\ Unused(s11) /\ Unused(s12)
     /\ Unused(s13) /\ Unused(s14)
  \/ focus = "login" /\ Login!Init /\ SessionWaits /\ ScreenWaits /\ Unused(s9)
     /\ Unused(s10) /\ Unused(s11) /\ Unused(s12) /\ Unused(s13) /\ Unused(s14)
  \/ focus = "passkey" /\ Passkey!Init /\ SessionWaits /\ ScreenWaits /\ Unused(s9)
     /\ Unused(s10) /\ Unused(s11) /\ Unused(s12) /\ Unused(s13) /\ Unused(s14)
  \/ focus = "record" /\ RecordFile!Init /\ SessionWaits /\ ScreenWaits /\ Unused(s12)
     /\ Unused(s13) /\ Unused(s14)
  \/ focus = "plan" /\ Plan!Init /\ SessionWaits /\ ScreenWaits /\ Unused(s9)
     /\ Unused(s10) /\ Unused(s11) /\ Unused(s12) /\ Unused(s13) /\ Unused(s14)
  \/ focus = "coverage" /\ Cache!Init /\ SessionWaits /\ ScreenWaits /\ Unused(s8)
     /\ Unused(s9) /\ Unused(s10) /\ Unused(s11) /\ Unused(s12) /\ Unused(s13)
     /\ Unused(s14)
  \/ focus = "alerts" /\ Alerts!Init /\ SessionWaits /\ ScreenWaits /\ Unused(s8)
     /\ Unused(s9) /\ Unused(s10) /\ Unused(s11) /\ Unused(s12) /\ Unused(s13)
     /\ Unused(s14)
  \/ focus = "tray" /\ Tray!Init /\ SessionWaits /\ ScreenWaits /\ Unused(s12)
     /\ Unused(s13) /\ Unused(s14)
  \/ focus = "sessions" /\ Session!Init /\ ScreenWaits /\ Unused(s1) /\ Unused(s2)
     /\ Unused(s3) /\ Unused(s4) /\ Unused(s5) /\ Unused(s6) /\ Unused(s7) /\ Unused(s8)
     /\ Unused(s9) /\ Unused(s10) /\ Unused(s11) /\ Unused(s12) /\ Unused(s13)
     /\ Unused(s14)
  \/ focus = "apps" /\ AppRows!Init /\ SessionWaits /\ ScreenWaits /\ Unused(s9)
     /\ Unused(s10) /\ Unused(s11) /\ Unused(s12) /\ Unused(s13) /\ Unused(s14)
  \/ focus = "screen" /\ Screen!Init /\ desktop = "desk" /\ SessionWaits /\ Unused(s1)
     /\ Unused(s2) /\ Unused(s3) /\ Unused(s4) /\ Unused(s5) /\ Unused(s6) /\ Unused(s7)
     /\ Unused(s8) /\ Unused(s9) /\ Unused(s10) /\ Unused(s11) /\ Unused(s12)
     /\ Unused(s13) /\ Unused(s14)
  \/ focus = "mirrors" /\ Mirror!Init /\ SessionWaits /\ ScreenWaits /\ Unused(s13)
     /\ Unused(s14)
  \/ focus = "input" /\ Input!Init /\ SessionWaits /\ ScreenWaits /\ Unused(s8)
     /\ Unused(s9) /\ Unused(s10) /\ Unused(s11) /\ Unused(s12) /\ Unused(s13)
     /\ Unused(s14)
  \/ focus = "load" /\ Load!Init /\ SessionWaits /\ ScreenWaits /\ Unused(s9)
     /\ Unused(s10) /\ Unused(s11) /\ Unused(s12) /\ Unused(s13) /\ Unused(s14)
  \/ focus = "roster" /\ Roster!Init /\ SessionWaits /\ ScreenWaits /\ Unused(s9)
     /\ Unused(s10) /\ Unused(s11) /\ Unused(s12) /\ Unused(s13) /\ Unused(s14)
  \/ focus = "board" /\ Board!Init /\ SessionWaits /\ ScreenWaits /\ Unused(s7)
     /\ Unused(s8) /\ Unused(s9) /\ Unused(s10) /\ Unused(s11) /\ Unused(s12)
     /\ Unused(s13) /\ Unused(s14)
  \/ focus = "usage" /\ Usage!Init /\ SessionWaits /\ ScreenWaits /\ Unused(s8)
     /\ Unused(s9) /\ Unused(s10) /\ Unused(s11) /\ Unused(s12) /\ Unused(s13)
     /\ Unused(s14)
  \/ focus = "appsfile" /\ AppsFile!Init /\ SessionWaits /\ ScreenWaits /\ Unused(s8)
     /\ Unused(s9) /\ Unused(s10) /\ Unused(s11) /\ Unused(s12) /\ Unused(s13)
     /\ Unused(s14)
  \/ focus = "ports" /\ Ports!Init /\ SessionWaits /\ ScreenWaits /\ Unused(s5)
     /\ Unused(s6) /\ Unused(s7) /\ Unused(s8) /\ Unused(s9) /\ Unused(s10)
     /\ Unused(s11) /\ Unused(s12) /\ Unused(s13) /\ Unused(s14)
  \/ focus = "settings" /\ Settings!Init /\ SessionWaits /\ ScreenWaits /\ Unused(s13)
     /\ Unused(s14)
  \/ focus = "link" /\ Link!Init /\ SessionWaits /\ ScreenWaits /\ Unused(s11)
     /\ Unused(s12) /\ Unused(s13) /\ Unused(s14)
  \/ focus = "params" /\ Params!Init /\ SessionWaits /\ ScreenWaits /\ Unused(s9)
     /\ Unused(s10) /\ Unused(s11) /\ Unused(s12) /\ Unused(s13) /\ Unused(s14)
  \/ focus = "rows" /\ JobFile!Init /\ SessionWaits /\ ScreenWaits /\ Unused(s6)
     /\ Unused(s7) /\ Unused(s8) /\ Unused(s9) /\ Unused(s10) /\ Unused(s11)
     /\ Unused(s12) /\ Unused(s13) /\ Unused(s14)
  \/ focus = "history" /\ History!Init /\ SessionWaits /\ ScreenWaits
  \/ focus = "assets" /\ Assets!Init /\ SessionWaits /\ ScreenWaits /\ Unused(s10)
     /\ Unused(s11) /\ Unused(s12) /\ Unused(s13) /\ Unused(s14)
  \/ focus = "fresh" /\ Version!Init /\ SessionWaits /\ ScreenWaits /\ Unused(s9)
     /\ Unused(s10) /\ Unused(s11) /\ Unused(s12) /\ Unused(s13) /\ Unused(s14)
  \/ focus = "exchange" /\ Exchange!Init /\ SessionWaits /\ ScreenWaits /\ Unused(s6)
     /\ Unused(s7) /\ Unused(s8) /\ Unused(s9) /\ Unused(s10) /\ Unused(s11)
     /\ Unused(s12) /\ Unused(s13) /\ Unused(s14)
  \/ focus = "mirror" /\ Glass!Init /\ SessionWaits /\ ScreenWaits /\ Unused(s10)
     /\ Unused(s11) /\ Unused(s12) /\ Unused(s13) /\ Unused(s14)
  \/ focus = "issues" /\ Gitlab!Init /\ SessionWaits /\ ScreenWaits /\ Unused(s6)
     /\ Unused(s7) /\ Unused(s8) /\ Unused(s9) /\ Unused(s10) /\ Unused(s11)
     /\ Unused(s12) /\ Unused(s13) /\ Unused(s14)
  \/ focus = "children" /\ Child!Init /\ SessionWaits /\ ScreenWaits /\ Unused(s14)
  \/ focus = "stream" /\ Stream!Init /\ SessionWaits /\ ScreenWaits /\ Unused(s11)
     /\ Unused(s12) /\ Unused(s13) /\ Unused(s14)
  \/ focus = "output" /\ Output!Init /\ SessionWaits /\ ScreenWaits /\ Unused(s10)
     /\ Unused(s11) /\ Unused(s12) /\ Unused(s13) /\ Unused(s14)


RegistryStep == focus = "registry" /\ Registry!Next /\ UNCHANGED <<focus, full, known, pty, taken, ring, exited, reader, stopper, subs, calls, queue, conn, snap, shown, desktop, loop, image, lastDigest, unavailable, acked, stopped, wire, ackWire, page, s7, s8, s9, s10, s11, s12, s13, s14>>
LoginStep == focus = "login" /\ Login!Next /\ UNCHANGED <<focus, full, known, pty, taken, ring, exited, reader, stopper, subs, calls, queue, conn, snap, shown, desktop, loop, image, lastDigest, unavailable, acked, stopped, wire, ackWire, page, s9, s10, s11, s12, s13, s14>>
PasskeyStep == focus = "passkey" /\ Passkey!Next /\ UNCHANGED <<focus, full, known, pty, taken, ring, exited, reader, stopper, subs, calls, queue, conn, snap, shown, desktop, loop, image, lastDigest, unavailable, acked, stopped, wire, ackWire, page, s9, s10, s11, s12, s13, s14>>
RecordFileStep == focus = "record" /\ RecordFile!Next /\ UNCHANGED <<focus, full, known, pty, taken, ring, exited, reader, stopper, subs, calls, queue, conn, snap, shown, desktop, loop, image, lastDigest, unavailable, acked, stopped, wire, ackWire, page, s12, s13, s14>>
PlanStep == focus = "plan" /\ Plan!Next /\ UNCHANGED <<focus, full, known, pty, taken, ring, exited, reader, stopper, subs, calls, queue, conn, snap, shown, desktop, loop, image, lastDigest, unavailable, acked, stopped, wire, ackWire, page, s9, s10, s11, s12, s13, s14>>
CacheStep == focus = "coverage" /\ Cache!Next /\ UNCHANGED <<focus, full, known, pty, taken, ring, exited, reader, stopper, subs, calls, queue, conn, snap, shown, desktop, loop, image, lastDigest, unavailable, acked, stopped, wire, ackWire, page, s8, s9, s10, s11, s12, s13, s14>>
AlertsStep == focus = "alerts" /\ Alerts!Next /\ UNCHANGED <<focus, full, known, pty, taken, ring, exited, reader, stopper, subs, calls, queue, conn, snap, shown, desktop, loop, image, lastDigest, unavailable, acked, stopped, wire, ackWire, page, s8, s9, s10, s11, s12, s13, s14>>
TrayStep == focus = "tray" /\ Tray!Next /\ UNCHANGED <<focus, full, known, pty, taken, ring, exited, reader, stopper, subs, calls, queue, conn, snap, shown, desktop, loop, image, lastDigest, unavailable, acked, stopped, wire, ackWire, page, s12, s13, s14>>
SessionStep == focus = "sessions" /\ Session!Next /\ UNCHANGED <<focus, desktop, loop, image, lastDigest, unavailable, acked, stopped, wire, ackWire, page, s1, s2, s3, s4, s5, s6, s7, s8, s9, s10, s11, s12, s13, s14>>
AppRowsStep == focus = "apps" /\ AppRows!Next /\ UNCHANGED <<focus, full, known, pty, taken, ring, exited, reader, stopper, subs, calls, queue, conn, snap, shown, desktop, loop, image, lastDigest, unavailable, acked, stopped, wire, ackWire, page, s9, s10, s11, s12, s13, s14>>
ScreenStep == focus = "screen" /\ Screen!Next /\ UNCHANGED <<focus, full, known, pty, taken, ring, exited, reader, stopper, subs, calls, queue, conn, snap, shown, s1, s2, s3, s4, s5, s6, s7, s8, s9, s10, s11, s12, s13, s14>>
MirrorStep == focus = "mirrors" /\ Mirror!Next /\ UNCHANGED <<focus, full, known, pty, taken, ring, exited, reader, stopper, subs, calls, queue, conn, snap, shown, desktop, loop, image, lastDigest, unavailable, acked, stopped, wire, ackWire, page, s13, s14>>
InputStep == focus = "input" /\ Input!Next /\ UNCHANGED <<focus, full, known, pty, taken, ring, exited, reader, stopper, subs, calls, queue, conn, snap, shown, desktop, loop, image, lastDigest, unavailable, acked, stopped, wire, ackWire, page, s8, s9, s10, s11, s12, s13, s14>>
LoadStep == focus = "load" /\ Load!Next /\ UNCHANGED <<focus, full, known, pty, taken, ring, exited, reader, stopper, subs, calls, queue, conn, snap, shown, desktop, loop, image, lastDigest, unavailable, acked, stopped, wire, ackWire, page, s9, s10, s11, s12, s13, s14>>
RosterStep == focus = "roster" /\ Roster!Next /\ UNCHANGED <<focus, full, known, pty, taken, ring, exited, reader, stopper, subs, calls, queue, conn, snap, shown, desktop, loop, image, lastDigest, unavailable, acked, stopped, wire, ackWire, page, s9, s10, s11, s12, s13, s14>>
BoardStep == focus = "board" /\ Board!Next /\ UNCHANGED <<focus, full, known, pty, taken, ring, exited, reader, stopper, subs, calls, queue, conn, snap, shown, desktop, loop, image, lastDigest, unavailable, acked, stopped, wire, ackWire, page, s7, s8, s9, s10, s11, s12, s13, s14>>
UsageStep == focus = "usage" /\ Usage!Next /\ UNCHANGED <<focus, full, known, pty, taken, ring, exited, reader, stopper, subs, calls, queue, conn, snap, shown, desktop, loop, image, lastDigest, unavailable, acked, stopped, wire, ackWire, page, s8, s9, s10, s11, s12, s13, s14>>
AppsFileStep == focus = "appsfile" /\ AppsFile!Next /\ UNCHANGED <<focus, full, known, pty, taken, ring, exited, reader, stopper, subs, calls, queue, conn, snap, shown, desktop, loop, image, lastDigest, unavailable, acked, stopped, wire, ackWire, page, s8, s9, s10, s11, s12, s13, s14>>
PortsStep == focus = "ports" /\ Ports!Next /\ UNCHANGED <<focus, full, known, pty, taken, ring, exited, reader, stopper, subs, calls, queue, conn, snap, shown, desktop, loop, image, lastDigest, unavailable, acked, stopped, wire, ackWire, page, s5, s6, s7, s8, s9, s10, s11, s12, s13, s14>>
SettingsStep == focus = "settings" /\ Settings!Next /\ UNCHANGED <<focus, full, known, pty, taken, ring, exited, reader, stopper, subs, calls, queue, conn, snap, shown, desktop, loop, image, lastDigest, unavailable, acked, stopped, wire, ackWire, page, s13, s14>>
LinkStep == focus = "link" /\ Link!Next /\ UNCHANGED <<focus, full, known, pty, taken, ring, exited, reader, stopper, subs, calls, queue, conn, snap, shown, desktop, loop, image, lastDigest, unavailable, acked, stopped, wire, ackWire, page, s11, s12, s13, s14>>
ParamsStep == focus = "params" /\ Params!Next /\ UNCHANGED <<focus, full, known, pty, taken, ring, exited, reader, stopper, subs, calls, queue, conn, snap, shown, desktop, loop, image, lastDigest, unavailable, acked, stopped, wire, ackWire, page, s9, s10, s11, s12, s13, s14>>
JobFileStep == focus = "rows" /\ JobFile!Next /\ UNCHANGED <<focus, full, known, pty, taken, ring, exited, reader, stopper, subs, calls, queue, conn, snap, shown, desktop, loop, image, lastDigest, unavailable, acked, stopped, wire, ackWire, page, s6, s7, s8, s9, s10, s11, s12, s13, s14>>
HistoryStep == focus = "history" /\ History!Next /\ UNCHANGED <<focus, full, known, pty, taken, ring, exited, reader, stopper, subs, calls, queue, conn, snap, shown, desktop, loop, image, lastDigest, unavailable, acked, stopped, wire, ackWire, page>>
AssetsStep == focus = "assets" /\ Assets!Next /\ UNCHANGED <<focus, full, known, pty, taken, ring, exited, reader, stopper, subs, calls, queue, conn, snap, shown, desktop, loop, image, lastDigest, unavailable, acked, stopped, wire, ackWire, page, s10, s11, s12, s13, s14>>
VersionStep == focus = "fresh" /\ Version!Next /\ UNCHANGED <<focus, full, known, pty, taken, ring, exited, reader, stopper, subs, calls, queue, conn, snap, shown, desktop, loop, image, lastDigest, unavailable, acked, stopped, wire, ackWire, page, s9, s10, s11, s12, s13, s14>>
ExchangeStep == focus = "exchange" /\ Exchange!Next /\ UNCHANGED <<focus, full, known, pty, taken, ring, exited, reader, stopper, subs, calls, queue, conn, snap, shown, desktop, loop, image, lastDigest, unavailable, acked, stopped, wire, ackWire, page, s6, s7, s8, s9, s10, s11, s12, s13, s14>>
GlassStep == focus = "mirror" /\ Glass!Next /\ UNCHANGED <<focus, full, known, pty, taken, ring, exited, reader, stopper, subs, calls, queue, conn, snap, shown, desktop, loop, image, lastDigest, unavailable, acked, stopped, wire, ackWire, page, s10, s11, s12, s13, s14>>
GitlabStep == focus = "issues" /\ Gitlab!Next /\ UNCHANGED <<focus, full, known, pty, taken, ring, exited, reader, stopper, subs, calls, queue, conn, snap, shown, desktop, loop, image, lastDigest, unavailable, acked, stopped, wire, ackWire, page, s6, s7, s8, s9, s10, s11, s12, s13, s14>>
ChildStep == focus = "children" /\ Child!Next /\ UNCHANGED <<focus, full, known, pty, taken, ring, exited, reader, stopper, subs, calls, queue, conn, snap, shown, desktop, loop, image, lastDigest, unavailable, acked, stopped, wire, ackWire, page, s14>>
StreamStep == focus = "stream" /\ Stream!Next /\ UNCHANGED <<focus, full, known, pty, taken, ring, exited, reader, stopper, subs, calls, queue, conn, snap, shown, desktop, loop, image, lastDigest, unavailable, acked, stopped, wire, ackWire, page, s11, s12, s13, s14>>
OutputStep == focus = "output" /\ Output!Next /\ UNCHANGED <<focus, full, known, pty, taken, ring, exited, reader, stopper, subs, calls, queue, conn, snap, shown, desktop, loop, image, lastDigest, unavailable, acked, stopped, wire, ackWire, page, s10, s11, s12, s13, s14>>

Next ==
  \/ RegistryStep
  \/ LoginStep
  \/ PasskeyStep
  \/ RecordFileStep
  \/ PlanStep
  \/ CacheStep
  \/ AlertsStep
  \/ TrayStep
  \/ SessionStep
  \/ AppRowsStep
  \/ ScreenStep
  \/ MirrorStep
  \/ InputStep
  \/ LoadStep
  \/ RosterStep
  \/ BoardStep
  \/ UsageStep
  \/ AppsFileStep
  \/ PortsStep
  \/ SettingsStep
  \/ LinkStep
  \/ ParamsStep
  \/ JobFileStep
  \/ HistoryStep
  \/ AssetsStep
  \/ VersionStep
  \/ ExchangeStep
  \/ GlassStep
  \/ GitlabStep
  \/ ChildStep
  \/ StreamStep
  \/ OutputStep

vars == <<focus, s1, s2, s3, s4, s5, s6, s7, s8, s9, s10, s11, s12, s13, s14, full, known, pty, taken, ring, exited, reader, stopper, subs, calls, queue, conn, snap, shown, desktop, loop, image, lastDigest, unavailable, acked, stopped, wire, ackWire, page>>

Fairness ==
  /\ WF_vars(focus = "sessions" /\ Session!ReaderStep /\ UNCHANGED <<focus, desktop, loop, image, lastDigest, unavailable, acked, stopped, wire, ackWire, page, s1, s2, s3, s4, s5, s6, s7, s8, s9, s10, s11, s12, s13, s14>>)
  /\ WF_vars(focus = "sessions" /\ Session!LoopCall /\ UNCHANGED <<focus, desktop, loop, image, lastDigest, unavailable, acked, stopped, wire, ackWire, page, s1, s2, s3, s4, s5, s6, s7, s8, s9, s10, s11, s12, s13, s14>>)
  /\ WF_vars(focus = "sessions" /\ Session!StopStep /\ UNCHANGED <<focus, desktop, loop, image, lastDigest, unavailable, acked, stopped, wire, ackWire, page, s1, s2, s3, s4, s5, s6, s7, s8, s9, s10, s11, s12, s13, s14>>)
  /\ WF_vars(focus = "sessions" /\ Session!ConnStep("c1") /\ UNCHANGED <<focus, desktop, loop, image, lastDigest, unavailable, acked, stopped, wire, ackWire, page, s1, s2, s3, s4, s5, s6, s7, s8, s9, s10, s11, s12, s13, s14>>)
  /\ WF_vars(focus = "screen" /\ Screen!StreamStep /\ UNCHANGED <<focus, full, known, pty, taken, ring, exited, reader, stopper, subs, calls, queue, conn, snap, shown, s1, s2, s3, s4, s5, s6, s7, s8, s9, s10, s11, s12, s13, s14>>)
  /\ WF_vars(focus = "screen" /\ Screen!ReadAck /\ UNCHANGED <<focus, full, known, pty, taken, ring, exited, reader, stopper, subs, calls, queue, conn, snap, shown, s1, s2, s3, s4, s5, s6, s7, s8, s9, s10, s11, s12, s13, s14>>)
  /\ WF_vars(focus = "screen" /\ Screen!PageStep /\ UNCHANGED <<focus, full, known, pty, taken, ring, exited, reader, stopper, subs, calls, queue, conn, snap, shown, s1, s2, s3, s4, s5, s6, s7, s8, s9, s10, s11, s12, s13, s14>>)
  /\ WF_vars(focus = "screen" /\ Screen!Connected /\ UNCHANGED <<focus, full, known, pty, taken, ring, exited, reader, stopper, subs, calls, queue, conn, snap, shown, s1, s2, s3, s4, s5, s6, s7, s8, s9, s10, s11, s12, s13, s14>>)

Spec == Init /\ [][Next]_vars /\ Fairness

\* The types of every service.
TypeOK ==
  /\ focus = "registry" => Registry!TypeOK
  /\ focus = "login" => Login!TypeOK
  /\ focus = "passkey" => Passkey!TypeOK
  /\ focus = "record" => RecordFile!TypeOK
  /\ focus = "plan" => Plan!TypeOK
  /\ focus = "coverage" => Cache!TypeOK
  /\ focus = "alerts" => Alerts!TypeOK
  /\ focus = "tray" => Tray!TypeOK
  /\ focus = "sessions" => Session!TypeOK
  /\ focus = "apps" => AppRows!TypeOK
  /\ focus = "screen" => Screen!TypeOK
  /\ focus = "mirrors" => Mirror!TypeOK
  /\ focus = "input" => Input!TypeOK
  /\ focus = "load" => Load!TypeOK
  /\ focus = "roster" => Roster!TypeOK
  /\ focus = "board" => Board!TypeOK
  /\ focus = "usage" => Usage!TypeOK
  /\ focus = "appsfile" => AppsFile!TypeOK
  /\ focus = "ports" => Ports!TypeOK
  /\ focus = "settings" => Settings!TypeOK
  /\ focus = "link" => Link!TypeOK
  /\ focus = "params" => Params!TypeOK
  /\ focus = "rows" => JobFile!TypeOK
  /\ focus = "history" => History!TypeOK
  /\ focus = "assets" => Assets!TypeOK
  /\ focus = "fresh" => Version!TypeOK
  /\ focus = "exchange" => Exchange!TypeOK
  /\ focus = "mirror" => Glass!TypeOK
  /\ focus = "issues" => Gitlab!TypeOK
  /\ focus = "children" => Child!TypeOK
  /\ focus = "stream" => Stream!TypeOK
  /\ focus = "output" => Output!TypeOK

-----------------------------------------------------------------------------
\* What the run checks: stated and explained in the module of each service.

\* The jobs file, the tasks the Task Scheduler holds for it, the rows a reload keeps and
\* the parameter values a run is given agree, whatever edits, fires and reloads interleave.
RegistrySound ==
  /\ focus = "registry" => Registry!ChainsSound
  /\ focus = "registry" => Registry!TasksFollowFile
  /\ focus = "params" => Params!ParamsHonest
  /\ focus = "rows" => JobFile!RowsKept

\* A lockout holds for as long as it was set and every streak of failures is told, a passkey
\* challenge is good once and for its own ceremony, an edit of the settings stays in the file
\* and a revoked token stays out.
AccessEarned ==
  /\ focus = "login" => Login!LockoutSound
  /\ focus = "passkey" => Passkey!EachUseEarned
  /\ focus = "settings" => Settings!SettingsSound

\* Pinned runs, cooldown anchors, streaks and search rows follow the run directories, and a
\* page that follows a run's output gets it whole and in order.
HistoryTrue ==
  /\ focus = "history" => History!HistorySound
  /\ focus = "stream" => Stream!StreamTrue

\* A coverage answer is no older than its lifetimes allow, and an alert is sent once per miss
\* and again only after the repeat time.
CoverageHonest ==
  /\ focus = "coverage" => Cache!ServedRecent
  /\ focus = "alerts" => Alerts!PingsSpaced

\* Restarts and exits of the tray leave no second or unowned webapp, tunnel, session host
\* or published address.
TraySound ==
  /\ focus = "tray" => Tray!NoStray
  /\ focus = "children" => Child!ChildrenTrue

\* A row of the apps tab stands for the process that was started, the registry finds each
\* launcher once, and each listening port is shown under the process that owns it.
AppsSound ==
  /\ focus = "apps" => AppRows!AppsAccounted
  /\ focus = "appsfile" => AppsFile!RowsSound
  /\ focus = "ports" => Ports!ListenersFound

\* A session has one mirror window and the sweep spares it while it lives; the PTY has the
\* size of the page that set it, and a page says the session has ended only when it has.
WindowsSound ==
  /\ focus = "mirrors" => Mirror!MirrorsKept
  /\ focus = "link" => Link!LinkSound

\* What is typed is run as one prompt, what the agent prints reaches a page as a terminal
\* would show it, and the list of sessions follows the sessions there are.
TerminalTrue ==
  /\ focus = "input" => Input!DeliveredIsRun
  /\ focus = "roster" => Roster!RosterSound
  /\ focus = "mirror" => Glass!MirrorTrue
  /\ focus = "output" => Output!OutputTrue

\* Each card of the board is the agent's whose card it is, shows the exchange that took
\* place, and follows the issues of the group on show.
BoardSound ==
  /\ focus = "board" => Board!BoardTrue
  /\ focus = "exchange" => Exchange!ExchangeTrue
  /\ focus = "issues" => Gitlab!IssuesTrue

\* A load warning is given for load there was, and the minutes of use are those some page
\* was open.
MeasuresTrue ==
  /\ focus = "load" => Load!LoadHonest
  /\ focus = "usage" => Usage!MinutesTrue

\* No page mixes assets of two versions without noticing, and the freshness line tells what
\* differs between the code that runs and the code on disk.
VersionsHonest ==
  /\ focus = "assets" => Assets!AssetsFresh
  /\ focus = "fresh" => Version!FreshnessHonest

\* _json_io.py, history.py: writers of a run record lose nothing of one another while the lock holds.
RecordSound == focus = "record" => RecordFile!RecordSound

\* coverage.py: the walk meets each fire of its window once, in order, up to its cap.
WalkExact == focus = "plan" => Plan!WalkExact

\* coverage.py: a fire called missed was due under the schedule of now, and no run ever started near it.
NoFalseMiss == focus = "plan" => Plan!NoFalseMiss

\* session_host.py: a connection is closed once its agent has ended, whenever it subscribed.
EveryConnectionEnds == focus = "sessions" => Session!EveryConnectionEnds

\* session_host.py: a stop that terminates ends the session, whatever the agent does.
StopEndsSession == focus = "sessions" => Session!StopEndsSession

\* desktop_capture.py: once the desktop stays as it is, each connected page comes to show it.
ScreenCatchesUp == focus = "screen" => Screen!ScreenCatchesUp

\* docs/jobs-tab.md: a dry run never resets the cooldown of its job.  Not so, see History_dry.cfg.
DryRunsDoNotCool == focus = "history" => History!DryRunsDoNotCool

=============================================================================
