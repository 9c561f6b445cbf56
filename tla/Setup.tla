------------------------------- MODULE Setup -------------------------------
(***************************************************************************)
(* The installer: setup/auto.ts takes the operator through a fixed list of *)
(* steps, each a child process that reports success, skipped or failed.  A *)
(* failed step ends in fail() (setup/lib/runner.ts), which offers a fix by *)
(* Claude and, when one was run, starts the installer again with the steps *)
(* completed so far in NANOCLAW_SKIP.  The channel step runs the flow of   *)
(* one messaging app (setup/channels/<app>.ts): prompts, a check of the    *)
(* token, the script that installs the adapter, the link to the account    *)
(* and scripts/init-first-agent.ts, which wires the chat to the agent.     *)
(*                                                                         *)
(* Some flows call fail() without awaiting it: the flow then goes on while *)
(* the failure is still asking its questions.                              *)
(***************************************************************************)
EXTENDS Naturals, Sequences

CONSTANTS
  MaxRuns,      \* bound: processes of the installer, the first included
  MaxFaults     \* bound: steps that fail although nothing is in their way

ASSUME SetupAssumption == MaxRuns \in Nat \ {0} /\ MaxFaults \in Nat

VARIABLES
  todo,         \* the steps ahead of the running process
  channel,      \* the messaging app whose flow is running, or "none"
  skip,         \* the steps the process leaves out
  carried,      \* NANOCLAW_SKIP of the process
  completed,    \* the steps that logged success or skipped in this process
  pending,      \* failures nobody awaits: the step and what was ahead of it
  mode,         \* what the process is doing
  reused,       \* the operator took over the values of .env
  underSg,      \* the process was started again under `sg docker`
  facts,        \* main steps whose effect is on the machine
  adapter,      \* how far each adapter's installation got
  creds, linked, wired,  \* apps with credentials in .env, an account, a chat
  broken,       \* (history) apps whose installation broke off after copying
  runs, faults

ahead    == <<todo, channel>>
process  == <<skip, carried, completed, reused, underSg>>
machine  == <<facts, adapter, creds, linked, wired, broken>>
setupVars == <<ahead, process, pending, mode, machine, runs, faults>>

-----------------------------------------------------------------------------
(* The flows of the messaging apps.                                        *)

Step(kind, name)  == [kind |-> kind, name |-> name, awaited |-> TRUE]
Loose(kind, name) == [kind |-> kind, name |-> name, awaited |-> FALSE]

OperatorRole == Step("ask", "role")
AgentName    == Step("ask", "agent-name")
FirstAgent   == Step("init", "init-first-agent")

TelegramToken    == Step("ask", "telegram-token")
TelegramValidate == Step("check", "telegram-validate")
\* The slip: the failure of the pairing is not awaited.
TelegramPairLoose == Loose("link", "pair-telegram")
TelegramPair     == Step("link", "pair-telegram")
TelegramFlow ==
  <<TelegramToken, TelegramValidate, Step("install", "telegram-install"),
    TelegramPair, OperatorRole, AgentName, FirstAgent>>

DiscordBot      == Step("ask", "discord-bot")
DiscordToken    == Step("ask", "discord-token")
DiscordValidate == Step("check", "discord-validate")
DiscordAppInfo  == Step("check", "discord-app-info")
DiscordOwner    == Step("ask", "discord-owner")
DiscordInvite   == Step("ask", "discord-invite")
DiscordOpenDm   == Step("check", "discord-open-dm")
DiscordFlow ==
  <<DiscordBot, DiscordToken, DiscordValidate, DiscordAppInfo, DiscordOwner,
    DiscordInvite, Step("install", "discord-install"), DiscordOpenDm,
    OperatorRole, AgentName, FirstAgent>>

SlackApp      == Step("ask", "slack-app")
SlackToken    == Step("ask", "slack-token")
SlackSecret   == Step("ask", "slack-secret")
SlackValidate == Step("check", "slack-validate")
SlackUser     == Step("ask", "slack-user")
SlackOpenDm   == Step("check", "slack-open-dm")
SlackFlow ==
  <<SlackApp, SlackToken, SlackSecret, SlackValidate,
    Step("install", "slack-install"), SlackUser, SlackOpenDm,
    OperatorRole, AgentName, FirstAgent>>

IMessageAccess == Step("ask", "imessage-access")   \* Full Disk Access, local mode
IMessageCreds  == Step("ask", "imessage-creds")    \* the Photon server, remote mode
IMessageHandle == Step("ask", "imessage-handle")
IMessageFlow(source) ==
  <<source, IMessageHandle, Step("install", "imessage-install"),
    OperatorRole, AgentName, FirstAgent>>

SignalCli     == Step("check", "signal-install")   \* signal-cli is on the path
SignalAuth    == Step("link", "signal-auth")
SignalAccount == Step("account", "signal-restart") \* written to .env, then a restart
SignalFlow ==
  <<SignalCli, Step("install", "signal-install"), SignalAuth, SignalAccount,
    OperatorRole, AgentName, FirstAgent>>

\* The whole flow fails without await.
WhatsAppMethod  == Step("ask", "whatsapp-method")
WhatsAppPhone   == Step("ask", "whatsapp-phone")
WhatsAppAuth    == Loose("link", "whatsapp-auth")
WhatsAppRestart == Step("ask", "whatsapp-restart")
WhatsAppChat    == Step("account", "whatsapp-chat") \* a number of its own goes to .env
WhatsAppFlow(method) ==
  method \o <<Loose("install", "whatsapp-install"), WhatsAppAuth, WhatsAppRestart,
    WhatsAppChat, OperatorRole, AgentName, Loose("init", "init-first-agent")>>

\* Every gate of the Teams flow offers help, or the instructions again, and
\* comes back to the same question.
TeamsPrereqs  == Step("ask", "teams-prereqs")
TeamsUrl      == Step("ask", "teams-public-url")
TeamsApp      == Step("ask", "teams-app-registration")
TeamsSecret   == Step("ask", "teams-client-secret")
TeamsBot      == Step("ask", "teams-azure-bot")
TeamsEnable   == Step("ask", "teams-enable-channel")
TeamsManifest == Step("package", "teams-manifest")
TeamsSideload == Step("ask", "teams-sideload")
TeamsInstall  == Loose("install", "teams-install")
TeamsFinish   == Step("ask", "teams-finish-wiring")
TeamsFlow ==
  <<TeamsPrereqs, TeamsUrl, TeamsApp, TeamsSecret, TeamsBot, TeamsEnable,
    TeamsManifest, TeamsSideload, TeamsInstall, TeamsFinish>>
TeamsReuse == <<TeamsInstall, TeamsFinish>>

Flows ==
  [telegram |-> {TelegramFlow},
   discord  |-> {DiscordFlow},
   slack    |-> {SlackFlow},
   imessage |-> {IMessageFlow(IMessageAccess), IMessageFlow(IMessageCreds)},
   signal   |-> {SignalFlow},
   whatsapp |-> {WhatsAppFlow(<<WhatsAppMethod>>),
                 WhatsAppFlow(<<WhatsAppMethod, WhatsAppPhone>>)},
   teams    |-> {TeamsFlow} \cup
                (IF reused /\ "teams" \in creds THEN {TeamsReuse} ELSE {})]

Channels  == DOMAIN Flows
Linking   == {"telegram", "signal", "whatsapp"}  \* apps with an account to link
ByScript  == Channels \ {"signal", "whatsapp"}   \* the install script writes .env
LooseApps == {"whatsapp", "teams"}

-----------------------------------------------------------------------------
(* The main list of steps.                                                 *)

Main(name) == Step("main", name)
MainSteps ==
  <<Main("environment"), Main("existing"), Main("container"), Main("onecli"),
    Main("auth"), Main("mounts"), Main("service"), Main("cli-agent"),
    Main("timezone"), Main("channel"), Main("verify")>>

\* The main steps that leave something on the machine.
Lasting == {"container", "onecli", "auth", "mounts", "service", "cli-agent", "timezone"}

Running(name) == mode = "run" /\ todo # <<>> /\ Head(todo).name = name
RunsKind(kind) == mode = "run" /\ todo # <<>> /\ Head(todo).kind = kind
Passed == todo' = Tail(todo) /\ UNCHANGED channel
\* What logs.ts remembers of a step that was logged; the slip: whatever its status.
LoggedAnyway(name, ok) == completed \cup {name}
Logged(name, ok) == IF ok THEN completed \cup {name} ELSE completed
Log(name, ok) == completed' = Logged(name, ok) /\ UNCHANGED <<skip, carried, reused, underSg>>

\* fail(): its caller waits for it, or goes on as if nothing had happened.
Fails(step) ==
  IF step.awaited
    THEN mode' = "failing" /\ UNCHANGED <<ahead, pending>>
    ELSE /\ pending' = pending \cup {[step |-> step.name, ahead |-> Len(Tail(todo))]}
         /\ Passed /\ UNCHANGED mode
Goes == Passed /\ UNCHANGED <<pending, mode>>
Faulty == faults < MaxFaults /\ faults' = faults + 1

Begin(names, inSg) ==
  /\ runs < MaxRuns /\ runs' = runs + 1
  /\ todo' = MainSteps /\ channel' = "none"
  /\ carried' = names /\ skip' = names /\ completed' = {} /\ pending' = {}
  /\ underSg' = inSg /\ mode' = "run"
  /\ UNCHANGED <<machine, faults>>
Exits == mode' = "over" /\ pending' = {} /\ UNCHANGED <<ahead, process>>

\* A prompt: answered, or cancelled, which ends the process.
Asks ==
  /\ RunsKind("ask")
  /\ \/ Goes /\ UNCHANGED process
     \/ Exits
  /\ UNCHANGED <<machine, runs, faults>>

\* A main step named in NANOCLAW_SKIP, or taken over from .env, is left out.
LeavesOut ==
  /\ RunsKind("main") /\ Head(todo).name \in skip
  /\ Goes /\ UNCHANGED <<process, machine, runs, faults>>

\* The environment check; a failure of it aborts.
Environment ==
  /\ Running("environment") /\ "environment" \notin skip
  /\ \/ Goes /\ Log("environment", TRUE) /\ UNCHANGED faults
     \/ Faulty /\ Fails(Head(todo)) /\ Log("environment", FALSE)
  /\ UNCHANGED <<machine, runs>>

Registered == "cli-agent" \in facts \/ wired # {}
EnvFound == creds # {} \/ "onecli" \in facts
\* An .env with known values may be taken over: its vault and the agents of
\* the database then count as set up.
TakenOver == (IF "onecli" \in facts THEN {"onecli"} ELSE {}) \cup
             (IF Registered THEN {"cli-agent", "first-chat"} ELSE {})
ExistingEnv ==
  /\ Running("existing")
  /\ \/ Goes /\ UNCHANGED process                        \* no .env, or start afresh
     \/ /\ EnvFound /\ Goes
        /\ skip' = skip \cup TakenOver /\ reused' = TRUE
        /\ UNCHANGED <<carried, completed, underSg>>
     \/ EnvFound /\ Exits
  /\ UNCHANGED <<machine, runs, faults>>

\* A main step that runs as one child process with one effect.
Sets(name) ==
  /\ Running(name) /\ name \notin skip
  /\ \/ /\ facts' = facts \cup {name}
        /\ Goes /\ Log(name, TRUE) /\ UNCHANGED faults
     \/ Faulty /\ Fails(Head(todo)) /\ Log(name, FALSE) /\ UNCHANGED facts
  /\ UNCHANGED <<adapter, creds, linked, wired, broken, runs>>

Container == Sets("container")
Onecli    == Sets("onecli")
Mounts    == Sets("mounts")
CliAgent  == Sets("cli-agent")

\* After the image is built the driver may find the Docker socket closed to
\* its group, and starts itself again under sg, once.
ReexecUnderSg ==
  /\ Running("onecli") /\ "container" \in completed /\ ~underSg
  /\ Begin(carried, TRUE) /\ UNCHANGED reused

\* A secret in the vault is enough; a sign-in is logged as interactive, which
\* does not count as completed, a pasted token does.
Auth ==
  /\ Running("auth") /\ "auth" \notin skip
  /\ \/ /\ "auth" \in facts
        /\ Goes /\ Log("auth", TRUE) /\ UNCHANGED <<facts, faults>>
     \/ /\ "auth" \notin facts /\ facts' = facts \cup {"auth"}
        /\ Goes /\ \E pasted \in BOOLEAN : Log("auth", pasted)
        /\ UNCHANGED faults
     \/ /\ "auth" \notin facts /\ Exits /\ UNCHANGED <<facts, faults>>
     \/ /\ "auth" \notin facts
        /\ Faulty /\ Fails(Head(todo)) /\ Log("auth", FALSE) /\ UNCHANGED facts
  /\ UNCHANGED <<adapter, creds, linked, wired, broken, runs>>

\* The build of the checkout: it fails while an adapter's package is missing,
\* and compiles every adapter that is in place.
Builds == \A c \in Channels : adapter[c] # "copied"
Compiled(a) == [c \in Channels |-> IF a[c] = "packaged" THEN "built" ELSE a[c]]

\* Build, stop unhealthy peers, write and load the unit; a unit that does not
\* load is reported as a success all the same.
Service ==
  /\ Running("service") /\ "service" \notin skip
  /\ \/ /\ Builds /\ adapter' = Compiled(adapter)
        /\ facts' = facts \cup {"service"}
        /\ Goes /\ Log("service", TRUE) /\ UNCHANGED faults
     \/ /\ IF Builds THEN Faulty ELSE UNCHANGED faults
        /\ Fails(Head(todo)) /\ Log("service", FALSE) /\ UNCHANGED <<facts, adapter>>
  /\ UNCHANGED <<creds, linked, wired, broken, runs>>

\* The timezone: detected and saved, then confirmed; when none is detected, or
\* the operator says otherwise, asked for and saved by a second run.
Timezone ==
  /\ Running("timezone") /\ "timezone" \notin skip
  /\ \/ /\ facts' = facts \cup {"timezone"} /\ Log("timezone", TRUE)
        /\ todo' \in {Tail(todo), <<Step("zone", "zone")>> \o Tail(todo)}
     \/ /\ Log("timezone", FALSE)                        \* NEEDS_USER_INPUT
        /\ \/ todo' = Tail(todo) /\ facts' = facts \cup {"timezone"}
           \/ todo' = <<Step("zone", "zone")>> \o Tail(todo) /\ UNCHANGED facts
  /\ UNCHANGED <<channel, pending, mode, adapter, creds, linked, wired, broken, runs, faults>>
Zone ==
  /\ RunsKind("zone")
  /\ \/ facts' = facts \cup {"timezone"} /\ Goes /\ Log("timezone", TRUE) /\ UNCHANGED faults
     \/ Faulty /\ Fails(Head(todo)) /\ Log("timezone", FALSE) /\ UNCHANGED facts
     \/ Exits /\ UNCHANGED <<facts, faults>>
  /\ UNCHANGED <<adapter, creds, linked, wired, broken, runs>>

\* No messaging app, or the flow of one.
Channel ==
  /\ Running("channel")
  /\ \/ Passed
     \/ \E c \in Channels : \E flow \in Flows[c] :
          channel' = c /\ todo' = flow \o Tail(todo)
  /\ UNCHANGED <<process, pending, mode, machine, runs, faults>>

\* A call of the app's service.
Checks ==
  /\ RunsKind("check")
  /\ \/ Goes /\ Log(Head(todo).name, Head(todo) # SignalCli) /\ UNCHANGED faults
     \/ Faulty /\ Fails(Head(todo)) /\ Log(Head(todo).name, FALSE)
  /\ UNCHANGED <<machine, runs>>

\* The script asks only for the adapter's file and its import.
NeedsInstall(c) == adapter[c] = "none"
\* Signal needs no package for its adapter and builds on every run.
CopiedAs(c) == IF c = "signal" THEN "packaged" ELSE "copied"
BuildsOther(c) == \A d \in Channels \ {c} : adapter[d] # "copied"

InstallEnds ==
  /\ IF NeedsInstall(channel) \/ channel = "signal"
       THEN /\ BuildsOther(channel)
            /\ adapter' = Compiled([adapter EXCEPT ![channel] = "packaged"])
       ELSE UNCHANGED adapter
  /\ creds' = creds \cup ({channel} \cap ByScript)
  /\ Goes /\ Log(Head(todo).name, TRUE) /\ UNCHANGED <<broken, faults>>
\* The fetch fails before anything is copied, the package cannot be installed,
\* or the build fails.
InstallFails ==
  /\ \/ NeedsInstall(channel) /\ Faulty /\ UNCHANGED <<adapter, broken>>
     \/ /\ NeedsInstall(channel) /\ Faulty
        /\ adapter' = [adapter EXCEPT ![channel] = CopiedAs(channel)]
        /\ broken' = broken \cup {channel}
     \/ /\ NeedsInstall(channel) \/ channel = "signal"
        /\ IF BuildsOther(channel) THEN Faulty ELSE UNCHANGED faults
        /\ adapter' = [adapter EXCEPT ![channel] =
                         IF NeedsInstall(channel) THEN "packaged" ELSE @]
        /\ broken' = broken \cup (IF NeedsInstall(channel) THEN {channel} ELSE {})
  /\ Fails(Head(todo)) /\ Log(Head(todo).name, FALSE) /\ UNCHANGED creds
Installs ==
  /\ RunsKind("install") /\ (InstallEnds \/ InstallFails)
  /\ UNCHANGED <<facts, linked, wired, runs>>

\* Pairing, or linking the account; an account already linked is kept.
LinksAccount ==
  /\ RunsKind("link")
  /\ \/ /\ linked' = linked \cup {channel}
        /\ Goes /\ Log(Head(todo).name, TRUE) /\ UNCHANGED faults
     \/ Faulty /\ Fails(Head(todo)) /\ Log(Head(todo).name, FALSE) /\ UNCHANGED linked
  /\ UNCHANGED <<facts, adapter, creds, wired, broken, runs>>

\* The account, or the assistant's own number, goes to .env.
Accounts ==
  /\ RunsKind("account")
  /\ creds' = creds \cup {channel}
  /\ Goes /\ UNCHANGED <<process, facts, adapter, linked, wired, broken, runs, faults>>

\* The Teams package: its failure is not awaited, and the flow stops on the
\* value it did not get.
Packages ==
  /\ RunsKind("package")
  /\ \/ Goes /\ Log(Head(todo).name, TRUE) /\ UNCHANGED faults
     \/ Faulty /\ Exits
  /\ UNCHANGED <<machine, runs>>

\* User, group, role, membership and wire are written, each unless it is there;
\* the welcome is sent last and may fail with the wire in place.
Inits ==
  /\ RunsKind("init")
  /\ \/ wired' = wired \cup {channel} /\ Goes /\ Log(Head(todo).name, TRUE) /\ UNCHANGED faults
     \/ /\ Faulty /\ Fails(Head(todo)) /\ Log(Head(todo).name, FALSE)
        /\ wired' \in {wired, wired \cup {channel}}
  /\ UNCHANGED <<facts, adapter, creds, linked, broken, runs>>

\* The last step; what it misses is shown, and is no failure of the process.
Verifiable == {"service", "onecli"} \subseteq facts /\ Registered
Verify ==
  /\ Running("verify")
  /\ \/ Verifiable /\ mode' = "ready" /\ Log("verify", TRUE)
     \/ mode' = "almost" /\ Log("verify", FALSE)
  /\ Passed /\ UNCHANGED <<pending, machine, runs, faults>>

\* The failure in course: given up, or fixed and tried again from the steps
\* that are not completed.
GivesUp ==
  /\ mode = "failing" \/ pending # {}
  /\ Exits /\ UNCHANGED <<machine, runs, faults>>
Resumed == carried \cup completed
Retries ==
  /\ mode = "failing" \/ pending # {}
  /\ Begin(Resumed, underSg) /\ UNCHANGED reused

\* The operator runs setup again.
Starts ==
  /\ mode \in {"over", "ready", "almost"} /\ pending = {}
  /\ Begin({}, FALSE) /\ reused' = FALSE

-----------------------------------------------------------------------------
SetupInit ==
  /\ todo = MainSteps /\ channel = "none"
  /\ skip = {} /\ carried = {} /\ completed = {} /\ reused = FALSE /\ underSg = FALSE
  /\ pending = {} /\ mode = "run"
  /\ facts = {} /\ adapter = [c \in Channels |-> "none"]
  /\ creds = {} /\ linked = {} /\ wired = {} /\ broken = {}
  /\ runs = 1 /\ faults = 0

SetupNext ==
  \/ Asks \/ LeavesOut \/ Environment \/ ExistingEnv
  \/ Container \/ ReexecUnderSg \/ Onecli \/ Auth \/ Mounts \/ Service \/ CliAgent
  \/ Timezone \/ Zone \/ Channel \/ Checks \/ Installs \/ LinksAccount \/ Accounts
  \/ Packages \/ Inits \/ Verify \/ GivesUp \/ Retries \/ Starts

SetupSpec == SetupInit /\ [][SetupNext]_setupVars

-----------------------------------------------------------------------------
(* Properties.                                                             *)

SetupTypeOK ==
  /\ channel \in Channels \cup {"none"}
  /\ mode \in {"run", "failing", "over", "ready", "almost"}
  /\ facts \subseteq Lasting
  /\ adapter \in [Channels -> {"none", "copied", "packaged", "built"}]
  /\ wired \cup linked \cup creds \cup broken \subseteq Channels
  /\ runs \in 1..MaxRuns /\ faults \in 0..MaxFaults

\* The question for the time zone is a second chance for the step before it.
Ahead(name) ==
  \E i \in DOMAIN todo :
    todo[i].name = name \/ (name = "timezone" /\ todo[i].kind = "zone")

\* What a process has behind it is on the machine: a main step it passed was
\* run with success, now or by a process before it, whatever failed, was
\* skipped, was taken over from .env or was tried again in between (main,
\* fail() and NANOCLAW_SKIP).  The state is well typed.
PastIsDone ==
  /\ SetupTypeOK
  /\ \A name \in Lasting : Ahead(name) \/ name \in facts

\* A chat that is wired to the agent belongs to an app whose adapter is in the
\* build and whose account is linked: but for an installation that broke off
\* after copying its files, which the next run takes for a finished one (only
\* Signal's script builds every time), and for WhatsApp, whose failures are not
\* awaited.
WiredWorks ==
  \A c \in wired \ LooseApps :
    /\ adapter[c] = "built" \/ c \in broken \ {"signal"}
    /\ c \in Linking => c \in linked
=============================================================================
