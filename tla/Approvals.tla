------------------------------ MODULE Approvals ------------------------------
(***************************************************************************)
(* The cards a person clicks: the agent's own questions                    *)
(* (ask_user_question), the actions an owner has to approve                *)
(* (install_packages, add_mcp_server) and the credentials the OneCLI       *)
(* gateway asks for.                                                       *)
(*                                                                         *)
(* A click reaches the handlers in turn.  A question's handler writes the  *)
(* answer into the session and forgets the question in one tick.  An       *)
(* approval's row is deleted after the awaited action.  A credential is    *)
(* held in memory, with a timer and a row beside it, from the tick its     *)
(* card was delivered; before that a click finds nobody.  A restart of the *)
(* host leaves the rows and loses the memory.                              *)
(***************************************************************************)
EXTENDS Naturals, FiniteSets

CONSTANTS
    Questions,    \* calls of ask_user_question
    Installs,     \* approvals whose action awaits the build of an image
    Additions,    \* approvals whose action is done at once
    Credentials,  \* requests of the OneCLI gateway
    MaxRepeats,   \* cards delivered again
    MaxClicks,    \* clicks that find nothing, or an action under way
    MaxRestarts,
    NoDecision

ASSUME BoundsAssumption ==
    MaxRepeats \in Nat /\ MaxClicks \in Nat /\ MaxRestarts \in Nat
ASSUME NoDecisionAssumption == NoDecision \notin {"approve", "deny"}

VARIABLES
    ask,        \* by question: what the tool call is doing
    question,   \* pending_questions
    shown,      \* cards delivered, by question
    response,   \* unread answers in messages_in, by question
    answers,    \* answers written, by question (history)
    approval,   \* approvals under way: looking for an approver, or a row
    card,       \* those whose card was delivered
    running,    \* handlers awaiting their action, by approval
    applied,    \* times the action was applied, by approval
    refusals,   \* times the agent was told of a refusal, by approval
    overlap,    \* clicks, and restarts, while a handler was running (history)
    credential, \* by request: where handleRequest is
    row,        \* pending_approvals of credentials
    decision,   \* what the gateway was told
    consent,    \* requests whose card was approved while it was held (history)
    session,    \* the session that asks for approvals is there
    repeats, clicks, restarts

questions   == <<ask, question, shown, response, answers, repeats>>
approvals   == <<approval, card, running, applied, refusals, overlap, session>>
credentials == <<credential, row, decision, consent>>
approvalsVars == <<questions, approvals, credentials, clicks, restarts>>

Actions == Installs \cup Additions

ApprovalsTypeOK ==
    /\ ask \in [Questions -> {"idle", "waiting", "answered", "late"}]
    /\ question \subseteq Questions
    /\ shown \in [Questions -> Nat] /\ response \in [Questions -> Nat]
    /\ answers \in [Questions -> Nat]
    /\ approval \in [Actions -> {"idle", "looking", "row", "gone"}] /\ card \subseteq Actions
    /\ running \in [Actions -> Nat] /\ applied \in [Actions -> Nat]
    /\ refusals \in [Actions -> Nat] /\ overlap \in [Actions -> Nat]
    /\ credential \in [Credentials ->
          {"idle", "looking", "showing", "held", "expiring", "left", "done"}]
    /\ row \subseteq Credentials
    /\ decision \in [Credentials -> {NoDecision, "approve", "deny"}]
    /\ consent \subseteq Credentials
    /\ session \in BOOLEAN
    /\ repeats \in 0..MaxRepeats /\ clicks \in 0..MaxClicks /\ restarts \in 0..MaxRestarts

ApprovalsInit ==
    /\ ask = [q \in Questions |-> "idle"] /\ question = {}
    /\ shown = [q \in Questions |-> 0] /\ response = [q \in Questions |-> 0]
    /\ answers = [q \in Questions |-> 0]
    /\ approval = [a \in Actions |-> "idle"] /\ card = {}
    /\ running = [a \in Actions |-> 0] /\ applied = [a \in Actions |-> 0]
    /\ refusals = [a \in Actions |-> 0] /\ overlap = [a \in Actions |-> 0]
    /\ credential = [c \in Credentials |-> "idle"] /\ row = {}
    /\ decision = [c \in Credentials |-> NoDecision] /\ consent = {}
    /\ session = TRUE
    /\ repeats = 0 /\ clicks = 0 /\ restarts = 0

\* A click that changes nothing is one of MaxClicks.
IdleClick == clicks < MaxClicks /\ clicks' = clicks + 1

-----------------------------------------------------------------------------
(* Questions *)

\* ask_user_question writes the card and polls for the answer.
Ask(q) ==
    /\ ask[q] = "idle"
    /\ ask' = [ask EXCEPT ![q] = "waiting"]
    /\ UNCHANGED <<question, shown, response, answers, repeats, approvals, credentials,
                   clicks, restarts>>

\* deliverMessage: the question is remembered (INSERT OR IGNORE), the card is
\* sent; a delivery that could not be recorded is made again.
Deliver(q) ==
    /\ ask[q] # "idle"
    /\ \/ shown[q] = 0 /\ UNCHANGED repeats
       \/ shown[q] > 0 /\ repeats < MaxRepeats /\ repeats' = repeats + 1
    /\ question' = question \cup {q}
    /\ shown' = [shown EXCEPT ![q] = @ + 1]
    /\ UNCHANGED <<ask, response, answers, approvals, credentials, clicks, restarts>>

\* Slip: the question is kept for the next click.
AnsweredKept(q) == question
\* deletePendingQuestion.
Answered(q) == question \ {q}

\* handleInteractiveResponse; a question nobody remembers is not claimed.
ClickAnswer(q) ==
    /\ shown[q] > 0
    /\ \/ /\ q \in question
          /\ response' = [response EXCEPT ![q] = @ + 1]
          /\ answers' = [answers EXCEPT ![q] = @ + 1]
          /\ question' = Answered(q)
          /\ UNCHANGED clicks
       \/ q \notin question /\ IdleClick /\ UNCHANGED <<question, response, answers>>
    /\ UNCHANGED <<ask, shown, repeats, approvals, credentials, restarts>>

\* findQuestionResponse and markCompleted.
ReadAnswer(q) ==
    /\ ask[q] = "waiting" /\ response[q] > 0
    /\ ask' = [ask EXCEPT ![q] = "answered"]
    /\ response' = [response EXCEPT ![q] = @ - 1]
    /\ UNCHANGED <<question, shown, answers, repeats, approvals, credentials, clicks, restarts>>

TimesOut(q) ==
    /\ ask[q] = "waiting"
    /\ ask' = [ask EXCEPT ![q] = "late"]
    /\ UNCHANGED <<question, shown, response, answers, repeats, approvals, credentials,
                   clicks, restarts>>

-----------------------------------------------------------------------------
(* Approvals *)

\* handleInstallPackages, handleAddMcpServer: the request is well formed.
Request(a) ==
    /\ approval[a] = "idle" /\ session
    /\ approval' = [approval EXCEPT ![a] = "looking"]
    /\ UNCHANGED <<questions, card, running, applied, refusals, overlap, session,
                   credentials, clicks, restarts>>

\* requestApproval: nobody to ask, or a row and a card.  The row stays when
\* the card cannot be delivered.
LookedUp(a) ==
    /\ approval[a] = "looking"
    /\ \/ approval' = [approval EXCEPT ![a] = "gone"] /\ UNCHANGED card
       \/ /\ approval' = [approval EXCEPT ![a] = "row"]
          /\ card' \in {card, card \cup {a}}
    /\ UNCHANGED <<questions, running, applied, refusals, overlap, session, credentials,
                   clicks, restarts>>

Overlaps(a) ==
    IF running[a] > 0 THEN IdleClick /\ overlap' = [overlap EXCEPT ![a] = @ + 1]
    ELSE UNCHANGED <<clicks, overlap>>

\* Slip: the row outlives the action.
SettledKept(a) == approval
\* deletePendingApproval.
Settled(a) == [approval EXCEPT ![a] = "gone"]

\* handleRegisteredApproval, the action approved: the configuration changes at
\* once, then the image is built.
ClickApprove(a) ==
    /\ approval[a] = "row" /\ a \in card /\ session
    /\ Overlaps(a)
    /\ applied' = [applied EXCEPT ![a] = @ + 1]
    /\ IF a \in Installs
       THEN running' = [running EXCEPT ![a] = @ + 1] /\ UNCHANGED approval
       ELSE approval' = Settled(a) /\ UNCHANGED running
    /\ UNCHANGED <<questions, card, refusals, session, credentials, restarts>>

ClickReject(a) ==
    /\ approval[a] = "row" /\ a \in card /\ session
    /\ Overlaps(a)
    /\ refusals' = [refusals EXCEPT ![a] = @ + 1]
    /\ approval' = Settled(a)
    /\ UNCHANGED <<questions, card, running, applied, session, credentials, restarts>>

\* The build ended, well or not.
HandlerEnds(a) ==
    /\ running[a] > 0
    /\ running' = [running EXCEPT ![a] = @ - 1]
    /\ approval' = Settled(a)
    /\ UNCHANGED <<questions, card, applied, refusals, overlap, session, credentials,
                   clicks, restarts>>

\* A click after a disconnect removed the session.
ClickOrphan(a) ==
    /\ approval[a] = "row" /\ a \in card /\ ~session
    /\ approval' = Settled(a)
    /\ UNCHANGED <<questions, card, running, applied, refusals, overlap, session,
                   credentials, clicks, restarts>>

Disconnect ==
    /\ session
    /\ session' = FALSE
    /\ UNCHANGED <<questions, approval, card, running, applied, refusals, overlap,
                   credentials, clicks, restarts>>

-----------------------------------------------------------------------------
(* Credentials *)

CredentialStep(c, from, to) ==
    /\ credential[c] = from
    /\ credential' = [credential EXCEPT ![c] = to]
Tell(c, d) == decision' = [decision EXCEPT ![c] = d]

\* handleRequest: an approver is looked for.
AskCredential(c) ==
    /\ CredentialStep(c, "idle", "looking")
    /\ UNCHANGED <<questions, approvals, row, decision, consent, clicks, restarts>>

\* There is one, and the card is being delivered, or the request is denied.
Found(c) ==
    /\ \/ CredentialStep(c, "looking", "showing") /\ UNCHANGED decision
       \/ CredentialStep(c, "looking", "done") /\ Tell(c, "deny")
    /\ UNCHANGED <<questions, approvals, row, consent, clicks, restarts>>

\* The card was delivered: row, timer and entry in one tick; or it was not.
Carded(c) ==
    /\ \/ CredentialStep(c, "showing", "held") /\ row' = row \cup {c} /\ UNCHANGED decision
       \/ CredentialStep(c, "showing", "done") /\ Tell(c, "deny") /\ UNCHANGED row
    /\ UNCHANGED <<questions, approvals, consent, clicks, restarts>>

\* deletePendingApproval.
Resolved(c) == row \ {c}

\* resolveOneCLIApproval, the first of the handlers.
ClickCredential(c, d) ==
    /\ CredentialStep(c, "held", "done")
    /\ Tell(c, d)
    /\ row' = Resolved(c)
    /\ consent' = IF d = "approve" THEN consent \cup {c} ELSE consent
    /\ UNCHANGED <<questions, approvals, clicks, restarts>>

\* A card that is not held: not yet, not any more, or left by a restart.
ClickStale(c) ==
    /\ credential[c] \in {"showing", "expiring", "left", "done"}
    /\ \/ c \in row /\ row' = row \ {c} /\ UNCHANGED clicks
       \/ c \notin row /\ IdleClick /\ UNCHANGED row
    /\ UNCHANGED <<questions, approvals, credential, decision, consent, restarts>>

\* Slip: no answer is taken for consent.
OnTimeoutApprove == "approve"
\* Slip: the promise is dropped and never told anything.
OnTimeoutNothing == NoDecision
\* The timer resolves the promise.
OnTimeout == "deny"

\* The timer: denied, then the card is edited and the row deleted.
Expires(c) ==
    /\ CredentialStep(c, "held", "expiring")
    /\ Tell(c, OnTimeout)
    /\ UNCHANGED <<questions, approvals, row, consent, clicks, restarts>>
Expired(c) ==
    /\ CredentialStep(c, "expiring", "done")
    /\ row' = row \ {c}
    /\ UNCHANGED <<questions, approvals, decision, consent, clicks, restarts>>

Swept(c) == Resolved(c)

\* sweepStaleApprovals, one row after the other.
Sweep(c) ==
    /\ credential[c] = "left" /\ c \in row
    /\ row' = Swept(c)
    /\ UNCHANGED <<questions, approvals, credential, decision, consent, clicks, restarts>>

-----------------------------------------------------------------------------

\* The host restarts, and the runners with it.
HostRestarts ==
    /\ restarts < MaxRestarts
    /\ restarts' = restarts + 1
    /\ ask' = [q \in Questions |-> IF ask[q] = "waiting" THEN "late" ELSE ask[q]]
    /\ approval' = [a \in Actions |-> IF approval[a] = "looking" THEN "gone" ELSE approval[a]]
    /\ overlap' = [a \in Actions |-> IF running[a] > 0 THEN overlap[a] + 1 ELSE overlap[a]]
    /\ running' = [a \in Actions |-> 0]
    /\ credential' = [c \in Credentials |->
          IF credential[c] \in {"looking", "showing", "held", "expiring"} THEN "left"
          ELSE credential[c]]
    /\ UNCHANGED <<question, shown, response, answers, repeats, card, applied, refusals,
                   session, row, decision, consent, clicks>>

ApprovalsNext ==
    \/ \E q \in Questions :
          Ask(q) \/ Deliver(q) \/ ClickAnswer(q) \/ ReadAnswer(q) \/ TimesOut(q)
    \/ \E a \in Actions :
          \/ Request(a) \/ LookedUp(a) \/ ClickApprove(a) \/ ClickReject(a)
          \/ HandlerEnds(a) \/ ClickOrphan(a)
    \/ Disconnect
    \/ \E c \in Credentials :
          \/ AskCredential(c) \/ Found(c) \/ Carded(c) \/ Expires(c) \/ Expired(c) \/ Sweep(c)
          \/ \E d \in {"approve", "deny"} : ClickCredential(c, d)
          \/ ClickStale(c)
    \/ HostRestarts

ApprovalsSpec == ApprovalsInit /\ [][ApprovalsNext]_approvalsVars

\* Fetches end, timers fire, the sweep and the tool's poll go on; nobody has to
\* click.
ApprovalsFairness ==
    /\ \A q \in Questions : WF_approvalsVars(ReadAnswer(q)) /\ WF_approvalsVars(TimesOut(q))
    /\ \A a \in Actions : WF_approvalsVars(LookedUp(a)) /\ WF_approvalsVars(HandlerEnds(a))
    /\ \A c \in Credentials :
          /\ WF_approvalsVars(Found(c)) /\ WF_approvalsVars(Carded(c))
          /\ WF_approvalsVars(Expires(c)) /\ WF_approvalsVars(Expired(c))
          /\ WF_approvalsVars(Sweep(c))

FairApprovals == ApprovalsSpec /\ ApprovalsFairness

-----------------------------------------------------------------------------
(* Properties *)

\* A question has at most one answer for every card that was delivered: with
\* repeated deliveries and clicks, what the agent reads later is bounded.  The
\* state is well typed.
AnswersMatchCards == ApprovalsTypeOK /\ \A q \in Questions : answers[q] <= shown[q]

\* An approved action is applied once, and never beside a refusal, but for
\* clicks and restarts that fell into the awaited build.
AppliedOnceUnlessRaced == \A a \in Actions : applied[a] + refusals[a] <= 1 + overlap[a]

\* The gateway is told to release a credential only by an approving click on
\* the card of that very request while the host that showed it was up; the
\* card never outlives the decision but while it is marked as expired.
GrantsAreConsented ==
    \A c \in Credentials :
        /\ decision[c] = "approve" => c \in consent
        /\ c \in row => \/ credential[c] = "held" /\ decision[c] = NoDecision
                        \/ credential[c] = "expiring" \/ credential[c] = "left"

\* Every request for a credential is answered, though clicks on a card that
\* is not yet held are lost, unless a restart cuts it off; and no row stays
\* for good: the click, the timer or the sweep of the next start takes it.
CredentialsAreSettled ==
    \A c \in Credentials :
        /\ credential[c] = "looking" ~> decision[c] # NoDecision \/ credential[c] = "left"
        /\ []<>(c \notin row)
=============================================================================
