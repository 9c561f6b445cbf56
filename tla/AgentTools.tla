------------------------------ MODULE AgentTools ------------------------------
(***************************************************************************)
(* What one session's runner writes for the founder, and the company       *)
(* actions it takes for the agent.                                         *)
(*                                                                         *)
(* Two processes of a session write messages_out: the runner (the agent's  *)
(* replies and the loop that announces finished tasks) and the MCP server  *)
(* of its tools.  Each picks a number from the largest ones of both        *)
(* databases and then inserts: two statements, between which the other     *)
(* process, or the host refusing a command, may insert.  The number is a   *)
(* UNIQUE column, so the loser's insert throws.                            *)
(*                                                                         *)
(* A gated tool is called twice: unconfirmed, it asks baget.ai for a       *)
(* preview, remembers the request under the action and its payload and     *)
(* shows a card; confirmed, it looks the request up, has it confirmed,     *)
(* and executes.  Calls of one MCP server interleave at their fetches.     *)
(* baget.ai is external: it confirms and executes whatever arrives.        *)
(***************************************************************************)
EXTENDS Naturals, FiniteSets, FiniteSetsExt, Sequences

CONSTANTS
    Tools,        \* the tools the instance calls
    Payloads,     \* the arguments of a gated call
    Calls,        \* tool calls that may be under way at once
    Stamp,        \* creation times of the finished tasks, in order
    PageLimit,    \* tasks per page of the completion feed
    MaxRequests,  \* previews
    MaxRows,      \* rows of messages_out
    MaxInbound,   \* rows of messages_in
    MaxCrashes,   \* ends of the runner
    MaxExcuses,   \* timeouts and overlapping confirmations of a request
    None

ASSUME BoundsAssumption ==
    /\ PageLimit \in Nat \ {0}
    /\ MaxRequests \in Nat /\ MaxRows \in Nat /\ MaxInbound \in Nat /\ MaxCrashes \in Nat
    /\ MaxExcuses \in Nat /\ IsFiniteSet(Calls)
    /\ Stamp \in Seq(Nat \ {0})
ASSUME StampsAreInOrder ==
    \A t, u \in 1..Len(Stamp) : t <= u => Stamp[t] <= Stamp[u]
ASSUME NoneAssumption == None \notin Payloads /\ None \notin Nat

VARIABLES
    out,        \* messages_out, in the order of insertion
    inbound,    \* number of rows of messages_in
    draft,      \* by process: the row whose number is chosen
    call,       \* tool calls
    cache,      \* pendingApprovals: the request by payload
    payloadOf,  \* baget.ai: the payload of every request
    applied,    \* baget.ai: how often each request was executed, by payload
    excuse,     \* timeouts and overlapping calls, by request (history)
    made,       \* finished tasks so far
    seed,       \* the task count at which the loop first ran (history)
    stored,     \* the cursor in session_state
    cursor,     \* the loop's own
    loop,       \* what the loop is doing
    reached,    \* the last task written of the page
    page,       \* tasks of the page not yet written
    crashes

rows  == <<out, inbound, draft>>
gate  == <<call, cache, payloadOf, applied, excuse>>
feed  == <<made, seed, stored, cursor, reached, loop, page>>
vars == <<rows, gate, feed, crashes>>

Writers == {"runner", "mcp"}
Tasks == 1..Len(Stamp)
Requests == 1..MaxRequests
Subject == {0} \cup Tasks   \* the task a row announces, 0 for any other message
Resting == [phase |-> "idle", payload |-> None, request |-> None]

RowsTyped ==
    /\ out \in Seq([seq : Nat \ {0}, by : Writers \cup {"host"}, task : Subject])
    /\ inbound \in 0..MaxInbound
    /\ draft \in [Writers ->
          {None} \cup [seq : Nat \ {0}, task : Subject, call : Calls \cup {None}]]
GateTyped ==
    /\ call \in [Calls -> [phase : {"idle", "fetch", "preview", "confirm", "execute", "write"},
                           payload : Payloads \cup {None}, request : Requests \cup {None}]]
    /\ cache \in [Payloads -> Requests \cup {None}]
    /\ payloadOf \in [Requests -> Payloads \cup {None}]
    /\ applied \in [Requests -> Nat] /\ excuse \in [Requests -> Nat]
FeedTyped ==
    /\ made \in 0..Len(Stamp) /\ seed \in 0..Len(Stamp)
    /\ stored \in {None} \cup Nat /\ cursor \in Nat /\ reached \in Nat
    /\ loop \in {"off", "asleep", "polling", "writing"}
    /\ page \subseteq Tasks
TypeOK == RowsTyped /\ GateTyped /\ FeedTyped /\ crashes \in 0..MaxCrashes

Init ==
    /\ out = <<>> /\ inbound = 0
    /\ draft = [w \in Writers |-> None]
    /\ call = [c \in Calls |-> Resting]
    /\ cache = [p \in Payloads |-> None]
    /\ payloadOf = [r \in Requests |-> None]
    /\ applied = [r \in Requests |-> 0] /\ excuse = [r \in Requests |-> 0]
    /\ made = 0 /\ seed = 0
    /\ stored = None /\ cursor = 0 /\ reached = 0
    /\ loop = "off" /\ page = {}
    /\ crashes = 0

-----------------------------------------------------------------------------
(* The tools, by what they do *)

\* One GET, or a look at the company's data: nothing of the session changes.
CompanyReads == {"get_company_overview", "query_metrics", "get_credits",
                 "list_recent_activity", "list_documents"}
PeopleReads == {"read_document", "list_contacts", "export_contacts",
                "list_prospect_searches", "get_prospect_search_leads",
                "read_roadmap", "read_ad_metrics"}
MailReads == {"get_billing_history", "get_site_status", "list_email_domains",
              "list_inbox", "read_email_thread"}
DomainReads == {"check_domain_availability"}
Reads == CompanyReads \cup PeopleReads \cup MailReads \cup DomainReads

\* dispatchDirect: one POST, no card.
MetricWrites == {"update_metric", "archive_metric", "add_metric_history", "set_metric_target"}
TaskWrites == {"add_task", "park_task", "cancel_running_tasks", "approve_pending",
               "reject_pending", "pause_ad", "resume_ad"}
CampaignWrites == {"add_contact", "create_campaign", "preview_campaign",
                   "pause_campaign", "resume_campaign"}
RoadmapWrites == {"update_roadmap_item", "create_prospect_search"}
BriefingWrites == {"set_briefing_preferences"}
Writes == MetricWrites \cup TaskWrites \cup CampaignWrites \cup RoadmapWrites \cup BriefingWrites

\* dispatchApproval: the founder is to confirm first.
DirectionGated == {"set_direction"}
WorkGated == {"run_task", "launch_batch", "edit_document", "reveal_prospect", "send_campaign"}
MoneyGated == {"topup_credits", "set_ai_budget"}
SiteGated == {"redeploy_site", "buy_domain", "invite_member"}
Gated == DirectionGated \cup WorkGated \cup MoneyGated \cup SiteGated

\* Bytes are fetched or generated and staged in the outbox, then a row is written.
DocumentFiles == {"send_document_file"}
DeckFiles == {"send_deck_visuals"}
ImageFiles == {"generate_image"}
FileTools == DocumentFiles \cup DeckFiles \cup ImageFiles

\* A row is written at once.
MessageTools == {"send_message", "send_file", "edit_message", "add_reaction"}

-----------------------------------------------------------------------------
(* Numbers *)

LargestOut == Max({out[i].seq : i \in DOMAIN out} \cup {0})
LargestOfBoth == Max({LargestOut, 2 * inbound})

\* Slip: the next number, whoever it belongs to.
NextSeqPlain == LargestOfBoth + 1
\* writeMessageOut: the next odd number.
NextSeq == IF LargestOfBoth % 2 = 0 THEN LargestOfBoth + 1 ELSE LargestOfBoth + 2

Draft(w, t, c) == draft' = [draft EXCEPT ![w] = [seq |-> NextSeq, task |-> t, call |-> c]]

\* nextEvenSeq and insertMessage: the host's own table decides.
InboundArrives ==
    /\ inbound < MaxInbound
    /\ inbound' = inbound + 1
    /\ UNCHANGED <<out, draft, gate, feed, crashes>>

\* writeOutboundDirect: the host refuses a command in one statement.
HostRefuses ==
    /\ Len(out) < MaxRows
    /\ out' = Append(out, [seq |-> LargestOut + 2, by |-> "host", task |-> 0])
    /\ UNCHANGED <<inbound, draft, gate, feed, crashes>>

Taken(n) == \E i \in DOMAIN out : out[i].seq = n

\* Slip: the loop goes on behind the page.
ReachedSkipping == IF page = {} THEN reached ELSE Stamp[Max(page)]
\* The cursor after an insert that threw: the last task written.
ReachedOnFailure == reached

\* The insert of the row whose number was chosen; a taken number throws.
Insert(w) ==
    /\ draft[w] # None
    /\ Len(out) < MaxRows
    /\ LET row == draft[w] IN
       \/ /\ ~Taken(row.seq)
          /\ out' = Append(out, [seq |-> row.seq, by |-> w, task |-> row.task])
          /\ reached' = IF row.task # 0 THEN Stamp[row.task] ELSE reached
          /\ page' = page \ {row.task}
       \/ /\ Taken(row.seq)
          /\ reached' = IF row.task # 0 THEN ReachedOnFailure ELSE reached
          /\ page' = IF row.task # 0 THEN {} ELSE page
          /\ out' = out
    /\ draft' = [draft EXCEPT ![w] = None]
    /\ call' = [c \in Calls |-> IF c = draft[w].call THEN Resting ELSE call[c]]
    /\ UNCHANGED <<inbound, cache, payloadOf, applied, excuse, made, seed, stored,
                   cursor, loop, crashes>>

\* The poll loop answers; the loop of finished tasks shares its thread.
Reply ==
    /\ draft["runner"] = None /\ loop # "writing" /\ loop # "off"
    /\ Draft("runner", 0, None)
    /\ UNCHANGED <<out, inbound, gate, feed, crashes>>

-----------------------------------------------------------------------------
(* Tool calls; the MCP server runs one handler at a time between fetches *)

Serving == draft["mcp"] = None /\ loop # "off"
Goes(c, phase, p, r) ==
    call' = [call EXCEPT ![c] = [phase |-> phase, payload |-> p, request |-> r]]
Ends(c) == call' = [call EXCEPT ![c] = Resting]

\* A read, or a write without a card: one round trip, nothing kept.
CallFree ==
    /\ Serving
    /\ Tools \cap (Reads \cup Writes) # {}
    /\ UNCHANGED vars

CallFile(c) ==
    /\ Serving /\ call[c].phase = "idle"
    /\ Tools \cap FileTools # {}
    /\ Goes(c, "fetch", None, None)
    /\ UNCHANGED <<rows, cache, payloadOf, applied, excuse, feed, crashes>>
\* The bytes are there and staged, or the call failed.
FileEnds(c) ==
    /\ Serving /\ call[c].phase = "fetch"
    /\ \/ Goes(c, "write", None, None) /\ Draft("mcp", 0, c)
       \/ Ends(c) /\ UNCHANGED draft
    /\ UNCHANGED <<out, inbound, cache, payloadOf, applied, excuse, feed, crashes>>

CallMessage(c) ==
    /\ Serving /\ call[c].phase = "idle"
    /\ Tools \cap MessageTools # {}
    /\ Goes(c, "write", None, None) /\ Draft("mcp", 0, c)
    /\ UNCHANGED <<out, inbound, cache, payloadOf, applied, excuse, feed, crashes>>

\* Slip: the action alone is the key.
KeyOfAction(p) == CHOOSE q \in Payloads : TRUE
\* approvalCacheKey: the action with its payload.
Key(p) == p

CallPreview(c, p) ==
    /\ Serving /\ call[c].phase = "idle"
    /\ Tools \cap Gated # {}
    /\ Goes(c, "preview", p, None)
    /\ UNCHANGED <<rows, cache, payloadOf, applied, excuse, feed, crashes>>

\* The request is remembered, whether or not the preview refuses the action;
\* then the card is written, or left to the agent as text.
PreviewEnds(c) ==
    LET p == call[c].payload
        fresh == {r \in Requests : payloadOf[r] = None}
    IN  /\ Serving /\ call[c].phase = "preview"
        /\ \/ /\ \E r \in fresh :
                 /\ payloadOf' = [payloadOf EXCEPT ![r] = p]
                 /\ cache' = [cache EXCEPT ![Key(p)] = r]
              /\ \/ Goes(c, "write", None, None) /\ Draft("mcp", 0, c)
                 \/ Ends(c) /\ UNCHANGED draft
           \/ Ends(c) /\ UNCHANGED <<draft, payloadOf, cache>>
        /\ UNCHANGED <<out, inbound, applied, excuse, feed, crashes>>

InUse(r) == \E d \in Calls : call[d].request = r
Excused(r) == excuse[r] < MaxExcuses /\ excuse' = [excuse EXCEPT ![r] = @ + 1]

\* Without an entry the tool only tells the agent to ask for a preview first.
CallConfirmed(c, p) ==
    /\ Serving /\ call[c].phase = "idle"
    /\ Tools \cap Gated # {}
    /\ cache[Key(p)] # None
    /\ LET r == cache[Key(p)] IN
       /\ Goes(c, "confirm", p, r)
       /\ IF InUse(r) THEN Excused(r) ELSE UNCHANGED excuse
    /\ UNCHANGED <<rows, cache, payloadOf, applied, feed, crashes>>

\* Slip: the request stays after it was executed.
ForgottenNot(p) == cache
\* pendingApprovals.delete: whatever the key holds by now.
Forgotten(p) == [cache EXCEPT ![Key(p)] = None]

\* A token, a refusal, or a timeout, which leaves the request in place.
ConfirmEnds(c) ==
    LET p == call[c].payload  r == call[c].request IN
    /\ Serving /\ call[c].phase = "confirm"
    /\ \/ Goes(c, "execute", p, r) /\ UNCHANGED cache
       \/ Ends(c) /\ cache' = Forgotten(p)
       \/ Ends(c) /\ UNCHANGED cache
    /\ UNCHANGED <<rows, payloadOf, applied, excuse, feed, crashes>>

\* An answer, good or bad, or a timeout after which baget.ai may have done it.
ExecuteEnds(c) ==
    LET p == call[c].payload  r == call[c].request IN
    /\ Serving /\ call[c].phase = "execute"
    /\ applied' \in {applied, [applied EXCEPT ![r] = @ + 1]}
    /\ Ends(c)
    /\ \/ cache' = Forgotten(p) /\ UNCHANGED excuse
       \/ Excused(r) /\ UNCHANGED cache
    /\ UNCHANGED <<rows, payloadOf, feed, crashes>>

\* sweepExpiredApprovals and the look at expiresAt of a confirmed call.
Expire(p) ==
    /\ cache[p] # None
    /\ cache' = [cache EXCEPT ![p] = None]
    /\ UNCHANGED <<rows, call, payloadOf, applied, excuse, feed, crashes>>

-----------------------------------------------------------------------------
(* Finished tasks *)

TaskFinishes ==
    /\ made < Len(Stamp)
    /\ made' = made + 1
    /\ UNCHANGED <<rows, gate, seed, stored, cursor, reached, loop, page, crashes>>

Now == IF made = 0 THEN 0 ELSE Stamp[made]

\* The runner starts: the loop takes up the stored cursor or stores the time.
LoopStarts ==
    /\ loop = "off"
    /\ loop' = "asleep"
    /\ stored' = IF stored = None THEN Now ELSE stored
    /\ cursor' = stored'
    /\ reached' = stored'
    /\ seed' = IF stored = None THEN made ELSE seed
    /\ UNCHANGED <<rows, gate, made, page, crashes>>

Poll ==
    /\ loop = "asleep"
    /\ loop' = "polling"
    /\ UNCHANGED <<rows, gate, made, seed, stored, cursor, reached, page, crashes>>

\* The feed: the tasks after the cursor, the oldest of them, a page.
Feed ==
    LET newer == {t \in 1..made : Stamp[t] > cursor}
    IN  {t \in newer : Cardinality({u \in newer : u < t}) < PageLimit}

PollEnds ==
    /\ loop = "polling" /\ draft["runner"] = None
    /\ \/ loop' = "writing" /\ page' = Feed
       \/ loop' = "asleep" /\ UNCHANGED page
    /\ reached' = cursor
    /\ UNCHANGED <<rows, gate, made, seed, stored, cursor, crashes>>

WriteTask ==
    /\ loop = "writing" /\ draft["runner"] = None
    /\ \E t \in page :
          /\ \A u \in page : t <= u
          /\ Draft("runner", t, None)
    /\ UNCHANGED <<out, inbound, gate, feed, crashes>>

\* Slip: a cursor that could not be stored is not kept either.
KeptAsStored == stored'
\* The cursor the loop goes on with, stored or not.
Kept == reached

\* The cursor is stored, or only kept in memory when that fails.
SaveCursor ==
    /\ loop = "writing" /\ page = {} /\ draft["runner"] = None
    /\ stored' \in {stored, reached}
    /\ cursor' = Kept
    /\ loop' = "asleep"
    /\ UNCHANGED <<rows, gate, made, seed, reached, page, crashes>>

\* The runner ends, idle or killed, and its MCP server with it: what was
\* remembered is gone, what baget.ai was asked for may still happen.
RunnerEnds ==
    /\ loop # "off" /\ crashes < MaxCrashes
    /\ crashes' = crashes + 1
    /\ \E late \in SUBSET {c \in Calls : call[c].phase = "execute"} :
          applied' = [r \in Requests |->
                        applied[r] + Cardinality({c \in late : call[c].request = r})]
    /\ loop' = "off" /\ page' = {} /\ cursor' = 0 /\ reached' = 0
    /\ draft' = [w \in Writers |-> None]
    /\ call' = [c \in Calls |-> Resting]
    /\ cache' = [p \in Payloads |-> None]
    /\ UNCHANGED <<out, inbound, payloadOf, excuse, made, seed, stored>>

Next ==
    \/ InboundArrives \/ HostRefuses
    \/ \E w \in Writers : Insert(w)
    \/ Reply \/ CallFree
    \/ \E c \in Calls : CallFile(c) \/ FileEnds(c) \/ CallMessage(c)
    \/ \E c \in Calls, p \in Payloads : CallPreview(c, p) \/ CallConfirmed(c, p)
    \/ \E c \in Calls : PreviewEnds(c) \/ ConfirmEnds(c) \/ ExecuteEnds(c)
    \/ \E p \in Payloads : Expire(p)
    \/ TaskFinishes \/ LoopStarts \/ Poll \/ PollEnds \/ WriteTask \/ SaveCursor
    \/ RunnerEnds

Spec == Init /\ [][Next]_vars

-----------------------------------------------------------------------------
(* Properties *)

\* A gated action is executed at most once for a preview, but for calls that
\* overlapped and executions that timed out (the entry of pendingApprovals
\* against the two fetches it is read before and deleted after).
AppliedOncePerPreview == \A r \in Requests : applied[r] <= 1 + excuse[r]

\* What is confirmed and executed is what was previewed: the request of a call
\* is one for its own payload.
ConfirmedAsShown ==
    \A c \in Calls : call[c].request # None => payloadOf[call[c].request] = call[c].payload

\* The number a tool returns names its row for edit_message and add_reaction:
\* no message of the host ever has it (three writers, two databases).
NumbersResolve ==
    \A i \in DOMAIN out : out[i].by # "host" =>
        /\ out[i].seq % 2 = 1
        /\ \A j \in DOMAIN out : out[j].seq = out[i].seq => j = i

Announced(t) == \E i \in DOMAIN out : out[i].task = t

\* The cursor never passes a finished task that was not announced, however
\* inserts fail in the middle of a page.
NoTaskSkipped ==
    \A t \in Tasks :
        /\ t > seed /\ t <= made
        /\ \/ Stamp[t] <= cursor
           \/ stored # None /\ Stamp[t] <= stored
        => Announced(t)

\* A task is announced again only after the runner ended in between.  The
\* state is well typed.
AnnouncedOncePerRun ==
    /\ TypeOK
    /\ \A t \in Tasks : Cardinality({i \in DOMAIN out : out[i].task = t}) <= 1 + crashes
=============================================================================
