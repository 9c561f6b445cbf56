------------------------------- MODULE Inbound -------------------------------
(***************************************************************************)
(* From the chats to the agents: the Telegram adapter's webhook, the       *)
(* router's fan-out and the approval of unknown senders.                   *)
(*                                                                         *)
(* A Telegram chat is a founder's direct message with one bot, open to     *)
(* anyone who can write there; its updates come at least once.  Commands,  *)
(* files and taps on a card go to the router at once, files and taps after *)
(* an await; plain text waits in a buffer for more.  The dashboard sends a *)
(* founder's text under an id of its own, again when it saw no answer.  A  *)
(* group chat of another channel has several senders and agents, and a     *)
(* gate for the senders that are not known.                                *)
(*                                                                         *)
(* What reaches onInbound is first mirrored into the log the dashboard     *)
(* shows, when its chat has one agent, and then routed.                    *)
(*                                                                         *)
(* The router writes one row per agent, in the order of the wires, and     *)
(* waits for the container after each agent it wakes.  Other messages are  *)
(* routed during those waits.                                              *)
(***************************************************************************)
EXTENDS Naturals, FiniteSets, FiniteSetsExt, Sequences, SequencesExt

CONSTANTS
    Bots,         \* Telegram bots, each one chat
    Web,          \* the dashboard's chat, wired by an owner's approval
    Group,        \* the group chat
    Agents,
    Wired,        \* the agents of every chat, in the order of their wires
    Engages,      \* agents with the kinds of message they react to
    Keepers,      \* agents that keep other messages as context ("accumulate")
    Choosy,       \* agents whose wire has sender_scope 'known'
    Founder,      \* the sender in the other chats, owner of the agents
    Strangers,    \* other senders in the group
    Policies,     \* unknown_sender_policy of the group
    UpdateIds,    \* numbers Telegram gives to updates, by bot
    Traffic,      \* bound: the kinds of update that come to each bot
    MaxMessages,
    MaxFaults,    \* updates whose number cannot be stored
    MaxCrashes,   \* restarts of the host
    None

ASSUME WiresAssumption ==
    /\ MaxMessages \in Nat /\ MaxFaults \in Nat /\ MaxCrashes \in Nat
    /\ Group \notin Bots \cup {Web} /\ Web \notin Bots /\ UpdateIds \subseteq Nat
    /\ Wired \in [Bots \cup {Web, Group} -> Seq(Agents)]
    /\ \A c \in Bots \cup {Web} : Len(Wired[c]) = 1

VARIABLES
    sent,      \* messages in the order of their first arrival
    policy,    \* of the group
    recent,    \* ids that are only in recentUpdates (its limit is not reached)
    seen,      \* baget_seen_updates
    buffer,    \* the debouncer's, by bot
    awaited,   \* files and taps being fetched or acknowledged
    job,       \* fan-outs waiting for a container
    log,       \* baget_web_messages of the founders
    rows,      \* messages_in of every agent's session
    members,   \* agent_group_members
    asking,    \* requests that look for an approver
    request,   \* pending_sender_approvals, by sender
    faults, crashes

adapter == <<recent, seen, buffer, awaited>>
access  == <<members, asking, request>>
vars == <<sent, policy, adapter, job, log, rows, access, faults, crashes>>

Chats == Bots \cup {Web, Group}
Senders == {Founder} \cup Strangers
Kinds == {"text", "command", "help", "file", "tap"}
Numbers == 1..MaxMessages
Messages == [chat : Chats, id : UpdateIds \cup Numbers, kind : Kinds, from : Senders]
Key == [chat : Chats, id : UpdateIds \cup Numbers, tap : BOOLEAN]
Events == [key : Key, chat : Chats, from : Senders, kind : Kinds, parts : Seq(Numbers)]

TypeOK ==
    /\ sent \in Seq(Messages) /\ policy \in Policies
    /\ recent \subseteq UpdateIds /\ seen \subseteq UpdateIds
    /\ buffer \in [Bots -> Seq(Numbers)] /\ awaited \subseteq Numbers
    /\ \A j \in job : j.event \in Events /\ j.rest \in Seq(Agents)
    /\ log \in Seq(Key)
    /\ rows \in [Agents -> Seq([event : Events, trigger : BOOLEAN])]
    /\ members \subseteq Senders \X Agents
    /\ \A a \in asking : a.agent \in Agents /\ a.event \in Events
    /\ \A s \in Strangers : request[s] # None =>
          /\ request[s].agent \in Agents /\ request[s].event \in Events
          /\ request[s].card \in BOOLEAN
    /\ faults \in 0..MaxFaults /\ crashes \in 0..MaxCrashes

Init ==
    /\ sent = <<>> /\ policy \in Policies
    /\ recent = {} /\ seen = {}
    /\ buffer = [b \in Bots |-> <<>>] /\ awaited = {}
    /\ job = {} /\ log = <<>> /\ rows = [a \in Agents |-> <<>>]
    /\ members = {Founder} \X Agents
    /\ asking = {} /\ request = [s \in Strangers |-> None]
    /\ faults = 0 /\ crashes = 0

-----------------------------------------------------------------------------
(* The router *)

\* Slip: a member of any agent's group is known to all.
AdmitsAnywhere(a, e, known) ==
    \/ e.chat # Group \/ policy = "public"
    \/ \E b \in Agents : <<e.from, b>> \in known
\* The access gate; paired Telegram chats are public.
Admits(a, e, known) ==
    e.chat # Group \/ policy = "public" \/ <<e.from, a>> \in known

\* sender_scope of the wire.
InScope(a, e, known) == a \in Choosy => <<e.from, a>> \in known

\* gateCommand: some commands are for nobody, some for owners.
Passes(e) == e.kind # "help" /\ (e.kind = "command" => e.from = Founder)

Engaged(a, e) == <<a, e.kind>> \in Engages

\* Slip: the messages have no primary key.
WrittenNever(a, e) == FALSE
\* The id of a row is the message's with the agent's.
Written(a, e) == \E i \in DOMAIN rows[a] : rows[a][i].event.key = e.key

\* What the router does with an event for one agent.
Outcome(a, e, known) ==
    LET wakes == Engaged(a, e) /\ Admits(a, e, known) /\ InScope(a, e, known)
        keeps == ~Engaged(a, e) /\ a \in Keepers
    IN  CASE ~Passes(e) \/ ~(wakes \/ keeps) -> "skip"
          [] Passes(e) /\ (wakes \/ keeps) /\ Written(a, e) -> "throw"
          [] Passes(e) /\ wakes /\ ~Written(a, e) -> "wake"
          [] Passes(e) /\ keeps /\ ~Written(a, e) -> "keep"

Refused(a, e, known) == Engaged(a, e) /\ ~Admits(a, e, known)

\* One synchronous stretch of routeInbound: up to the first container it
\* waits for, or the row that exists already, which ends the fan-out.
Serve(e, agents, known, jobs) ==
    LET out == [i \in DOMAIN agents |-> Outcome(agents[i], e, known)]
        halts == {i \in DOMAIN agents : out[i] \in {"wake", "throw"}}
        stop == Min(halts \cup {Len(agents)})
        done == 1..stop
        rest == SubSeq(agents, stop + 1, Len(agents))
    IN  /\ rows' = [a \in Agents |->
              IF \E i \in done : agents[i] = a /\ out[i] \in {"wake", "keep"}
              THEN Append(rows[a], [event |-> e,
                                    trigger |-> \E i \in done : agents[i] = a /\ out[i] = "wake"])
              ELSE rows[a]]
        /\ asking' = asking \cup
              {[agent |-> agents[i], event |-> e] :
                 i \in {k \in done : /\ policy = "request_approval"
                                     /\ Refused(agents[k], e, known)
                                     /\ request[e.from] = None}}
        /\ job' = IF rest # <<>> /\ halts # {} /\ out[stop] = "wake"
                  THEN jobs \cup {[event |-> e, rest |-> rest]} ELSE jobs

Route(e) == Serve(e, Wired[e.chat], members, job)

\* Slip: a message that comes again is logged again.
LoggedNever(e) == FALSE
\* findMessageBySource.
Logged(e) == \E i \in DOMAIN log : log[i] = e.key

\* mirrorInbound.
Mirror(e) ==
    log' = IF Len(Wired[e.chat]) = 1 /\ ~Logged(e) THEN Append(log, e.key) ELSE log

\* onInbound.
OnInbound(e) == Mirror(e) /\ Route(e)

\* The container is up, or could not be started: on to the next agent.
Woken(j) ==
    /\ j \in job
    /\ Serve(j.event, j.rest, members, job \ {j})
    /\ UNCHANGED <<sent, policy, adapter, log, members, request, faults, crashes>>

KeyOf(m) == [chat |-> m.chat, id |-> m.id, tap |-> m.kind = "tap"]
Event(m, parts) == [key |-> KeyOf(m), chat |-> m.chat, from |-> m.from,
                    kind |-> m.kind, parts |-> parts]

\* A message of the group, from its channel's adapter.
GroupMessage(s, k) ==
    LET n == Len(sent) + 1
        m == [chat |-> Group, id |-> n, kind |-> k, from |-> s]
    IN  /\ n <= MaxMessages
        /\ sent' = Append(sent, m)
        /\ OnInbound(Event(m, <<n>>))
        /\ UNCHANGED <<policy, adapter, members, request, faults, crashes>>

\* ingestFounderMessage: the dashboard's own id names the message.
WebMessage ==
    LET n == Len(sent) + 1
        m == [chat |-> Web, id |-> n, kind |-> "text", from |-> Founder]
    IN  /\ n <= MaxMessages
        /\ sent' = Append(sent, m)
        /\ OnInbound(Event(m, <<n>>))
        /\ UNCHANGED <<policy, adapter, members, request, faults, crashes>>

\* The dashboard saw no answer and sends it again.
WebAgain(n) ==
    /\ n \in DOMAIN sent /\ sent[n].chat = Web
    /\ OnInbound(Event(sent[n], <<n>>))
    /\ UNCHANGED <<sent, policy, adapter, members, request, faults, crashes>>

-----------------------------------------------------------------------------
(* The Telegram adapter *)

\* Slip: the newest text goes first.
PushedFront(b, n) == <<n>> \o buffer[b]
\* debouncer.push
Pushed(b, n) == Append(buffer[b], n)

\* In the memory of this process or in the database.
SeenBefore(i) == i \in recent \cup seen

\* processUpdate, up to its first await.
Dispatch(m, n) ==
    \/ /\ m.kind = "text"
       /\ buffer' = [buffer EXCEPT ![m.chat] = Pushed(m.chat, n)]
       /\ UNCHANGED <<awaited, job, log, rows, asking>>
    \/ /\ m.kind \in {"command", "help"}
       /\ OnInbound(Event(m, <<n>>))
       /\ UNCHANGED <<buffer, awaited>>
    \/ /\ m.kind \in {"file", "tap"}
       /\ awaited' = awaited \cup {n}
       /\ UNCHANGED <<buffer, job, log, rows, asking>>

Process(m, n) ==
    \/ /\ SeenBefore(m.id)
       /\ UNCHANGED <<recent, seen, buffer, awaited, job, log, rows, asking, faults>>
    \/ /\ ~SeenBefore(m.id)
       /\ \/ seen' = seen \cup {m.id} /\ UNCHANGED <<recent, faults>>
          \/ /\ faults < MaxFaults /\ faults' = faults + 1
             /\ recent' = recent \cup {m.id} /\ UNCHANGED seen
       /\ Dispatch(m, n)

\* An update comes for the first time; every bot numbers its own updates.
Arrives(b, i, k) ==
    LET n == Len(sent) + 1
        m == [chat |-> b, id |-> i, kind |-> k, from |-> Founder]
    IN  /\ n <= MaxMessages
        /\ <<b, k>> \in Traffic
        /\ \A p \in DOMAIN sent : sent[p].chat = b => sent[p].id < i
        /\ sent' = Append(sent, m)
        /\ Process(m, n)
        /\ UNCHANGED <<policy, members, request, crashes>>

\* Telegram did not see the answer to an update and sends it again.
ComesAgain(n) ==
    /\ n \in DOMAIN sent /\ sent[n].chat \in Bots
    /\ Process(sent[n], n)
    /\ UNCHANGED <<sent, policy, members, request, crashes>>

\* The buffer's timer: one message with the id of the latest.
Flush(b) ==
    /\ buffer[b] # <<>>
    /\ buffer' = [buffer EXCEPT ![b] = <<>>]
    /\ OnInbound(Event(sent[Last(buffer[b])], buffer[b]))
    /\ UNCHANGED <<sent, policy, recent, seen, awaited, members, request, faults, crashes>>

\* The download ended, or failed; a tap was acknowledged.
Fetched(n) ==
    /\ n \in awaited
    /\ awaited' = awaited \ {n}
    /\ \/ OnInbound(Event(sent[n], <<n>>))
       \/ sent[n].kind = "file" /\ UNCHANGED <<job, log, rows, asking>>
    /\ UNCHANGED <<sent, policy, recent, seen, buffer, members, request, faults, crashes>>

-----------------------------------------------------------------------------
(* Unknown senders *)

\* requestSenderApproval after its await: nobody to ask, a request of this
\* sender that came first, or a new row, whose card may fail.
Asked(q) ==
    /\ q \in asking
    /\ asking' = asking \ {q}
    /\ \/ UNCHANGED request
       \/ /\ request[q.event.from] = None
          /\ \E card \in BOOLEAN :
                request' = [request EXCEPT ![q.event.from] =
                              [agent |-> q.agent, event |-> q.event, card |-> card]]
    /\ UNCHANGED <<sent, policy, adapter, job, log, rows, members, faults, crashes>>

\* addMember.
Joined(s) == members \cup {<<s, request[s].agent>>}
\* Slip: the message is routed before the sender is a member.
KnownBefore(s) == members
\* The members the replay meets.
KnownAtReplay(s) == Joined(s)

\* The owner allows the sender: the message that was held is routed again.
Approve(s) ==
    /\ request[s] # None /\ request[s].card
    /\ members' = Joined(s)
    /\ request' = [request EXCEPT ![s] = None]
    /\ Serve(request[s].event, Wired[request[s].event.chat], KnownAtReplay(s), job)
    /\ UNCHANGED <<sent, policy, adapter, log, faults, crashes>>

Deny(s) ==
    /\ request[s] # None /\ request[s].card
    /\ request' = [request EXCEPT ![s] = None]
    /\ UNCHANGED <<sent, policy, adapter, job, log, rows, members, asking, faults, crashes>>

\* The host restarts: what was in memory is gone.
Restart ==
    /\ crashes < MaxCrashes
    /\ crashes' = crashes + 1
    /\ recent' = {} /\ buffer' = [b \in Bots |-> <<>>] /\ awaited' = {}
    /\ job' = {} /\ asking' = {}
    /\ UNCHANGED <<sent, policy, seen, log, rows, members, request, faults>>

Next ==
    \/ \E s \in Senders, k \in {"text", "command"} : GroupMessage(s, k)
    \/ WebMessage \/ \E n \in Numbers : WebAgain(n)
    \/ \E b \in Bots, i \in UpdateIds, k \in Kinds : Arrives(b, i, k)
    \/ \E n \in Numbers : ComesAgain(n) \/ Fetched(n)
    \/ \E b \in Bots : Flush(b)
    \/ \E j \in job : Woken(j)
    \/ \E q \in asking : Asked(q)
    \/ \E s \in Strangers : Approve(s) \/ Deny(s)
    \/ Restart

Spec == Init /\ [][Next]_vars

-----------------------------------------------------------------------------
(* Properties *)

\* However often Telegram repeats an update, with whatever text it is joined,
\* across restarts, no agent reads it twice, unless its number could not be
\* stored.  The state is well typed.
OncePerAgent ==
    /\ TypeOK
    /\ \A a \in Agents, n \in Numbers :
        Cardinality({i \in DOMAIN rows[a] : n \in Range(rows[a][i].event.parts)}) <= 1 + faults

\* No row wakes an agent with a message of somebody who is not a member of
\* its group, on any way through the gates and the replays after approvals.
StrangersAreHeld ==
    \A a \in Agents : \A i \in DOMAIN rows[a] :
        /\ rows[a][i].trigger
        /\ rows[a][i].event.chat = Group
        /\ policy # "public" \/ a \in Choosy
        => <<rows[a][i].event.from, a>> \in members

\* The texts of a Telegram chat are read in the order they came, through the
\* buffer, the restarts and the copies.
TextsInOrder ==
    \A b \in Bots : faults = 0 =>
        LET read == rows[Wired[b][1]]
            IsText(n) == sent[n].chat = b /\ sent[n].kind = "text"
        IN  \A i, k \in DOMAIN read :
               \A p \in DOMAIN read[i].event.parts, q \in DOMAIN read[k].event.parts :
                  LET n == read[i].event.parts[p]
                      m == read[k].event.parts[q]
                  IN  (i < k \/ (i = k /\ p < q)) /\ IsText(n) /\ IsText(m) => n < m

\* The dashboard's log of a founder's chats has what the agent read there, in
\* the same order and once, through copies, retries and restarts.
SameTimeline ==
    /\ \A p, q \in DOMAIN log : log[p] = log[q] => p = q
    /\ \A a \in Agents :
        LET Mine(k) == k.chat # Group /\ Wired[k.chat] = <<a>>
            KeyAt(i) == rows[a][i].event.key
        IN  /\ \A i \in DOMAIN rows[a] :
                  Mine(KeyAt(i)) => \E p \in DOMAIN log : log[p] = KeyAt(i)
            /\ \A i, k \in DOMAIN rows[a], p, q \in DOMAIN log :
                  Mine(KeyAt(i)) /\ Mine(KeyAt(k)) /\ log[p] = KeyAt(i) /\ log[q] = KeyAt(k)
                  => (i < k <=> p < q)

ReadBy(a) == UNION {Range(rows[a][i].event.parts) : i \in DOMAIN rows[a]}

\* A founder's text is buffered or read, unless the host restarted or another
\* bot had used its number: the numbers are remembered without the bot.
TextIsNotLost ==
    \A n \in DOMAIN sent :
        /\ sent[n].chat \in Bots /\ sent[n].kind = "text"
        /\ <<Wired[sent[n].chat][1], "text">> \in Engages
        /\ crashes = 0
        /\ \A m \in 1..(n - 1) :
              sent[m].chat \in Bots \ {sent[n].chat} => sent[m].id # sent[n].id
        => n \in Range(buffer[sent[n].chat]) \cup ReadBy(Wired[sent[n].chat][1])

\* The texts of a founder reach the agent, and in their order.
TextsAreRead == TextsInOrder /\ TextIsNotLost

\* When a sender is allowed, the agent they were allowed for has the message
\* that was held, unless an agent before it has: then the replay ends there.
ApprovedIsHeard ==
    [][\A s \in Strangers :
         LET q == request[s] IN
         /\ q # None /\ q.event.kind = "text"
         /\ members' # members /\ request'[s] = None
         => \E i \in DOMAIN Wired[Group] :
               LET a == Wired[Group][i] IN
               /\ \A k \in 1..(i - 1) : Wired[Group][k] # q.agent
               /\ \E r \in DOMAIN rows'[a] : rows'[a][r].event.key = q.event.key]_vars
=============================================================================
