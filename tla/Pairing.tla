------------------------------- MODULE Pairing -------------------------------
(***************************************************************************)
(* Who speaks to whom: the admin server's create, bind and disconnect      *)
(* handlers, the deep link a founder taps (/start), the registration card  *)
(* the router asks an owner to click for an unknown chat, and the repair   *)
(* the Telegram adapter makes at boot.                                     *)
(*                                                                         *)
(* A handler runs in one tick of the event loop except for the awaits      *)
(* between which the state may change: the write of the channel token to   *)
(* the vault (docker), and the look-up of an owner's direct-message        *)
(* channel before a registration card.  In single-process mode the vault   *)
(* is not asked: those runs are the behaviours in which nothing happens    *)
(* between the two halves of a request.  A group is named by its rank in   *)
(* the order of names, a chat is a founder's direct message.               *)
(***************************************************************************)
EXTENDS Naturals, FiniteSets

CONSTANTS
    Groups,    \* agent groups of companies (agent_groups rows)
    Chats,     \* Telegram chats
    Links,     \* pairing tokens the server may mint
    Requests,  \* admin requests that may be awaiting the vault at once
    None

ASSUME GroupsAssumption == Groups \subseteq Nat /\ None \notin Groups

VARIABLES
    row,       \* agent_groups: none, live or archived
    token,     \* groups with a row in baget_channel_tokens
    bot,       \* groups with a bot of the pool
    met,       \* chats with a messaging_groups row
    public,    \* those whose unknown_sender_policy is 'public'
    denied,    \* those with denied_at
    wire,      \* messaging_group_agents
    gated,     \* the wires whose sender_scope is 'known'
    link,      \* baget_pairing_tokens
    request,   \* requests awaiting the vault
    asking,    \* the group a card is being prepared for, by chat
    card       \* pending_channel_approvals

\* History the properties refer to.
VARIABLES
    paired,    \* chats some pairing has wired
    carded,    \* chats a card has wired since their last pairing
    overtaken  \* groups disconnected while a request for them was waiting,
               \* or wired by a card after their disconnect

people  == <<met, public, denied>>
wiring  == <<wire, gated>>
cards   == <<asking, card>>
history == <<paired, carded, overtaken>>
vars == <<row, token, bot, people, wiring, link, request, cards, history>>

Idle == [kind |-> "idle", group |-> None, chat |-> None]

TypeOK ==
    /\ row \in [Groups -> {"none", "live", "archived"}]
    /\ token \subseteq Groups /\ bot \subseteq Groups
    /\ met \subseteq Chats /\ public \subseteq met /\ denied \subseteq met
    /\ wire \subseteq met \X Groups /\ gated \subseteq wire
    /\ link \in [Links -> [state : {"none", "open", "used"}, group : Groups \cup {None}]]
    /\ request \in [Requests ->
            {Idle} \cup [kind : {"create"}, group : Groups, chat : {None}]
                   \cup [kind : {"bind"}, group : Groups, chat : Chats]]
    /\ asking \in [Chats -> Groups \cup {None}]
    /\ card \in [Chats -> Groups \cup {None}]
    /\ paired \subseteq Chats /\ carded \subseteq Chats /\ overtaken \subseteq Groups

Init ==
    /\ row = [g \in Groups |-> "none"]
    /\ token = {} /\ bot = {} /\ met = {} /\ public = {} /\ denied = {}
    /\ wire = {} /\ gated = {}
    /\ link = [l \in Links |-> [state |-> "none", group |-> None]]
    /\ request = [r \in Requests |-> Idle]
    /\ asking = [c \in Chats |-> None]
    /\ card = [c \in Chats |-> None]
    /\ paired = {} /\ carded = {} /\ overtaken = {}

WiresOf(c) == {w \in wire : w[1] = c}
WiresTo(g) == {w \in wire : w[2] = g}

-----------------------------------------------------------------------------
(* The two writes of a pairing *)

\* Slip: a chat that is already known keeps its row.
BoundAsIs(c, g) ==
    LET others == WiresOf(c) \ {<<c, g>>} IN
    /\ met' = met \cup {c}
    /\ public' = IF c \in met THEN public ELSE public \cup {c}
    /\ denied' = denied
    /\ wire' = (wire \ others) \cup {<<c, g>>}
    /\ gated' = gated \ WiresOf(c)
    /\ paired' = paired \cup {c}
    /\ carded' = carded \ {c}

\* Slip: the competing wires stay.
BoundBeside(c, g) ==
    /\ met' = met \cup {c}
    /\ public' = public \cup {c}
    /\ denied' = denied \ {c}
    /\ wire' = wire \cup {<<c, g>>}
    /\ gated' = gated \ WiresOf(c)
    /\ paired' = paired \cup {c}
    /\ carded' = carded \ {c}

\* bindBagetTelegramChat: the chat becomes a founder's direct message, loses
\* any other wire and any denial.  (The destination that each wire adds to the
\* agent's map is not modelled.)
Bound(c, g) ==
    LET others == WiresOf(c) \ {<<c, g>>} IN
    /\ met' = met \cup {c}
    /\ public' = public \cup {c}
    /\ denied' = denied \ {c}
    /\ wire' = (wire \ others) \cup {<<c, g>>}
    /\ gated' = gated \ WiresOf(c)
    /\ paired' = paired \cup {c}
    /\ carded' = carded \ {c}

\* resolvePoolAssignment as this module sees it: a group keeps its bot, one
\* that is bound without a bot stays so, else it gets a bot if the pool has one.
Assigned(g, b) ==
    \/ /\ g \in bot \/ WiresTo(g) # {}
       /\ b = bot
    \/ /\ g \notin bot /\ WiresTo(g) = {}
       /\ b = bot \cup {g}
Exhausted(g) == g \notin bot /\ WiresTo(g) = {}

-----------------------------------------------------------------------------
(* Admin requests.  Each provisions the group's files, then creates or     *)
(* revives its row; the token is optional in the body.                     *)

Revived(g) ==
    /\ row' = [row EXCEPT ![g] = "live"]
    /\ overtaken' = overtaken \ {g}

Create(r, g) ==
    /\ request[r] = Idle
    /\ Revived(g)
    /\ \/ token' = token \cup {g}
       \/ token' = token
    /\ request' = [request EXCEPT ![r] = [kind |-> "create", group |-> g, chat |-> None]]
    /\ UNCHANGED <<bot, people, wiring, link, cards, paired, carded>>

\* Past the vault: the link is minted before the pool is asked, and is lost on
\* the founder when there is no bot.
CreateEnds(r, l) ==
    LET g == request[r].group IN
    /\ request[r].kind = "create"
    /\ link[l].state = "none"
    /\ request' = [request EXCEPT ![r] = Idle]
    /\ \/ /\ Assigned(g, bot')
          /\ link' = [link EXCEPT ![l] = [state |-> "open", group |-> g]]
       \/ /\ Exhausted(g)
          /\ UNCHANGED <<bot, link>>
    /\ UNCHANGED <<row, token, people, wiring, cards, history>>

\* A direct bind asks the pool before the vault.
Bind(r, g, c) ==
    /\ request[r] = Idle
    /\ Revived(g)
    /\ \/ /\ Assigned(g, bot')
          /\ token' \in {token, token \cup {g}}
          /\ request' = [request EXCEPT ![r] = [kind |-> "bind", group |-> g, chat |-> c]]
       \/ /\ Exhausted(g)
          /\ UNCHANGED <<bot, token, request>>
    /\ UNCHANGED <<people, wiring, link, cards, paired, carded>>

\* Past the vault: the chat is wired, whatever became of the group meanwhile.
BindEnds(r) ==
    /\ request[r].kind = "bind"
    /\ request' = [request EXCEPT ![r] = Idle]
    /\ Bound(request[r].chat, request[r].group)
    /\ UNCHANGED <<row, token, bot, link, cards, overtaken>>

\* The token cannot be stored: 500, and what was written stays.
VaultFails(r) ==
    /\ request[r] # Idle
    /\ request' = [request EXCEPT ![r] = Idle]
    /\ UNCHANGED <<row, token, bot, people, wiring, link, cards, history>>

\* Slip: the wires are deleted first, so the update finds nobody to deny.
OrphansTooLate(g) == {c \in {} : <<c, g>> \in wire}

\* unbindMessagingGroupsForAgent: chats nobody else serves are denied, then
\* the wires go.
Orphans(g) == {c \in met : <<c, g>> \in wire /\ WiresOf(c) = {<<c, g>>}}

\* Slip: only the founder's own wires are dropped.
UnboundOwn(g) ==
    /\ denied' = denied \cup Orphans(g)
    /\ wire' = wire \ {w \in WiresTo(g) : w \notin gated}
    /\ gated' = gated

Unbound(g) ==
    /\ denied' = denied \cup Orphans(g)
    /\ wire' = wire \ WiresTo(g)
    /\ gated' = gated \ WiresTo(g)

Awaited(g) == \E r \in Requests : request[r].group = g

\* handleDelete and handleDeleteByTuple: one transaction, then the runners are
\* killed and a farewell is sent.
Disconnect(g) ==
    /\ row[g] # "none"
    /\ row' = [row EXCEPT ![g] = "archived"]
    /\ token' = token \ {g}
    /\ bot' = bot \ {g}
    /\ Unbound(g)
    /\ overtaken' = IF Awaited(g) THEN overtaken \cup {g} ELSE overtaken \ {g}
    /\ UNCHANGED <<met, public, link, request, cards, paired, carded>>

-----------------------------------------------------------------------------
(* The deep link *)

\* The check of the row and the update that stamps it used.
Consumable(l) == link[l].state = "open"

\* handleStartCommand: the link is used up even when its group is archived.
Start(c, l) ==
    LET g == link[l].group IN
    /\ Consumable(l)
    /\ link' = [link EXCEPT ![l].state = "used"]
    /\ \/ /\ row[g] = "live"
          /\ Bound(c, g)
       \/ /\ row[g] # "live"
          /\ UNCHANGED <<people, wiring, paired, carded>>
    /\ UNCHANGED <<row, token, bot, request, cards, overtaken>>

\* An unused link expires; the next create sweeps its row.
Expire(l) ==
    /\ link[l].state = "open"
    /\ link' = [link EXCEPT ![l] = [state |-> "none", group |-> None]]
    /\ UNCHANGED <<row, token, bot, people, wiring, request, cards, history>>

-----------------------------------------------------------------------------
(* The registration card for a chat nobody is wired to *)

Existing == {g \in Groups : row[g] # "none"}
\* getAllAgentGroups()[0]: the first by name, archived or not.
First == {g \in Existing : \A h \in Existing : g <= h}

\* The router's unwired branch: a denied chat is dropped, one with a card or
\* an earlier request under way is not asked for again.
Unasked(c) == c \notin denied /\ asking[c] = None /\ card[c] = None

Knock(c) ==
    /\ WiresOf(c) = {}
    /\ Unasked(c)
    /\ met' = met \cup {c}
    /\ \/ Existing = {} /\ UNCHANGED asking
       \/ \E g \in First : asking' = [asking EXCEPT ![c] = g]
    /\ UNCHANGED <<row, token, bot, public, denied, wiring, link, request, card, history>>

\* The owner's channel is found and the card written, or nobody is reachable.
Ask(c) ==
    /\ asking[c] # None
    /\ asking' = [asking EXCEPT ![c] = None]
    /\ card' \in {card, [card EXCEPT ![c] = asking[c]]}
    /\ UNCHANGED <<row, token, bot, people, wiring, link, request, history>>

\* The owner approves: a second wire for a pair that has one is refused by the
\* table, and the card stays.
Approve(c) ==
    LET g == card[c] IN
    /\ g # None
    /\ <<c, g>> \notin wire
    /\ wire' = wire \cup {<<c, g>>}
    /\ gated' = gated \cup {<<c, g>>}
    /\ card' = [card EXCEPT ![c] = None]
    /\ carded' = carded \cup {c}
    /\ overtaken' = IF row[g] = "archived" THEN overtaken \cup {g} ELSE overtaken
    /\ UNCHANGED <<row, token, bot, people, link, request, asking, paired>>

Ignore(c) ==
    /\ card[c] # None
    /\ denied' = denied \cup {c}
    /\ card' = [card EXCEPT ![c] = None]
    /\ UNCHANGED <<row, token, bot, met, public, wiring, link, request, asking, history>>

-----------------------------------------------------------------------------
\* A restart drops what was awaited; the adapter then makes every wired chat a
\* founder's direct message again.
Restart ==
    LET served == {c \in met : WiresOf(c) # {}} IN
    /\ request' = [r \in Requests |-> Idle]
    /\ asking' = [c \in Chats |-> None]
    /\ public' = public \cup served
    /\ denied' = denied \ served
    /\ gated' = {}
    /\ UNCHANGED <<row, token, bot, met, wire, link, card, history>>

Next ==
    \/ \E r \in Requests, g \in Groups : Create(r, g)
    \/ \E r \in Requests, l \in Links : CreateEnds(r, l)
    \/ \E r \in Requests, g \in Groups, c \in Chats : Bind(r, g, c)
    \/ \E r \in Requests : BindEnds(r)
    \/ \E r \in Requests : VaultFails(r)
    \/ \E g \in Groups : Disconnect(g)
    \/ \E c \in Chats, l \in Links : Start(c, l)
    \/ \E l \in Links : Expire(l)
    \/ \E c \in Chats : Knock(c)
    \/ \E c \in Chats : Ask(c)
    \/ \E c \in Chats : Approve(c)
    \/ \E c \in Chats : Ignore(c)
    \/ Restart

Spec == Init /\ [][Next]_vars

-----------------------------------------------------------------------------
(* Properties *)

\* A disconnected group holds no token, no bot and no chat, unless the
\* disconnect fell into an await of a pairing or a card was approved later
\* (performDisconnectCleanup against the awaits of create and bind).  The
\* state is well typed.
DisconnectHolds ==
    /\ TypeOK
    /\ \A g \in Groups : row[g] = "archived" /\ g \notin overtaken =>
           g \notin token /\ g \notin bot /\ WiresTo(g) = {}

\* A chat speaks to one group, unless an owner approved a card for it after
\* its last pairing: the adapter refuses to deliver to a chat with two.
OneVoice == \A c \in Chats : c \in carded \/ Cardinality(WiresOf(c)) <= 1

\* A chat that was paired and is served by nobody is denied: its messages
\* never reach the card that would pair it again behind the founder's back.
OrphansAreDenied == \A c \in paired : WiresOf(c) = {} => c \in denied

\* While a paired chat keeps its wire it is heard by anyone's rules: public
\* and with scope 'all', even if it wrote before it was paired.
FounderIsHeard ==
    \A c \in paired \ carded : WiresOf(c) # {} => c \in public /\ WiresOf(c) \cap gated = {}

=============================================================================
