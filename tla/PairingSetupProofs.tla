--------------------------- MODULE PairingSetupProofs ---------------------------
(***************************************************************************)
(* Proofs about the two ways a chat comes to belong to an agent.  They     *)
(* share nothing and the two parts are independent.                        *)
(*                                                                         *)
(* Pairing, for any groups, chats, links and requests: what a disconnect   *)
(* leaves behind, and whom a paired chat speaks to.                        *)
(*                                                                         *)
(* Setup, for any number of runs of the installer and of failures: what    *)
(* the installer has behind it is done, and a chat it wired has a working  *)
(* adapter.  The invariant describes the steps ahead one by one (StepAhead,*)
(* InitReady) and never as a whole, so that a step taken off the list, put *)
(* in front of it or replaced by a flow disturbs one of them only.         *)
(***************************************************************************)
EXTENDS Pairing, Setup, FiniteSetTheorems, TLAPS

-----------------------------------------------------------------------------
(* PAIRING *)

(* An open link names a group.                                              *)
LinksNamed == \A l \in Links : link[l].state = "open" => link[l].group \in Groups

(* The router has made a row for every chat a card is about.                *)
CardsMet == \A c \in Chats : asking[c] # None \/ card[c] # None => c \in met

Sound == TypeOK /\ LinksNamed /\ CardsMet

(* A group that was disconnected while nobody waited for the vault is bare, *)
(* and no request for it is under way that could still dress it.            *)
BareUnlessOvertaken ==
    \A g \in Groups : row[g] = "archived" /\ g \notin overtaken =>
        g \notin token /\ g \notin bot /\ WiresTo(g) = {} /\ ~Awaited(g)

(* Two wires of one chat are behind a card that came after its pairing.     *)
OneWire ==
    \A c \in Chats : c \notin carded =>
        \A v, w \in WiresOf(c) : v = w

IInv == Sound /\ BareUnlessOvertaken /\ OneWire /\ OrphansAreDenied /\ FounderIsHeard

-----------------------------------------------------------------------------
(* Types *)

(* A request that waits names its group, and a bind its chat.               *)
LEMMA RequestType ==
    ASSUME TypeOK, NEW r \in Requests
    PROVE  /\ request[r].kind = "create" => request[r].group \in Groups
           /\ request[r].kind = "bind" => request[r].group \in Groups /\ request[r].chat \in Chats
<1>1. CASE request[r] = Idle
  BY <1>1 DEF Idle
<1>2. CASE request[r] \in [kind : {"create"}, group : Groups, chat : {None}]
  BY <1>2
<1>3. CASE request[r] \in [kind : {"bind"}, group : Groups, chat : Chats]
  BY <1>3
<1> QED  BY <1>1, <1>2, <1>3 DEF TypeOK

(* A request that begins, or ends, is one of the three kinds.               *)
LEMMA RequestUpdate ==
    ASSUME TypeOK, NEW r \in Requests, NEW q,
           q \in {Idle} \cup [kind : {"create"}, group : Groups, chat : {None}]
                        \cup [kind : {"bind"}, group : Groups, chat : Chats],
           request' = [request EXCEPT ![r] = q]
    PROVE  request' \in [Requests ->
            {Idle} \cup [kind : {"create"}, group : Groups, chat : {None}]
                   \cup [kind : {"bind"}, group : Groups, chat : Chats]]
BY DEF TypeOK

(* What a pairing writes is well formed.                                    *)
LEMMA BoundSound ==
    ASSUME TypeOK, NEW c \in Chats, NEW g \in Groups, Bound(c, g)
    PROVE  /\ met' \subseteq Chats /\ public' \subseteq met' /\ denied' \subseteq met'
           /\ wire' \subseteq met' \X Groups /\ gated' \subseteq wire'
           /\ paired' \subseteq Chats /\ carded' \subseteq Chats
           /\ met \subseteq met'
BY DEF TypeOK, Bound, WiresOf

THEOREM TypeCorrect == Spec => []Sound
<1>1. Init => Sound
  BY DEF Init, Sound, TypeOK, LinksNamed, CardsMet, Idle
<1>2. Sound /\ [Next]_vars => Sound'
  <2> SUFFICES ASSUME Sound, [Next]_vars PROVE Sound'
    OBVIOUS
  <2> USE DEF Sound
  <2>1. ASSUME NEW r \in Requests, NEW g \in Groups, Create(r, g) PROVE Sound'
    <3>1. [kind |-> "create", group |-> g, chat |-> None]
            \in [kind : {"create"}, group : Groups, chat : {None}]
      OBVIOUS
    <3>2. request' \in [Requests ->
            {Idle} \cup [kind : {"create"}, group : Groups, chat : {None}]
                   \cup [kind : {"bind"}, group : Groups, chat : Chats]]
      BY <2>1, <3>1, RequestUpdate DEF Create
    <3>3. TypeOK'
      BY <2>1, <3>2 DEF TypeOK, Create, Revived, people, wiring, cards
    <3> QED  BY <2>1, <3>3 DEF LinksNamed, CardsMet, Create, people, cards
  <2>2. ASSUME NEW r \in Requests, NEW l \in Links, CreateEnds(r, l) PROVE Sound'
    <3>1. request[r].group \in Groups
      BY <2>2, RequestType DEF CreateEnds
    <3>2. request' \in [Requests ->
            {Idle} \cup [kind : {"create"}, group : Groups, chat : {None}]
                   \cup [kind : {"bind"}, group : Groups, chat : Chats]]
      BY <2>2, RequestUpdate DEF CreateEnds
    <3>3. bot' \subseteq Groups
      BY <2>2, <3>1 DEF CreateEnds, Assigned, TypeOK
    <3>4. [state |-> "open", group |-> request[r].group]
            \in [state : {"none", "open", "used"}, group : Groups \cup {None}]
      BY <3>1
    <3>5. link' \in [Links -> [state : {"none", "open", "used"}, group : Groups \cup {None}]]
      BY <2>2, <3>4 DEF CreateEnds, TypeOK
    <3>6. TypeOK'
      BY <2>2, <3>2, <3>3, <3>5 DEF TypeOK, CreateEnds, people, wiring, cards, history
    <3>7. LinksNamed'
      BY <2>2, <3>1 DEF LinksNamed, CreateEnds, TypeOK
    <3> QED  BY <2>2, <3>6, <3>7 DEF CardsMet, CreateEnds, people, cards
  <2>3. ASSUME NEW r \in Requests, NEW g \in Groups, NEW c \in Chats, Bind(r, g, c)
        PROVE  Sound'
    <3>1. [kind |-> "bind", group |-> g, chat |-> c]
            \in [kind : {"bind"}, group : Groups, chat : Chats]
      OBVIOUS
    <3>2. request' \in [Requests ->
            {Idle} \cup [kind : {"create"}, group : Groups, chat : {None}]
                   \cup [kind : {"bind"}, group : Groups, chat : Chats]]
      <4>1. CASE UNCHANGED request
        BY <4>1 DEF TypeOK
      <4>2. CASE request' = [request EXCEPT ![r] = [kind |-> "bind", group |-> g, chat |-> c]]
        BY <4>2, <3>1, RequestUpdate
      <4> QED  BY <2>3, <4>1, <4>2 DEF Bind
    <3>3. token' \subseteq Groups /\ bot' \subseteq Groups
      BY <2>3 DEF Bind, Assigned, TypeOK
    <3>4. TypeOK'
      BY <2>3, <3>2, <3>3 DEF TypeOK, Bind, Revived, people, wiring, cards
    <3> QED  BY <2>3, <3>4 DEF LinksNamed, CardsMet, Bind, people, cards
  <2>4. ASSUME NEW r \in Requests, BindEnds(r) PROVE Sound'
    <3>1. request[r].group \in Groups /\ request[r].chat \in Chats
      BY <2>4, RequestType DEF BindEnds
    <3>2. request' \in [Requests ->
            {Idle} \cup [kind : {"create"}, group : Groups, chat : {None}]
                   \cup [kind : {"bind"}, group : Groups, chat : Chats]]
      BY <2>4, RequestUpdate DEF BindEnds
    <3>3. /\ met' \subseteq Chats /\ public' \subseteq met' /\ denied' \subseteq met'
          /\ wire' \subseteq met' \X Groups /\ gated' \subseteq wire'
          /\ paired' \subseteq Chats /\ carded' \subseteq Chats
          /\ met \subseteq met'
      BY <2>4, <3>1, BoundSound DEF BindEnds
    <3>4. TypeOK'
      BY <2>4, <3>2, <3>3 DEF TypeOK, BindEnds, cards
    <3> QED  BY <2>4, <3>3, <3>4 DEF LinksNamed, CardsMet, BindEnds, cards
  <2>5. ASSUME NEW r \in Requests, VaultFails(r) PROVE Sound'
    <3>1. request' \in [Requests ->
            {Idle} \cup [kind : {"create"}, group : Groups, chat : {None}]
                   \cup [kind : {"bind"}, group : Groups, chat : Chats]]
      BY <2>5, RequestUpdate DEF VaultFails
    <3> QED
      BY <2>5, <3>1 DEF TypeOK, LinksNamed, CardsMet, VaultFails, people, wiring, cards, history
  <2>6. ASSUME NEW g \in Groups, Disconnect(g) PROVE Sound'
    <3>1. TypeOK'
      BY <2>6 DEF TypeOK, Disconnect, Unbound, Orphans, WiresTo, cards
    <3> QED  BY <2>6, <3>1 DEF LinksNamed, CardsMet, Disconnect, cards
  <2>7. ASSUME NEW c \in Chats, NEW l \in Links, Start(c, l) PROVE Sound'
    <3>1. link[l].group \in Groups
      BY <2>7 DEF Start, Consumable, LinksNamed
    <3>2. link' \in [Links -> [state : {"none", "open", "used"}, group : Groups \cup {None}]]
      BY <2>7 DEF Start, TypeOK
    <3>3. /\ met' \subseteq Chats /\ public' \subseteq met' /\ denied' \subseteq met'
          /\ wire' \subseteq met' \X Groups /\ gated' \subseteq wire'
          /\ paired' \subseteq Chats /\ carded' \subseteq Chats
          /\ met \subseteq met'
      <4>1. CASE Bound(c, link[l].group)
        BY <4>1, <3>1, BoundSound
      <4>2. CASE UNCHANGED <<people, wiring, paired, carded>>
        BY <4>2 DEF TypeOK, people, wiring
      <4> QED  BY <2>7, <4>1, <4>2 DEF Start
    <3>4. TypeOK'
      BY <2>7, <3>2, <3>3 DEF TypeOK, Start, cards
    <3>5. LinksNamed'
      BY <2>7 DEF LinksNamed, Start, TypeOK
    <3> QED  BY <2>7, <3>3, <3>4, <3>5 DEF CardsMet, Start, cards
  <2>8. ASSUME NEW l \in Links, Expire(l) PROVE Sound'
    <3>1. TypeOK'
      BY <2>8 DEF TypeOK, Expire, people, wiring, cards, history
    <3>2. LinksNamed'
      BY <2>8 DEF LinksNamed, Expire, TypeOK
    <3> QED  BY <2>8, <3>1, <3>2 DEF CardsMet, Expire, people, cards
  <2>9. ASSUME NEW c \in Chats, Knock(c) PROVE Sound'
    <3>1. asking' \in [Chats -> Groups \cup {None}] /\ met' = met \cup {c}
      BY <2>9 DEF Knock, First, Existing, TypeOK
    <3>2. TypeOK'
      BY <2>9, <3>1 DEF TypeOK, Knock, wiring, history
    <3>3. \A d \in Chats : asking'[d] # None => asking[d] # None \/ d = c
      BY <2>9 DEF Knock, TypeOK
    <3>4. CardsMet'
      BY <2>9, <3>1, <3>3 DEF CardsMet, Knock
    <3> QED  BY <2>9, <3>2, <3>4 DEF LinksNamed, Knock
  <2>10. ASSUME NEW c \in Chats, Ask(c) PROVE Sound'
    <3>1. TypeOK'
      BY <2>10 DEF TypeOK, Ask, people, wiring, history
    <3>2. CardsMet'
      BY <2>10 DEF CardsMet, Ask, people, TypeOK
    <3> QED  BY <2>10, <3>1, <3>2 DEF LinksNamed, Ask
  <2>11. ASSUME NEW c \in Chats, Approve(c) PROVE Sound'
    <3>1. card[c] \in Groups /\ c \in met
      BY <2>11 DEF Approve, TypeOK, CardsMet
    <3>2. TypeOK'
      BY <2>11, <3>1 DEF TypeOK, Approve, people
    <3>3. CardsMet'
      BY <2>11 DEF CardsMet, Approve, people, TypeOK
    <3> QED  BY <2>11, <3>2, <3>3 DEF LinksNamed, Approve
  <2>12. ASSUME NEW c \in Chats, Ignore(c) PROVE Sound'
    <3>1. c \in met
      BY <2>12 DEF Ignore, CardsMet
    <3>2. TypeOK'
      BY <2>12, <3>1 DEF TypeOK, Ignore, wiring, history
    <3>3. CardsMet'
      BY <2>12 DEF CardsMet, Ignore, TypeOK
    <3> QED  BY <2>12, <3>2, <3>3 DEF LinksNamed, Ignore
  <2>13. ASSUME Restart PROVE Sound'
    <3>1. TypeOK'
      BY <2>13 DEF TypeOK, Restart, history
    <3> QED  BY <2>13, <3>1 DEF LinksNamed, CardsMet, Restart
  <2>14. ASSUME UNCHANGED vars PROVE Sound'
    BY <2>14 DEF TypeOK, LinksNamed, CardsMet, vars, people, wiring, cards, history
  <2> QED
    BY <2>1, <2>2, <2>3, <2>4, <2>5, <2>6, <2>7, <2>8, <2>9, <2>10, <2>11, <2>12, <2>13,
       <2>14 DEF Next
<1> QED  BY <1>1, <1>2, PTL DEF Spec

-----------------------------------------------------------------------------
(* Disconnects *)

(* A pairing touches the wires of its own group only.                       *)
LEMMA BoundWires ==
    ASSUME NEW c \in Chats, NEW g \in Groups, Bound(c, g), NEW h \in Groups, h # g
    PROVE  WiresTo(h)' \subseteq WiresTo(h)
BY DEF Bound, WiresTo, WiresOf

LEMMA BareStep ==
    ASSUME Sound, BareUnlessOvertaken, [Next]_vars
    PROVE  BareUnlessOvertaken'
<1> USE DEF Sound
<1> SUFFICES ASSUME NEW h \in Groups, row'[h] = "archived", h \notin overtaken'
             PROVE  h \notin token' /\ h \notin bot' /\ WiresTo(h)' = {} /\ ~Awaited(h)'
  BY DEF BareUnlessOvertaken
<1> DEFINE Bare == h \notin token /\ h \notin bot /\ WiresTo(h) = {} /\ ~Awaited(h)
<1>0. row[h] = "archived" /\ h \notin overtaken => Bare
  BY DEF BareUnlessOvertaken
<1>1. ASSUME NEW r \in Requests, NEW g \in Groups, Create(r, g) PROVE Bare'
  <2>1. h # g /\ row[h] = "archived" /\ h \notin overtaken
    BY <1>1 DEF Create, Revived, TypeOK
  <2>2. Bare
    BY <1>0, <2>1
  <2>3. \A q \in Requests : request'[q].group = h => request[q].group = h
    BY <1>1, <2>1 DEF Create, TypeOK
  <2> QED  BY <1>1, <2>1, <2>2, <2>3 DEF Create, Awaited, WiresTo, wiring
<1>2. ASSUME NEW r \in Requests, NEW l \in Links, CreateEnds(r, l) PROVE Bare'
  <2>1. Bare
    BY <1>0, <1>2 DEF CreateEnds, history
  <2>2. request[r].group # h
    BY <2>1 DEF Awaited
  <2>3. \A q \in Requests : request'[q].group = h => request[q].group = h
    BY <1>2, GroupsAssumption DEF CreateEnds, TypeOK, Idle
  <2> QED  BY <1>2, <2>1, <2>2, <2>3 DEF CreateEnds, Assigned, Awaited, WiresTo, wiring
<1>3. ASSUME NEW r \in Requests, NEW g \in Groups, NEW c \in Chats, Bind(r, g, c)
      PROVE  Bare'
  <2>1. h # g /\ row[h] = "archived" /\ h \notin overtaken
    BY <1>3 DEF Bind, Revived, TypeOK
  <2>2. Bare
    BY <1>0, <2>1
  <2>3. \A q \in Requests : request'[q].group = h => request[q].group = h
    BY <1>3, <2>1 DEF Bind, TypeOK
  <2> QED  BY <1>3, <2>1, <2>2, <2>3 DEF Bind, Assigned, Awaited, WiresTo, wiring
<1>4. ASSUME NEW r \in Requests, BindEnds(r) PROVE Bare'
  <2>1. Bare
    BY <1>0, <1>4 DEF BindEnds
  <2>2. request[r].group \in Groups /\ request[r].chat \in Chats /\ request[r].group # h
    BY <1>4, <2>1, RequestType DEF BindEnds, Awaited
  <2>3. \A q \in Requests : request'[q].group = h => request[q].group = h
    BY <1>4, GroupsAssumption DEF BindEnds, TypeOK, Idle
  <2>4. WiresTo(h)' = {}
    BY <1>4, <2>1, <2>2, BoundWires DEF BindEnds
  <2> QED  BY <1>4, <2>1, <2>3, <2>4 DEF BindEnds, Awaited
<1>5. ASSUME NEW r \in Requests, VaultFails(r) PROVE Bare'
  <2>1. Bare
    BY <1>0, <1>5 DEF VaultFails, history
  <2>2. \A q \in Requests : request'[q].group = h => request[q].group = h
    BY <1>5, GroupsAssumption DEF VaultFails, TypeOK, Idle
  <2> QED  BY <1>5, <2>1, <2>2 DEF VaultFails, Awaited, WiresTo, wiring
<1>6. ASSUME NEW g \in Groups, Disconnect(g) PROVE Bare'
  <2>1. CASE h = g
    <3>1. ~Awaited(h)
      BY <1>6, <2>1 DEF Disconnect
    <3> QED  BY <1>6, <2>1, <3>1 DEF Disconnect, Unbound, Awaited, WiresTo
  <2>2. CASE h # g
    <3>1. Bare
      BY <1>0, <1>6, <2>2 DEF Disconnect, TypeOK
    <3> QED  BY <1>6, <3>1 DEF Disconnect, Unbound, Awaited, WiresTo
  <2> QED  BY <2>1, <2>2
<1>7. ASSUME NEW c \in Chats, NEW l \in Links, Start(c, l) PROVE Bare'
  <2>1. row[h] = "archived" /\ Bare
    BY <1>0, <1>7 DEF Start
  <2>2. link[l].group \in Groups
    BY <1>7 DEF Start, Consumable, LinksNamed
  <2>3. WiresTo(h)' = {}
    <3>1. CASE row[link[l].group] = "live" /\ Bound(c, link[l].group)
      BY <2>1, <2>2, <3>1, BoundWires
    <3>2. CASE UNCHANGED <<people, wiring, paired, carded>>
      BY <2>1, <3>2 DEF WiresTo, wiring
    <3> QED  BY <1>7, <3>1, <3>2 DEF Start
  <2> QED  BY <1>7, <2>1, <2>3 DEF Start, Awaited
<1>8. ASSUME NEW c \in Chats, Approve(c) PROVE Bare'
  <2>1. card[c] \in Groups
    BY <1>8 DEF Approve, TypeOK
  <2>2. row[h] = "archived" /\ h # card[c] /\ h \notin overtaken
    BY <1>8, <2>1 DEF Approve
  <2>3. Bare
    BY <1>0, <2>2
  <2>4. WiresTo(h)' = WiresTo(h)
    BY <1>8, <2>2 DEF Approve, WiresTo
  <2> QED  BY <1>8, <2>3, <2>4 DEF Approve, Awaited
<1>9. ASSUME Restart PROVE Bare'
  <2>1. Bare
    BY <1>0, <1>9 DEF Restart, history
  <2>2. \A q \in Requests : request'[q].group = None
    BY <1>9 DEF Restart, Idle
  <2> QED  BY <1>9, <2>1, <2>2, GroupsAssumption DEF Restart, Awaited, WiresTo
<1>10. ASSUME \/ \E l \in Links : Expire(l)
              \/ \E c \in Chats : Knock(c) \/ Ask(c) \/ Ignore(c)
              \/ UNCHANGED vars
       PROVE  Bare'
  <2>1. UNCHANGED <<row, token, bot, wire, request, overtaken>>
    BY <1>10 DEF Expire, Knock, Ask, Ignore, vars, wiring, history
  <2> QED  BY <1>0, <2>1 DEF Awaited, WiresTo
<1> QED
  BY <1>1, <1>2, <1>3, <1>4, <1>5, <1>6, <1>7, <1>8, <1>9, <1>10 DEF Next

-----------------------------------------------------------------------------
(* Whom a paired chat speaks to *)

(* The steps that change a wire, a gate, a denial or the history of a chat: *)
(* a pairing, a disconnect, an approved card and a restart; a click on      *)
(* Ignore denies, the rest leaves all of it alone.                          *)
LEMMA VoiceSteps ==
    ASSUME Sound, [Next]_vars
    PROVE  \/ \E c \in Chats, g \in Groups : Bound(c, g)
           \/ \E g \in Groups : Unbound(g) /\ UNCHANGED <<met, public, paired, carded>>
           \/ \E c \in Chats : Approve(c)
           \/ \E c \in Chats : Ignore(c)
           \/ Restart
           \/ UNCHANGED <<public, denied, wiring, paired, carded>>
<1> USE DEF Sound
<1>1. ASSUME NEW r \in Requests, BindEnds(r) PROVE \E c \in Chats, g \in Groups : Bound(c, g)
  BY <1>1, RequestType DEF BindEnds
<1>2. ASSUME NEW c \in Chats, NEW l \in Links, Start(c, l)
      PROVE  \/ \E d \in Chats, g \in Groups : Bound(d, g)
             \/ UNCHANGED <<people, wiring, paired, carded>>
  <2>1. link[l].group \in Groups
    BY <1>2 DEF Start, Consumable, LinksNamed
  <2> QED  BY <1>2, <2>1 DEF Start
<1>3. ASSUME NEW g \in Groups, Disconnect(g)
      PROVE  Unbound(g) /\ UNCHANGED <<met, public, paired, carded>>
  BY <1>3 DEF Disconnect
<1>4. ASSUME \/ \E r \in Requests, g \in Groups : Create(r, g)
             \/ \E r \in Requests, l \in Links : CreateEnds(r, l)
             \/ \E r \in Requests, g \in Groups, c \in Chats : Bind(r, g, c)
             \/ \E r \in Requests : VaultFails(r)
             \/ \E l \in Links : Expire(l)
             \/ \E c \in Chats : Knock(c) \/ Ask(c)
             \/ UNCHANGED vars
      PROVE  UNCHANGED <<public, denied, wiring, paired, carded>>
  BY <1>4 DEF Create, CreateEnds, Bind, VaultFails, Expire, Knock, Ask, vars, people, wiring,
              history
<1> QED  BY <1>1, <1>2, <1>3, <1>4 DEF Next, people

(* A pairing leaves the chat with one wire, ungated, public and not denied; *)
(* other chats keep what they have.                                         *)
LEMMA BoundVoice ==
    ASSUME TypeOK, NEW c \in Chats, NEW g \in Groups, Bound(c, g)
    PROVE  /\ WiresOf(c)' = {<<c, g>>} /\ WiresOf(c)' \cap gated' = {}
           /\ c \in public' /\ c \notin carded'
           /\ \A d \in Chats : d # c =>
                 /\ WiresOf(d)' = WiresOf(d)
                 /\ WiresOf(d)' \cap gated' = WiresOf(d) \cap gated
                 /\ d \in public => d \in public'
                 /\ d \in denied => d \in denied'
                 /\ d \in paired' <=> d \in paired
                 /\ d \in carded' <=> d \in carded
<1>1. c \in public' /\ c \notin carded'
  BY DEF Bound
<1>2. WiresOf(c)' = {<<c, g>>}
  BY DEF Bound, WiresOf
<1>3. WiresOf(c)' \cap gated' = {}
  BY <1>2 DEF Bound, WiresOf, TypeOK
<1>4. ASSUME NEW d \in Chats, d # c
      PROVE  /\ WiresOf(d)' = WiresOf(d)
             /\ WiresOf(d)' \cap gated' = WiresOf(d) \cap gated
  BY <1>4 DEF Bound, WiresOf
<1>5. ASSUME NEW d \in Chats, d # c
      PROVE  /\ d \in public => d \in public'
             /\ d \in denied => d \in denied'
             /\ d \in paired' <=> d \in paired
             /\ d \in carded' <=> d \in carded
  BY <1>5 DEF Bound
<1> QED  BY <1>1, <1>2, <1>3, <1>4, <1>5

(* A disconnect takes wires away, and denies the chats it leaves without.   *)
LEMMA UnboundVoice ==
    ASSUME TypeOK, NEW g \in Groups, Unbound(g), NEW c \in Chats
    PROVE  /\ WiresOf(c)' \subseteq WiresOf(c)
           /\ gated' \subseteq gated
           /\ denied \subseteq denied'
           /\ WiresOf(c) # {} /\ WiresOf(c)' = {} => c \in denied'
<1>1. /\ WiresOf(c)' \subseteq WiresOf(c)
      /\ gated' \subseteq gated
      /\ denied \subseteq denied'
  BY DEF Unbound, WiresOf
<1>2. ASSUME WiresOf(c) # {}, WiresOf(c)' = {} PROVE c \in denied'
  <2>1. \A w \in WiresOf(c) : w = <<c, g>>
    BY <1>2 DEF Unbound, WiresOf, WiresTo, TypeOK
  <2>2. WiresOf(c) = {<<c, g>>} /\ <<c, g>> \in wire
    BY <1>2, <2>1 DEF WiresOf
  <2>3. c \in Orphans(g)
    BY <2>2 DEF Orphans, TypeOK
  <2> QED  BY <2>3 DEF Unbound
<1> QED  BY <1>1, <1>2

LEMMA VoiceStep ==
    ASSUME Sound, OneWire, OrphansAreDenied, FounderIsHeard, [Next]_vars
    PROVE  OneWire' /\ OrphansAreDenied' /\ FounderIsHeard'
<1> USE DEF Sound
<1> SUFFICES ASSUME NEW d \in Chats
             PROVE  /\ d \notin carded' => \A v, w \in WiresOf(d)' : v = w
                    /\ d \in paired' /\ WiresOf(d)' = {} => d \in denied'
                    /\ d \in paired' /\ d \notin carded' /\ WiresOf(d)' # {}
                         => d \in public' /\ WiresOf(d)' \cap gated' = {}
  <2>1. paired' \subseteq Chats
    <3>1. ASSUME NEW c \in Chats, NEW g \in Groups, Bound(c, g) PROVE paired' \subseteq Chats
      BY <3>1 DEF Bound, TypeOK
    <3>2. ASSUME \/ \E c \in Chats : Approve(c) \/ Ignore(c)
                 \/ Restart \/ UNCHANGED paired
          PROVE  paired' \subseteq Chats
      BY <3>2 DEF Approve, Ignore, Restart, history, TypeOK
    <3> QED  BY <3>1, <3>2, VoiceSteps
  <2> QED  BY <2>1 DEF OneWire, OrphansAreDenied, FounderIsHeard
<1>0. /\ d \notin carded => \A v, w \in WiresOf(d) : v = w
      /\ d \in paired /\ WiresOf(d) = {} => d \in denied
      /\ d \in paired /\ d \notin carded /\ WiresOf(d) # {}
           => d \in public /\ WiresOf(d) \cap gated = {}
  BY DEF OneWire, OrphansAreDenied, FounderIsHeard
<1>1. CASE \E c \in Chats, g \in Groups : Bound(c, g)
  <2> PICK c \in Chats, g \in Groups : Bound(c, g)
    BY <1>1
  <2>1. CASE d = c
    BY <2>1, BoundVoice
  <2>2. CASE d # c
    BY <2>2, <1>0, BoundVoice
  <2> QED  BY <2>1, <2>2
<1>2. CASE \E g \in Groups : Unbound(g) /\ UNCHANGED <<met, public, paired, carded>>
  <2> PICK g \in Groups : Unbound(g) /\ UNCHANGED <<met, public, paired, carded>>
    BY <1>2
  <2>1. /\ WiresOf(d)' \subseteq WiresOf(d)
        /\ gated' \subseteq gated
        /\ denied \subseteq denied'
        /\ WiresOf(d) # {} /\ WiresOf(d)' = {} => d \in denied'
    BY UnboundVoice
  <2> QED  BY <1>0, <2>1
<1>3. CASE \E c \in Chats : Approve(c)
  <2> PICK c \in Chats : Approve(c)
    BY <1>3
  <2>1. CASE d = c
    <3>1. WiresOf(d)' # {} /\ d \in carded'
      BY <2>1 DEF Approve, WiresOf
    <3> QED  BY <3>1
  <2>2. CASE d # c
    <3>1. /\ WiresOf(d)' = WiresOf(d)
          /\ WiresOf(d)' \cap gated' = WiresOf(d) \cap gated
      BY <2>2 DEF Approve, WiresOf
    <3>2. /\ d \in carded' <=> d \in carded
          /\ UNCHANGED <<public, denied, paired>>
      BY <2>2 DEF Approve, people
    <3> QED  BY <1>0, <3>1, <3>2
  <2> QED  BY <2>1, <2>2
<1>4. CASE \E c \in Chats : Ignore(c)
  BY <1>0, <1>4 DEF Ignore, WiresOf, wiring, history
<1>5. CASE Restart
  <2>1. WiresOf(d)' = WiresOf(d) /\ gated' = {} /\ UNCHANGED <<paired, carded>>
    BY <1>5 DEF Restart, WiresOf, history
  <2>2. WiresOf(d) = {} /\ d \in denied => d \in denied'
    BY <1>5 DEF Restart
  <2>3. d \in public => d \in public'
    BY <1>5 DEF Restart
  <2> QED  BY <1>0, <2>1, <2>2, <2>3
<1>6. CASE UNCHANGED <<public, denied, wiring, paired, carded>>
  BY <1>0, <1>6 DEF WiresOf, wiring
<1> QED  BY <1>1, <1>2, <1>3, <1>4, <1>5, <1>6, VoiceSteps

-----------------------------------------------------------------------------
(* The theorems *)

(* The strengthened invariant: types, named links, chats behind the cards,  *)
(* groups that are bare unless overtaken, and the wires of every chat.      *)
THEOREM Inductive == Spec => []IInv
<1>1. Init => BareUnlessOvertaken /\ OneWire /\ OrphansAreDenied /\ FounderIsHeard
  BY DEF Init, BareUnlessOvertaken, OneWire, OrphansAreDenied, FounderIsHeard, WiresOf
<1>2. Sound /\ BareUnlessOvertaken /\ OneWire /\ OrphansAreDenied /\ FounderIsHeard
        /\ [Next]_vars
      => (BareUnlessOvertaken /\ OneWire /\ OrphansAreDenied /\ FounderIsHeard)'
  BY BareStep, VoiceStep
<1> QED  BY <1>1, <1>2, TypeCorrect, PTL DEF Spec, IInv

(* performDisconnectCleanup against the awaits of create and bind: a        *)
(* disconnected group keeps no token, no bot and no chat, unless a request  *)
(* was under way or a card came later.                                      *)
THEOREM DisconnectIsFinal == Spec => []DisconnectHolds
<1>1. IInv => DisconnectHolds
  BY DEF IInv, Sound, BareUnlessOvertaken, DisconnectHolds
<1> QED  BY <1>1, Inductive, PTL

(* A chat speaks to one group, unless a card added another after its last   *)
(* pairing.                                                                 *)
THEOREM OneVoicePerChat == Spec => []OneVoice
<1>1. IInv => OneVoice
  <2> SUFFICES ASSUME IInv, NEW c \in Chats, c \notin carded
               PROVE  Cardinality(WiresOf(c)) <= 1
    BY DEF OneVoice
  <2>1. \A v, w \in WiresOf(c) : v = w
    BY DEF IInv, OneWire
  <2>2. CASE WiresOf(c) = {}
    BY <2>2, FS_EmptySet
  <2>3. CASE WiresOf(c) # {}
    <3>1. PICK w \in WiresOf(c) : TRUE
      BY <2>3
    <3>2. WiresOf(c) = {w}
      BY <2>1, <3>1
    <3> QED  BY <3>2, FS_Singleton
  <2> QED  BY <2>2, <2>3
<1> QED  BY <1>1, Inductive, PTL

(* A chat that was paired and is served by nobody stays denied, so no card  *)
(* can pair it again.                                                       *)
THEOREM OrphansStayDenied == Spec => []OrphansAreDenied
<1>1. IInv => OrphansAreDenied
  BY DEF IInv
<1> QED  BY <1>1, Inductive, PTL

(* A paired chat that keeps its wire is public and ungated.                 *)
THEOREM FoundersAreHeard == Spec => []FounderIsHeard
<1>1. IInv => FounderIsHeard
  BY DEF IInv
<1> QED  BY <1>1, Inductive, PTL

-----------------------------------------------------------------------------
(* SETUP *)

(* The domain of Flows does not depend on the state.                        *)
Apps == {"telegram", "discord", "slack", "imessage", "signal", "whatsapp", "teams"}
(* The names of the main list; no step of a flow has one of them.           *)
MainNames == Lasting \cup {"environment", "existing", "channel", "verify"}

(* A list of whatever; the i-th step of a list has one of a kind before it. *)
IsAList(s) == \E S : s \in Seq(S)
Before(s, i, kind) == \E j \in 1..(i - 1) : s[j].kind = kind

(* A step of an app's flow is no main step, its failure is awaited but in   *)
(* the loose apps, and a chat is wired after the adapter is installed and   *)
(* the account linked.                                                      *)
FlowStep(f, i, c) ==
    /\ f[i].kind \notin {"main", "zone"} /\ f[i].name \notin MainNames
    /\ f[i].awaited = TRUE \/ (f[i].awaited = FALSE /\ c \in LooseApps)
    /\ f[i].kind = "init" /\ c \notin LooseApps =>
          Before(f, i, "install") /\ (c \in Linking => Before(f, i, "link"))
GoodFlow(f, c) == IsAList(f) /\ \A i \in 1..Len(f) : FlowStep(f, i, c)

LEMMA AppsAre == Channels = Apps
BY DEF Channels, Flows, Apps

LEMMA AppsAreNext == (Channels = Apps)'
BY AppsAre, PTL

-----------------------------------------------------------------------------
(* The flows *)

(* The flows, app by app.                                                  *)
LEMMA TelegramGood == GoodFlow(TelegramFlow, "telegram")
<1>1. /\ TelegramFlow \in Seq({TelegramToken, TelegramValidate, TelegramPair, OperatorRole,
                               AgentName, FirstAgent, Step("install", "telegram-install")})
      /\ Len(TelegramFlow) = 7
  BY DEF TelegramFlow
<1>2. ASSUME NEW i \in 1..7 PROVE FlowStep(TelegramFlow, i, "telegram")
  BY DEF FlowStep, Before, MainNames, Lasting, LooseApps, Linking, Step, TelegramFlow,
         TelegramToken, TelegramValidate, TelegramPair, OperatorRole, AgentName, FirstAgent
<1> QED  BY <1>1, <1>2 DEF GoodFlow, IsAList

LEMMA DiscordGood == GoodFlow(DiscordFlow, "discord")
<1>1. /\ DiscordFlow \in Seq({DiscordBot, DiscordToken, DiscordValidate, DiscordAppInfo,
                              DiscordOwner, DiscordInvite, DiscordOpenDm, OperatorRole,
                              AgentName, FirstAgent, Step("install", "discord-install")})
      /\ Len(DiscordFlow) = 11
  BY DEF DiscordFlow
<1>2. ASSUME NEW i \in 1..11 PROVE FlowStep(DiscordFlow, i, "discord")
  BY DEF FlowStep, Before, MainNames, Lasting, LooseApps, Linking, Step, DiscordFlow,
         DiscordBot, DiscordToken, DiscordValidate, DiscordAppInfo, DiscordOwner, DiscordInvite,
         DiscordOpenDm, OperatorRole, AgentName, FirstAgent
<1> QED  BY <1>1, <1>2 DEF GoodFlow, IsAList

LEMMA SlackGood == GoodFlow(SlackFlow, "slack")
<1>1. /\ SlackFlow \in Seq({SlackApp, SlackToken, SlackSecret, SlackValidate, SlackUser,
                            SlackOpenDm, OperatorRole, AgentName, FirstAgent,
                            Step("install", "slack-install")})
      /\ Len(SlackFlow) = 10
  BY DEF SlackFlow
<1>2. ASSUME NEW i \in 1..10 PROVE FlowStep(SlackFlow, i, "slack")
  BY DEF FlowStep, Before, MainNames, Lasting, LooseApps, Linking, Step, SlackFlow,
         SlackApp, SlackToken, SlackSecret, SlackValidate, SlackUser, SlackOpenDm,
         OperatorRole, AgentName, FirstAgent
<1> QED  BY <1>1, <1>2 DEF GoodFlow, IsAList

LEMMA IMessageGood ==
    ASSUME NEW s \in {IMessageAccess, IMessageCreds}
    PROVE  GoodFlow(IMessageFlow(s), "imessage")
<1>1. /\ IMessageFlow(s) \in Seq({s, IMessageHandle, OperatorRole, AgentName, FirstAgent,
                                  Step("install", "imessage-install")})
      /\ Len(IMessageFlow(s)) = 6
  BY DEF IMessageFlow
<1>2. ASSUME NEW i \in 1..6 PROVE FlowStep(IMessageFlow(s), i, "imessage")
  BY DEF FlowStep, Before, MainNames, Lasting, LooseApps, Linking, Step, IMessageFlow,
         IMessageAccess, IMessageCreds, IMessageHandle, OperatorRole, AgentName, FirstAgent
<1> QED  BY <1>1, <1>2 DEF GoodFlow, IsAList

LEMMA SignalGood == GoodFlow(SignalFlow, "signal")
<1>1. /\ SignalFlow \in Seq({SignalCli, SignalAuth, SignalAccount, OperatorRole, AgentName,
                             FirstAgent, Step("install", "signal-install")})
      /\ Len(SignalFlow) = 7
  BY DEF SignalFlow
<1>2. ASSUME NEW i \in 1..7 PROVE FlowStep(SignalFlow, i, "signal")
  BY DEF FlowStep, Before, MainNames, Lasting, LooseApps, Linking, Step, SignalFlow,
         SignalCli, SignalAuth, SignalAccount, OperatorRole, AgentName, FirstAgent
<1> QED  BY <1>1, <1>2 DEF GoodFlow, IsAList

LEMMA WhatsAppGood ==
    ASSUME NEW m \in {<<WhatsAppMethod>>, <<WhatsAppMethod, WhatsAppPhone>>}
    PROVE  GoodFlow(WhatsAppFlow(m), "whatsapp")
<1> DEFINE S == {WhatsAppMethod, WhatsAppPhone, WhatsAppAuth, WhatsAppRestart, WhatsAppChat,
                 OperatorRole, AgentName, Loose("install", "whatsapp-install"),
                 Loose("init", "init-first-agent")}
<1>1. WhatsAppFlow(m) \in Seq(S) /\ Len(WhatsAppFlow(m)) = Len(m) + 7
  <2>1. CASE m = <<WhatsAppMethod>>
    BY <2>1 DEF WhatsAppFlow
  <2>2. CASE m = <<WhatsAppMethod, WhatsAppPhone>>
    BY <2>2 DEF WhatsAppFlow
  <2> QED  BY <2>1, <2>2
<1>2. ASSUME NEW i \in 1..(Len(m) + 7) PROVE FlowStep(WhatsAppFlow(m), i, "whatsapp")
  BY DEF FlowStep, Before, MainNames, Lasting, LooseApps, Linking, Step, Loose, WhatsAppFlow,
         WhatsAppMethod, WhatsAppPhone, WhatsAppAuth, WhatsAppRestart, WhatsAppChat,
         OperatorRole, AgentName
<1> QED  BY <1>1, <1>2 DEF GoodFlow, IsAList

LEMMA TeamsGood == GoodFlow(TeamsFlow, "teams") /\ GoodFlow(TeamsReuse, "teams")
<1>1. /\ TeamsFlow \in Seq({TeamsPrereqs, TeamsUrl, TeamsApp, TeamsSecret, TeamsBot,
                            TeamsEnable, TeamsManifest, TeamsSideload, TeamsInstall,
                            TeamsFinish})
      /\ Len(TeamsFlow) = 10
  BY DEF TeamsFlow
<1>2. TeamsReuse \in Seq({TeamsInstall, TeamsFinish}) /\ Len(TeamsReuse) = 2
  BY DEF TeamsReuse
<1>3. ASSUME NEW i \in 1..10 PROVE FlowStep(TeamsFlow, i, "teams")
  BY DEF FlowStep, Before, MainNames, Lasting, LooseApps, Linking, Step, Loose, TeamsFlow,
         TeamsPrereqs, TeamsUrl, TeamsApp, TeamsSecret, TeamsBot, TeamsEnable, TeamsManifest,
         TeamsSideload, TeamsInstall, TeamsFinish
<1>4. ASSUME NEW i \in 1..2 PROVE FlowStep(TeamsReuse, i, "teams")
  BY DEF FlowStep, Before, MainNames, Lasting, LooseApps, Linking, Step, Loose, TeamsReuse,
         TeamsInstall, TeamsFinish
<1> QED  BY <1>1, <1>2, <1>3, <1>4 DEF GoodFlow, IsAList

(* Whatever flow the operator chooses.                                      *)
LEMMA FlowsGood ==
    ASSUME NEW c \in Channels, NEW f \in Flows[c]
    PROVE  GoodFlow(f, c)
<1>1. c \in Apps
  BY AppsAre
<1>2. CASE c = "telegram"
  BY <1>2, TelegramGood DEF Flows
<1>3. CASE c = "discord"
  BY <1>3, DiscordGood DEF Flows
<1>4. CASE c = "slack"
  BY <1>4, SlackGood DEF Flows
<1>5. CASE c = "imessage"
  BY <1>5, IMessageGood DEF Flows
<1>6. CASE c = "signal"
  BY <1>6, SignalGood DEF Flows
<1>7. CASE c = "whatsapp"
  BY <1>7, WhatsAppGood DEF Flows
<1>8. CASE c = "teams"
  BY <1>8, TeamsGood DEF Flows
<1> QED  BY <1>1, <1>2, <1>3, <1>4, <1>5, <1>6, <1>7, <1>8 DEF Apps

(* The main list: its kinds, where the app is chosen, and what is lasting.  *)
LEMMA MainStepsAre ==
    /\ MainSteps \in Seq({Main(n) : n \in MainNames}) /\ Len(MainSteps) = 11
    /\ \A i \in 1..11 : MainSteps[i].kind = "main" /\ MainSteps[i].awaited = TRUE
    /\ \A i \in 1..11 : MainSteps[i].name = "channel" => i = 10
    /\ MainSteps[11].name = "verify"
    /\ \A n \in Lasting : \E i \in 1..11 : MainSteps[i].name = n
<1>1. MainSteps \in Seq({Main(n) : n \in MainNames}) /\ Len(MainSteps) = 11
  BY DEF MainSteps, MainNames, Lasting
<1>2. \A i \in 1..11 : MainSteps[i].kind = "main" /\ MainSteps[i].awaited = TRUE
  BY DEF MainSteps, Main, Step
<1>3. \A i \in 1..11 : MainSteps[i].name = "channel" => i = 10
  BY DEF MainSteps, Main, Step
<1>4. MainSteps[11].name = "verify"
  BY DEF MainSteps, Main, Step
<1>5. ASSUME NEW n \in Lasting PROVE \E i \in 1..11 : MainSteps[i].name = n
  BY DEF MainSteps, Main, Step, Lasting
<1> QED  BY <1>1, <1>2, <1>3, <1>4, <1>5

-----------------------------------------------------------------------------
(* The steps ahead *)

(* What a step of the list says of the process: a flow runs when a step of  *)
(* it is ahead, and behind the choice of the app no main step is left but   *)
(* the last.                                                                *)
StepAhead(i) ==
    /\ todo[i].awaited = TRUE \/ (todo[i].awaited = FALSE /\ channel \in LooseApps)
    /\ todo[i].kind # "main" => todo[i].name \notin MainNames
    /\ todo[i].kind \notin {"main", "zone"} => channel # "none"
    /\ channel # "none" =>
          todo[i].name \notin Lasting \cup {"channel"} /\ todo[i].kind # "zone"
    /\ todo[i].name = "channel" =>
          \A j \in (i + 1)..Len(todo) :
              todo[j].name \notin Lasting \cup {"channel"} /\ todo[j].kind = "main"
StepsOrdered == IsAList(todo) /\ \A i \in 1..Len(todo) : StepAhead(i)

(* What is left out, was carried over or is completed was done, and a chat  *)
(* is wired after the agent is registered.                                  *)
Recorded ==
    /\ \A name \in Lasting : name \in skip \cup carried \cup completed => name \in facts
    /\ wired # {} => "cli-agent" \in facts

(* An adapter that is there but not in the build was left by a break.       *)
BreaksKnown == \A c \in Apps : adapter[c] \in {"copied", "packaged"} => c \in broken

(* A chat is wired after the adapter works and the account is linked.       *)
Works(c) == adapter[c] = "built" \/ c \in broken \ {"signal"}
InitReady(i) ==
    /\ Works(channel) \/ Before(todo, i, "install")
    /\ channel \in Linking => channel \in linked \/ Before(todo, i, "link")
Prepared ==
    \A i \in 1..Len(todo) : todo[i].kind = "init" /\ channel \notin LooseApps => InitReady(i)

SetupInv == StepsOrdered /\ Recorded /\ BreaksKnown /\ Prepared /\ PastIsDone /\ WiredWorks

(* The ways the list changes: a question for the time zone is put in front, *)
(* a flow is, the list begins anew, or its first step is taken off.         *)
Zoned == Running("timezone") /\ todo' = <<Step("zone", "zone")>> \o Tail(todo)
         /\ UNCHANGED channel
Flowing == Running("channel") /\ \E c \in Channels : \E f \in Flows[c] :
              channel' = c /\ todo' = f \o Tail(todo)
Begun == todo' = MainSteps /\ channel' = "none"
Passing == todo # <<>> /\ Passed

(* A failure leaves the list, or takes off a step whose failure is loose.   *)
LEMMA FailsIs ==
    ASSUME NEW s, s.awaited = TRUE \/ s.awaited = FALSE, Fails(s)
    PROVE  UNCHANGED ahead \/ (s.awaited = FALSE /\ Passed)
BY DEF Fails

(* The first step, and the rest.                                            *)
LEMMA Listed ==
    ASSUME IsAList(todo), todo # <<>>
    PROVE  /\ Len(todo) \in Nat /\ 1 \in 1..Len(todo) /\ Head(todo) = todo[1]
           /\ IsAList(Tail(todo)) /\ Len(Tail(todo)) = Len(todo) - 1
           /\ \A i \in 1..(Len(todo) - 1) : Tail(todo)[i] = todo[i + 1]
<1>1. PICK S : todo \in Seq(S)
  BY DEF IsAList
<1>2. Tail(todo) \in Seq(S)
  BY <1>1
<1> QED  BY <1>1, <1>2 DEF IsAList

(* Every action changes the list in one of these ways.                      *)
LEMMA Moves ==
    ASSUME StepsOrdered, SetupNext
    PROVE  UNCHANGED ahead \/ Passing \/ Begun \/ Zoned \/ Flowing
<1>1. ASSUME todo # <<>> 
      PROVE Head(todo).awaited = TRUE \/ Head(todo).awaited = FALSE
  BY <1>1, Listed DEF StepsOrdered, StepAhead
<1>2. ASSUME todo # <<>>, Fails(Head(todo)) PROVE UNCHANGED ahead \/ Passing
  BY <1>1, <1>2, FailsIs DEF Passing
<1>3. CASE Asks \/ LeavesOut \/ ExistingEnv \/ Accounts \/ Packages \/ Verify
  BY <1>3 DEF Asks, LeavesOut, ExistingEnv, Accounts, Packages, Verify, Goes, Exits, Running,
      RunsKind, Passing, ahead
<1>4. CASE Environment \/ Auth \/ Service \/ Zone \/ Checks \/ LinksAccount \/ Inits
  BY <1>2, <1>4 DEF Environment, Auth, Service, Zone, Checks, LinksAccount, Inits, Goes, Exits,
      Running, RunsKind, Passing, ahead
<1>5. CASE Container \/ Onecli \/ Mounts \/ CliAgent
  BY <1>2, <1>5 DEF Container, Onecli, Mounts, CliAgent, Sets, Goes, Running, Passing
<1>6. CASE Installs
  BY <1>2, <1>6 DEF Installs, InstallEnds, InstallFails, Goes, RunsKind, Passing
<1>7. CASE Timezone
  BY <1>7 DEF Timezone, Running, Passing, Passed, Zoned
<1>8. CASE Channel
  BY <1>8 DEF Channel, Running, Passing, Flowing
<1>9. CASE ReexecUnderSg \/ Retries \/ Starts \/ GivesUp
  BY <1>9 DEF ReexecUnderSg, Retries, Starts, GivesUp, Begin, Begun, Exits
<1> QED  BY <1>3, <1>4, <1>5, <1>6, <1>7, <1>8, <1>9 DEF SetupNext

(* What the new list holds.                                                 *)
LEMMA PassedList ==
    ASSUME IsAList(todo), Passing
    PROVE  /\ IsAList(todo)' /\ Len(todo') = Len(todo) - 1 /\ Len(todo) \in Nat
           /\ \A i \in 1..Len(todo') : todo'[i] = todo[i + 1] /\ i + 1 \in 1..Len(todo)
           /\ channel' = channel /\ 1 \in 1..Len(todo) /\ Head(todo) = todo[1]
<1>1. todo' = Tail(todo) /\ channel' = channel /\ todo # <<>>
  BY DEF Passing, Passed
<1>2. PICK t : t = Tail(todo)
  OBVIOUS
<1>3. IsAList(todo)'
  BY <1>1, Listed DEF IsAList
<1>4. Len(todo') = Len(todo) - 1 /\ Len(todo) \in Nat
  BY <1>1, Listed
<1>5. ASSUME NEW i \in 1..Len(todo')
      PROVE  todo'[i] = todo[i + 1] /\ i + 1 \in 1..Len(todo)
  BY <1>1, <1>4, <1>5, Listed
<1> QED  BY <1>1, <1>3, <1>4, <1>5, Listed

(* Two lists, one after the other.                                          *)
LEMMA JoinedList ==
    ASSUME NEW f, NEW t, IsAList(f), IsAList(t)
    PROVE  /\ IsAList(f \o t) /\ Len(f \o t) = Len(f) + Len(t)
           /\ Len(f) \in Nat /\ Len(t) \in Nat
           /\ \A i \in 1..Len(f) : (f \o t)[i] = f[i]
           /\ \A i \in (Len(f) + 1)..(Len(f) + Len(t)) : (f \o t)[i] = t[i - Len(f)]
<1>1. PICK S : f \in Seq(S)
  BY DEF IsAList
<1>2. PICK T : t \in Seq(T)
  BY DEF IsAList
<1>3. f \in Seq(S \cup T) /\ t \in Seq(S \cup T)
  BY <1>1, <1>2
<1>4. f \o t \in Seq(S \cup T)
  BY <1>3
<1> QED  BY <1>3, <1>4 DEF IsAList

(* The question for the time zone takes the place of the step before it.    *)
LEMMA ZonedList ==
    ASSUME StepsOrdered, Zoned
    PROVE  /\ IsAList(todo)' /\ Len(todo') = Len(todo) /\ Len(todo) \in Nat
           /\ todo'[1] = Step("zone", "zone")
           /\ \A i \in 2..Len(todo) : todo'[i] = todo[i]
           /\ 1 \in 1..Len(todo) /\ todo[1].name = "timezone"
           /\ channel' = channel
<1> DEFINE z == <<Step("zone", "zone")>>
           t == Tail(todo)
<1>1. /\ todo # <<>> /\ Head(todo).name = "timezone" /\ todo' = z \o t
      /\ channel' = channel
  BY DEF Zoned, Running
<1>2. IsAList(z) /\ Len(z) = 1 /\ z[1] = Step("zone", "zone")
  <2>1. z \in Seq({Step("zone", "zone")})
    OBVIOUS
  <2> QED  BY <2>1 DEF IsAList
<1>3. /\ IsAList(t) /\ Len(t) = Len(todo) - 1 /\ Len(todo) \in Nat
      /\ 1 \in 1..Len(todo) /\ todo[1].name = "timezone"
      /\ \A i \in 1..(Len(todo) - 1) : t[i] = todo[i + 1]
  BY <1>1, Listed DEF StepsOrdered
<1> HIDE DEF z, t
<1>4. /\ IsAList(z \o t) /\ Len(z \o t) = Len(z) + Len(t)
      /\ \A i \in 1..Len(z) : (z \o t)[i] = z[i]
      /\ \A i \in (Len(z) + 1)..(Len(z) + Len(t)) : (z \o t)[i] = t[i - Len(z)]
  BY <1>2, <1>3, JoinedList
<1>5. Len(todo') = Len(todo) /\ todo'[1] = Step("zone", "zone")
  BY <1>1, <1>2, <1>3, <1>4
<1>6. ASSUME NEW i \in 2..Len(todo) PROVE todo'[i] = todo[i]
  <2>1. i - 1 \in 1..(Len(todo) - 1) /\ i \in (Len(z) + 1)..(Len(z) + Len(t))
    BY <1>2, <1>3
  <2>2. todo'[i] = t[i - 1]
    BY <1>1, <1>2, <1>4, <2>1
  <2>3. t[i - 1] = todo[(i - 1) + 1]
    BY <1>3, <2>1
  <2> QED  BY <2>2, <2>3
<1> QED  BY <1>1, <1>3, <1>4, <1>5, <1>6 DEF IsAList

(* The flow comes before the steps that were behind the choice of the app.  *)
Flowed(f, c) ==
    /\ GoodFlow(f, c) /\ c \in Apps /\ Len(f) \in Nat
    /\ IsAList(todo)' /\ Len(todo') \in Nat /\ channel' = c
    /\ \A i \in 1..Len(f) : todo'[i] = f[i] /\ i \in 1..Len(todo')
    /\ \A i \in (Len(f) + 1)..Len(todo') :
          /\ todo'[i].name \notin Lasting \cup {"channel"} /\ todo'[i].kind = "main"
          /\ todo'[i].awaited = TRUE

LEMMA FlowingList == ASSUME StepsOrdered, Flowing PROVE \E c, f : Flowed(f, c)
<1>1. PICK c \in Channels : \E f \in Flows[c] : channel' = c /\ todo' = f \o Tail(todo)
  BY DEF Flowing
<1>2. PICK f \in Flows[c] :
        todo # <<>> /\ Head(todo).name = "channel" /\ channel' = c /\ todo' = f \o Tail(todo)
  BY <1>1 DEF Flowing, Running
<1>3. GoodFlow(f, c) /\ c \in Apps /\ IsAList(f)
  BY FlowsGood, AppsAre DEF GoodFlow
<1> DEFINE t == Tail(todo)
<1>4. /\ IsAList(t) /\ Len(t) = Len(todo) - 1 /\ Len(todo) \in Nat /\ StepAhead(1)
      /\ todo[1].name = "channel"
      /\ \A i \in 1..Len(t) : t[i] = todo[i + 1]
  BY <1>2, Listed DEF StepsOrdered
<1>5. ASSUME NEW i \in 1..Len(t)
      PROVE  /\ t[i].name \notin Lasting \cup {"channel"}
             /\ t[i].kind = "main" /\ t[i].awaited = TRUE
  <2>1. i + 1 \in 2..Len(todo) /\ t[i] = todo[i + 1] /\ StepAhead(i + 1)
    BY <1>4 DEF StepsOrdered
  <2>2. t[i].name \notin Lasting \cup {"channel"} /\ t[i].kind = "main"
    BY <1>4, <2>1 DEF StepAhead
  <2>3. channel \notin LooseApps
    BY <1>4 DEF StepAhead, LooseApps
  <2> QED  BY <2>1, <2>2, <2>3 DEF StepAhead
<1>6. todo' = f \o t
  BY <1>2
<1> HIDE DEF t
<1>7. /\ IsAList(f \o t) /\ Len(f \o t) = Len(f) + Len(t) /\ Len(f) \in Nat /\ Len(t) \in Nat
      /\ \A i \in 1..Len(f) : (f \o t)[i] = f[i]
      /\ \A i \in (Len(f) + 1)..(Len(f) + Len(t)) : (f \o t)[i] = t[i - Len(f)]
  BY <1>3, <1>4, JoinedList
<1>8. IsAList(todo)'
  BY <1>6, <1>7 DEF IsAList
<1>9. ASSUME NEW i \in (Len(f) + 1)..Len(todo')
      PROVE  /\ todo'[i].name \notin Lasting \cup {"channel"} /\ todo'[i].kind = "main"
             /\ todo'[i].awaited = TRUE
  <2>1. i - Len(f) \in 1..Len(t) /\ todo'[i] = t[i - Len(f)]
    BY <1>6, <1>7
  <2> QED  BY <1>5, <2>1
<1>10. Len(todo') = Len(f) + Len(t) /\ Len(todo') \in Nat
  BY <1>6, <1>7
<1>11. \A i \in 1..Len(f) : todo'[i] = f[i] /\ i \in 1..Len(todo')
  BY <1>6, <1>7
<1>12. channel' = c
  BY <1>2
<1>13. Flowed(f, c)
  BY <1>3, <1>7, <1>8, <1>9, <1>10, <1>11, <1>12 DEF Flowed
<1> QED  BY <1>13

(* The order of the list is kept by all of them.                            *)
LEMMA OrderStep == ASSUME StepsOrdered, SetupNext PROVE StepsOrdered'
<1>1. CASE UNCHANGED ahead
  BY <1>1 DEF StepsOrdered, StepAhead, ahead
<1>2. CASE Passing
  <2>1. ASSUME NEW i \in 1..Len(todo') PROVE StepAhead(i)'
    <3>1. StepAhead(i + 1) /\ todo'[i] = todo[i + 1] /\ channel' = channel
      BY <1>2, PassedList DEF StepsOrdered
    <3>2. ASSUME NEW j \in (i + 1)..Len(todo')
          PROVE  todo'[j] = todo[j + 1] /\ j + 1 \in ((i + 1) + 1)..Len(todo)
      BY <1>2, PassedList DEF StepsOrdered
    <3> QED  BY <3>1, <3>2 DEF StepAhead
  <2> QED  BY <1>2, <2>1, PassedList DEF StepsOrdered
<1>3. CASE Begun
  <2>1. IsAList(todo)' /\ Len(todo') = 11
    BY <1>3, MainStepsAre DEF Begun, IsAList
  <2>2. ASSUME NEW i \in 1..11 PROVE StepAhead(i)'
    <3>1. todo' = MainSteps /\ channel' = "none"
      BY <1>3 DEF Begun
    <3>2. ASSUME todo'[i].name = "channel", NEW j \in (i + 1)..Len(todo')
          PROVE  j = 11
      BY <2>1, <3>1, <3>2, MainStepsAre
    <3>3. todo'[11].name \notin Lasting \cup {"channel"}
      BY <3>1, MainStepsAre DEF Lasting
    <3> QED  BY <2>1, <3>1, <3>2, <3>3, MainStepsAre DEF StepAhead
  <2> QED  BY <2>1, <2>2 DEF StepsOrdered
<1>4. CASE Zoned
  <2>1. channel = "none" /\ channel' = "none"
    BY <1>4, ZonedList DEF StepsOrdered, StepAhead, Lasting
  <2>2. StepAhead(1)'
    BY <1>4, <2>1, ZonedList DEF StepAhead, Step, MainNames, Lasting
  <2>3. ASSUME NEW i \in 2..Len(todo) PROVE StepAhead(i)'
    <3>1. StepAhead(i)
      BY <1>4, ZonedList DEF StepsOrdered
    <3>2. \A j \in (i + 1)..Len(todo') : todo'[j] = todo[j] /\ j \in (i + 1)..Len(todo)
      BY <1>4, ZonedList
    <3> QED  BY <1>4, <2>1, <3>1, <3>2, ZonedList DEF StepAhead
  <2> QED  BY <1>4, <2>2, <2>3, ZonedList DEF StepsOrdered
<1>5. CASE Flowing
  <2>1. PICK c, f : Flowed(f, c)
    BY <1>5, FlowingList
  <2>2. c # "none"
    BY <2>1 DEF Flowed, Apps
  <2>3. ASSUME NEW i \in 1..Len(f) PROVE StepAhead(i)'
    <3>1. FlowStep(f, i, c) /\ todo'[i] = f[i] /\ channel' = c
      BY <2>1 DEF Flowed, GoodFlow
    <3> QED  BY <2>2, <3>1 DEF StepAhead, FlowStep, MainNames
  <2>4. ASSUME NEW i \in (Len(f) + 1)..Len(todo') PROVE StepAhead(i)'
    BY <2>1, <2>2 DEF StepAhead, Flowed
  <2> QED  BY <2>1, <2>3, <2>4 DEF StepsOrdered, Flowed
<1> QED  BY <1>1, <1>2, <1>3, <1>4, <1>5, Moves

-----------------------------------------------------------------------------
(* What is behind is done *)

(* The effects of the main steps stay.                                      *)
LEMMA FactsGrow == ASSUME SetupNext PROVE facts \subseteq facts'
<1>1. CASE Asks \/ LeavesOut \/ Environment \/ ExistingEnv
  BY <1>1 DEF Asks, LeavesOut, Environment, ExistingEnv, machine
<1>2. CASE Container \/ Onecli \/ Mounts \/ CliAgent
  BY <1>2 DEF Container, Onecli, Mounts, CliAgent, Sets
<1>3. CASE Auth \/ Service \/ Timezone \/ Zone
  BY <1>3 DEF Auth, Service, Timezone, Zone
<1>4. CASE Channel \/ Checks \/ Installs \/ LinksAccount \/ Accounts \/ Packages \/ Inits
  BY <1>4 DEF Channel, Checks, Installs, LinksAccount, Accounts, Packages, Inits, machine
<1>5. CASE Verify \/ GivesUp \/ Retries \/ Starts \/ ReexecUnderSg
  BY <1>5 DEF Verify, GivesUp, Retries, Starts, ReexecUnderSg, Begin, machine
<1> QED  BY <1>1, <1>2, <1>3, <1>4, <1>5 DEF SetupNext

(* A main step is left behind with its effect.                              *)
LEMMA PassedIsDone ==
    ASSUME StepsOrdered, Recorded, SetupNext, Passing, ~Begun
    PROVE  /\ Head(todo).name \in Lasting => Head(todo).name \in facts'
           /\ Head(todo).kind = "zone" => "timezone" \in facts'
<1> DEFINE h == Head(todo)
<1>1. /\ h.awaited = TRUE \/ (h.awaited = FALSE /\ channel \in LooseApps)
      /\ h.kind # "main" => h.name \notin MainNames
      /\ h.kind \notin {"main", "zone"} => channel # "none"
      /\ channel # "none" => h.name \notin Lasting /\ h.kind # "zone"
  BY Listed DEF StepsOrdered, StepAhead, Passing
<1>2. todo # todo'
  BY PassedList DEF StepsOrdered, Passing
<1>3. ASSUME Fails(h), h.kind = "zone" \/ h.name \in Lasting PROVE FALSE
  <2>1. h.awaited = FALSE
    BY <1>1, <1>2, <1>3, FailsIs DEF ahead
  <2>2. channel \in LooseApps
    BY <1>1, <2>1
  <2> QED  BY <1>1, <1>3, <2>2 DEF LooseApps
<1> HIDE DEF h
<1> SUFFICES /\ h.name \in Lasting => h.name \in facts'
             /\ h.kind = "zone" => "timezone" \in facts'
  BY DEF h
<1>4. CASE Asks \/ Checks \/ Installs \/ LinksAccount \/ Accounts \/ Packages \/ Inits
  BY <1>1, <1>4 DEF Asks, Checks, Installs, LinksAccount, Accounts, Packages, Inits, RunsKind,
      MainNames, h
<1>5. CASE LeavesOut
  BY <1>5, FactsGrow DEF LeavesOut, RunsKind, Recorded, h
<1>6. CASE Environment \/ ExistingEnv \/ Channel \/ Verify
  BY <1>1, <1>6 DEF Environment, ExistingEnv, Channel, Verify, Running, MainNames, Lasting, h
<1>7. CASE Container \/ Onecli \/ Mounts \/ CliAgent
  BY <1>1, <1>3, <1>7
  DEF Container, Onecli, Mounts, CliAgent, Sets, Running, MainNames, Lasting, h
<1>8. CASE Auth
  BY <1>1, <1>2, <1>3, <1>8 DEF Auth, Running, Exits, ahead, MainNames, Lasting, h
<1>9. CASE Service
  BY <1>1, <1>3, <1>9 DEF Service, Running, MainNames, Lasting, h
<1>10. CASE Timezone
  <2>1. h.name = "timezone" /\ h.kind # "zone"
    BY <1>1, <1>10 DEF Timezone, Running, MainNames, Lasting, h
  <2>2. todo' = Tail(todo) /\ Len(todo') = Len(todo) - 1
    BY PassedList DEF StepsOrdered, Passing, Passed
  <2>3. ~Zoned
    <3>1. Len(todo) \in Nat
      BY Listed DEF StepsOrdered, Passing
    <3>2. Zoned => Len(todo') = Len(todo)
      BY ZonedList
    <3>3. Len(todo) # Len(todo) - 1
      BY <3>1
    <3> QED  BY <2>2, <3>2, <3>3
  <2> QED  BY <1>10, <2>1, <2>3 DEF Timezone, Zoned
<1>11. CASE Zone
  BY <1>1, <1>2, <1>3, <1>11 DEF Zone, RunsKind, Exits, ahead, MainNames, h
<1>12. CASE GivesUp
  BY <1>2, <1>12 DEF GivesUp, Exits, ahead
<1>13. CASE ReexecUnderSg \/ Retries \/ Starts
  BY <1>13 DEF ReexecUnderSg, Retries, Starts, Begin, Begun
<1> QED
  BY <1>4, <1>5, <1>6, <1>7, <1>8, <1>9, <1>10, <1>11, <1>12, <1>13 DEF SetupNext

(* What is not ahead any more is done.                                      *)
LEMMA PastStep ==
    ASSUME StepsOrdered, Recorded, SetupNext, NEW n \in Lasting, Ahead(n) \/ n \in facts
    PROVE  Ahead(n)' \/ n \in facts'
<1>1. n \in facts => n \in facts'
  BY FactsGrow
<1>2. CASE UNCHANGED ahead
  BY <1>1, <1>2 DEF Ahead, ahead
<1>3. CASE Begun
  BY <1>3, MainStepsAre DEF Begun, Ahead
<1>4. CASE Passing /\ ~Begun
  <2>1. ASSUME Ahead(n), n \notin facts' PROVE Ahead(n)'
    <3>1. PICK i \in 1..Len(todo) :
             todo[i].name = n \/ (n = "timezone" /\ todo[i].kind = "zone")
      BY <2>1 DEF Ahead, StepsOrdered, IsAList
    <3>2. i # 1
      BY <1>4, <2>1, <3>1, PassedIsDone, PassedList DEF StepsOrdered
    <3>3. i - 1 \in 1..Len(todo') /\ todo'[i - 1] = todo[(i - 1) + 1]
      BY <1>4, <3>1, <3>2, PassedList DEF StepsOrdered
    <3>4. \E j \in 1..Len(todo') : todo'[j] = todo[i]
      BY <3>1, <3>3
    <3>5. PICK j \in 1..Len(todo') : todo'[j] = todo[i]
      BY <3>4
    <3>6. DOMAIN todo' = 1..Len(todo')
      BY <1>4, PassedList DEF StepsOrdered, IsAList
    <3> QED  BY <3>1, <3>5, <3>6 DEF Ahead
  <2> QED  BY <1>1, <2>1
<1>5. CASE Zoned
  <2>1. ASSUME Ahead(n) PROVE Ahead(n)'
    <3>1. PICK i \in 1..Len(todo) :
             todo[i].name = n \/ (n = "timezone" /\ todo[i].kind = "zone")
      BY <2>1 DEF Ahead, StepsOrdered, IsAList
    <3>2. DOMAIN todo' = 1..Len(todo) /\ 1 \in 1..Len(todo)
      BY <1>5, ZonedList DEF IsAList
    <3>3. CASE i = 1 \/ n = "timezone"
      <4>1. n = "timezone"
        BY <1>5, <3>1, <3>3, ZonedList DEF StepsOrdered, StepAhead, MainNames, Lasting
      <4>2. todo'[1].kind = "zone"
        BY <1>5, ZonedList DEF Step
      <4> QED  BY <3>2, <4>1, <4>2 DEF Ahead
    <3>4. CASE i # 1
      <4>1. todo'[i] = todo[i]
        BY <1>5, <3>1, <3>4, ZonedList
      <4> QED  BY <3>1, <3>2, <4>1 DEF Ahead
    <3> QED  BY <3>3, <3>4
  <2> QED  BY <1>1, <2>1
<1>6. CASE Flowing
  <2>1. todo # <<>> /\ Head(todo).name = "channel"
    BY <1>6 DEF Flowing, Running
  <2>2. todo[1].name = "channel" /\ 1 \in 1..Len(todo) /\ StepAhead(1) /\ Len(todo) \in Nat
    BY <2>1, Listed DEF StepsOrdered
  <2>3. ASSUME NEW i \in 1..Len(todo)
        PROVE  todo[i].name \notin Lasting /\ todo[i].kind # "zone"
    <3>1. CASE i = 1
      BY <2>2, <3>1 DEF StepAhead, MainNames, Lasting
    <3>2. CASE i \in 2..Len(todo)
      BY <2>2, <3>2 DEF StepAhead
    <3> QED  BY <2>2, <3>1, <3>2
  <2>4. ~Ahead(n)
    BY <2>3 DEF Ahead, StepsOrdered, IsAList
  <2> QED  BY <1>1, <2>4
<1> QED  BY <1>2, <1>3, <1>4, <1>5, <1>6, Moves

(* No main step with an effect is ahead of a step of a flow.                *)
LEMMA FlowIsLate ==
    ASSUME StepsOrdered, PastIsDone, todo # <<>>, Head(todo).kind \notin {"main", "zone"}
    PROVE  Lasting \subseteq facts
<1>1. channel # "none"
  BY Listed DEF StepsOrdered, StepAhead
<1>2. \A n \in Lasting : ~Ahead(n)
  BY <1>1 DEF Ahead, StepsOrdered, StepAhead, IsAList
<1> QED  BY <1>2 DEF PastIsDone

(* The main steps that are left out, carried over or completed were done.   *)
Kept == \A m \in Lasting : m \in (skip \cup carried \cup completed)' => m \in facts'

(* What is logged as completed was done.                                    *)
LEMMA LogKeeps ==
    ASSUME Recorded, SetupNext, NEW n, NEW ok \in BOOLEAN, Log(n, ok),
           ok = TRUE /\ n \in Lasting => n \in facts'
    PROVE  Kept
BY FactsGrow DEF Log, Logged, Recorded, Kept

LEMMA KeptIf ==
    ASSUME Recorded, SetupNext, UNCHANGED process
    PROVE  Kept
BY FactsGrow DEF Recorded, process, Kept

(* What the process remembers as done was done.                             *)
LEMMA RecordedStep ==
    ASSUME StepsOrdered, Recorded, PastIsDone, SetupNext
    PROVE  Recorded'
<1>0. \A n \in Lasting : n \in facts => n \in facts'
  BY FactsGrow
<1>1. wired' # {} => "cli-agent" \in facts'
  <2>1. CASE Inits
    <3>1. todo # <<>> /\ Head(todo).kind = "init"
      BY <2>1 DEF Inits, RunsKind
    <3> QED  BY <1>0, <3>1, FlowIsLate DEF Lasting
  <2>2. CASE ~Inits
    <3>1. wired' = wired
      BY <2>2 DEF SetupNext, Asks, LeavesOut, Environment, ExistingEnv, Container, ReexecUnderSg,
         Onecli, Auth, Mounts, Service, CliAgent, Sets, Timezone, Zone, Channel, Checks, Installs,
         LinksAccount, Accounts, Packages, Verify, GivesUp, Retries, Starts, Begin, machine
    <3> QED  BY <1>0, <3>1 DEF Recorded, Lasting
  <2> QED  BY <2>1, <2>2
<1> SUFFICES Kept
  BY <1>1 DEF Recorded, Kept
<1>2. CASE Asks \/ LeavesOut \/ Channel \/ Accounts \/ GivesUp
  BY <1>2, KeptIf DEF Asks, LeavesOut, Channel, Accounts, GivesUp, Exits
<1>3. CASE Environment \/ Verify
  BY <1>3, LogKeeps DEF Environment, Verify, Lasting, Kept
<1>4. CASE Container \/ Onecli \/ Mounts \/ CliAgent
  BY <1>4, LogKeeps DEF Container, Onecli, Mounts, CliAgent, Sets, Kept
<1>5. CASE Auth
  <2>1. PICK ok \in BOOLEAN :
           UNCHANGED process \/ (Log("auth", ok) /\ (ok = TRUE => "auth" \in facts'))
    BY <1>5 DEF Auth, Exits
  <2> QED  BY <2>1, LogKeeps, KeptIf DEF Kept
<1>6. CASE Service
  BY <1>6, LogKeeps DEF Service, Kept
<1>7. CASE Timezone
  BY <1>7, LogKeeps DEF Timezone, Kept
<1>8. CASE Zone
  BY <1>8, LogKeeps, KeptIf DEF Zone, Kept, Exits
<1>9. CASE Checks \/ Installs \/ LinksAccount \/ Packages \/ Inits
  <2>1. todo # <<>> /\ Head(todo).kind \notin {"main", "zone"}
    BY <1>9 DEF Checks, Installs, LinksAccount, Packages, Inits, RunsKind
  <2>2. Lasting \subseteq facts'
    BY <1>0, <2>1, FlowIsLate
  <2> QED  BY <2>2 DEF Kept
<1>10. CASE ExistingEnv
  <2>1. \A n \in TakenOver : n \in Lasting => n \in facts
    BY DEF TakenOver, Registered, Recorded, Lasting
  <2> QED  BY <1>10, <2>1, <1>0, KeptIf DEF ExistingEnv, Kept, Recorded, Exits
<1>11. CASE ReexecUnderSg \/ Retries \/ Starts
  BY <1>0, <1>11 DEF ReexecUnderSg, Retries, Starts, Begin, Resumed, Recorded, Kept
<1> QED
  BY <1>2, <1>3, <1>4, <1>5, <1>6, <1>7, <1>8, <1>9, <1>10, <1>11 DEF SetupNext

-----------------------------------------------------------------------------
(* Adapters and types *)

(* A step of a flow belongs to an app.                                      *)
LEMMA FlowOfAnApp ==
    ASSUME StepsOrdered, SetupTypeOK, todo # <<>>, Head(todo).kind \notin {"main", "zone"}
    PROVE  channel \in Apps
<1>1. channel # "none"
  BY Listed DEF StepsOrdered, StepAhead
<1> QED  BY <1>1, AppsAre DEF SetupTypeOK

(* Only the build and the install scripts touch the adapters.               *)
LEMMA AdaptersElsewhere ==
    ASSUME SetupNext, ~Service, ~Installs
    PROVE  UNCHANGED <<adapter, broken>>
BY DEF SetupNext, Asks, LeavesOut, Environment, ExistingEnv, Container, ReexecUnderSg,
       Onecli, Auth, Mounts, CliAgent, Sets, Timezone, Zone, Channel, Checks,
       LinksAccount, Accounts, Packages, Inits, Verify, GivesUp, Retries, Starts, Begin, machine

(* An install script ends with the adapter in the build, or takes a broken  *)
(* one for finished.                                                        *)
LEMMA InstallStep ==
    ASSUME SetupTypeOK, BreaksKnown, StepsOrdered, Installs
    PROVE  /\ adapter' \in [Channels -> {"none", "copied", "packaged", "built"}]
           /\ broken' \subseteq Channels /\ BreaksKnown'
           /\ \A c \in Apps : Works(c) => Works(c)'
           /\ InstallEnds => Works(channel)'
<1> USE AppsAre
<1>1. channel \in Apps
  BY FlowOfAnApp DEF Installs, RunsKind
<1>2. adapter \in [Apps -> {"none", "copied", "packaged", "built"}] /\ broken \subseteq Apps
  BY DEF SetupTypeOK
<1>3. CASE InstallEnds
  <2>1. broken' = broken /\ channel' = channel
    BY <1>3 DEF InstallEnds, Goes, Passed
  <2>2. CASE adapter' = adapter /\ adapter[channel] # "none" /\ channel # "signal"
    BY <1>1, <1>2, <2>1, <2>2 DEF BreaksKnown, Works
  <2>3. CASE adapter' = Compiled([adapter EXCEPT ![channel] = "packaged"])
    <3>1. \A c \in Apps : adapter'[c] =
             IF c = channel \/ adapter[c] = "packaged" THEN "built" ELSE adapter[c]
      BY <1>1, <1>2, <2>3 DEF Compiled
    <3>2. adapter' \in [Apps -> {"none", "copied", "packaged", "built"}]
      BY <1>1, <1>2, <2>3 DEF Compiled
    <3> QED  BY <1>1, <1>2, <2>1, <3>1, <3>2 DEF BreaksKnown, Works
  <2> QED  BY <1>3, <2>2, <2>3 DEF InstallEnds, NeedsInstall
<1>4. CASE InstallFails /\ ~InstallEnds
  BY <1>1, <1>2, <1>4 DEF InstallFails, NeedsInstall, CopiedAs, BreaksKnown, Works
<1> QED  BY <1>3, <1>4 DEF Installs

(* An adapter that works goes on working.                                   *)
LEMMA AdapterStep ==
    ASSUME SetupTypeOK, BreaksKnown, StepsOrdered, SetupNext
    PROVE  /\ adapter' \in [Channels -> {"none", "copied", "packaged", "built"}]
           /\ broken' \subseteq Channels /\ BreaksKnown'
           /\ \A c \in Apps : Works(c) => Works(c)'
<1>1. CASE Service
  BY <1>1, AppsAre DEF Service, Compiled, BreaksKnown, Works, SetupTypeOK
<1>2. CASE Installs
  BY <1>2, InstallStep
<1>3. CASE ~Service /\ ~Installs
  BY <1>3, AdaptersElsewhere DEF BreaksKnown, Works, SetupTypeOK
<1> QED  BY <1>1, <1>2, <1>3

(* Accounts and chats are added by the flow of their app.                   *)
LEMMA AccountStep ==
    ASSUME SetupTypeOK, StepsOrdered, SetupNext
    PROVE  /\ linked \subseteq linked' /\ linked' \subseteq Channels
           /\ creds' \subseteq Channels /\ wired' \subseteq Channels
           /\ ~Inits => wired' = wired
           /\ Inits => wired' \subseteq wired \cup {channel}
<1>1. CASE Inits \/ LinksAccount \/ Accounts \/ Installs
  <2>1. channel \in Channels
    BY <1>1, FlowOfAnApp, AppsAre DEF Inits, LinksAccount, Accounts, Installs, RunsKind
  <2>2. CASE Inits
    BY <2>1, <2>2 DEF Inits, SetupTypeOK
  <2>3. CASE LinksAccount /\ ~Inits
    BY <2>1, <2>3 DEF LinksAccount, SetupTypeOK
  <2>4. CASE Accounts /\ ~Inits
    BY <2>1, <2>4 DEF Accounts, SetupTypeOK
  <2>5. CASE Installs /\ ~Inits
    BY <2>1, <2>5 DEF Installs, InstallEnds, InstallFails, SetupTypeOK
  <2> QED  BY <1>1, <2>2, <2>3, <2>4, <2>5
<1>2. CASE ~Inits /\ ~LinksAccount /\ ~Accounts /\ ~Installs
  <2>1. UNCHANGED <<linked, creds, wired>>
    BY <1>2
    DEF SetupNext, Asks, LeavesOut, Environment, ExistingEnv, Container, ReexecUnderSg,
        Onecli, Auth, Mounts, Service, CliAgent, Sets, Timezone, Zone, Channel, Checks,
        Packages, Verify, GivesUp, Retries, Starts, Begin, machine
  <2> QED  BY <1>2, <2>1 DEF SetupTypeOK
<1> QED  BY <1>1, <1>2

(* The rest of the types.                                                   *)
LEMMA ScalarStep ==
    ASSUME SetupTypeOK, StepsOrdered, SetupNext
    PROVE  /\ channel' \in Channels \cup {"none"}
           /\ mode' \in {"run", "failing", "over", "ready", "almost"}
           /\ facts' \subseteq Lasting
           /\ runs' \in 1..MaxRuns /\ faults' \in 0..MaxFaults
<1> USE SetupAssumption
<1>1. channel' \in Channels \cup {"none"}
  <2>1. CASE Flowing
    BY <2>1 DEF Flowing
  <2>2. CASE ~Flowing
    BY <2>2, Moves DEF Begun, Passing, Passed, Zoned, ahead, SetupTypeOK
  <2> QED  BY <2>1, <2>2
<1>2. facts' \subseteq Lasting
  BY DEF SetupNext, Asks, LeavesOut, Environment, ExistingEnv, Container, ReexecUnderSg,
        Onecli, Auth, Mounts, Service, CliAgent, Sets, Timezone, Zone, Channel, Checks, Installs,
        LinksAccount, Accounts, Packages, Inits, Verify, GivesUp, Retries, Starts, Begin, machine,
        SetupTypeOK, Lasting
<1>3. runs' \in 1..MaxRuns
  <2>1. runs' = runs \/ (runs < MaxRuns /\ runs' = runs + 1)
    BY DEF SetupNext, Asks, LeavesOut, Environment, ExistingEnv, Container, ReexecUnderSg,
        Onecli, Auth, Mounts, Service, CliAgent, Sets, Timezone, Zone, Channel, Checks, Installs,
        LinksAccount, Accounts, Packages, Inits, Verify, GivesUp, Retries, Starts, Begin
  <2> QED  BY <2>1 DEF SetupTypeOK
<1>4. faults' \in 0..MaxFaults
  <2>1. faults' = faults \/ Faulty
    BY DEF SetupNext, Asks, LeavesOut, Environment, ExistingEnv, Container, ReexecUnderSg,
        Onecli, Auth, Mounts, Service, CliAgent, Sets, Timezone, Zone, Channel, Checks, Installs,
        InstallEnds, InstallFails,
        LinksAccount, Accounts, Packages, Inits, Verify, GivesUp, Retries, Starts, Begin
  <2> QED  BY <2>1 DEF Faulty, SetupTypeOK
<1>5. mode' \in {"run", "failing", "over", "ready", "almost"}
  BY DEF SetupNext, Asks, LeavesOut, Environment, ExistingEnv, Container, ReexecUnderSg,
        Onecli, Auth, Mounts, Service, CliAgent, Sets, Timezone, Zone, Channel, Checks, Installs,
        InstallEnds, InstallFails, Goes, Fails, Exits,
        LinksAccount, Accounts, Packages, Inits, Verify, GivesUp, Retries, Starts, Begin,
        SetupTypeOK
<1> QED  BY <1>1, <1>2, <1>3, <1>4, <1>5

-----------------------------------------------------------------------------
(* Wiring *)

(* A script to install, or a link, is left behind with its effect.          *)
LEMMA InstalledBehind ==
    ASSUME SetupTypeOK, BreaksKnown, StepsOrdered, SetupNext, Passing, ~Begun,
           channel \notin LooseApps
    PROVE  /\ Head(todo).kind = "install" => Works(channel)'
           /\ Head(todo).kind = "link" => channel \in linked'
<1> DEFINE h == Head(todo)
<1>1. /\ h.awaited = TRUE
      /\ h.kind # "main" => h.name \notin MainNames
  BY Listed DEF StepsOrdered, StepAhead, Passing
<1>2. todo # todo'
  BY PassedList DEF StepsOrdered, Passing
<1>3. ~Fails(h)
  BY <1>1, <1>2, FailsIs DEF ahead
<1> HIDE DEF h
<1>4. CASE h.kind = "install"
  <2>1. Installs
    BY <1>1, <1>2, <1>4
    DEF SetupNext, Asks, LeavesOut, Environment, ExistingEnv, Container, ReexecUnderSg,
        Onecli, Auth, Mounts, Service, CliAgent, Sets, Timezone, Zone, Channel, Checks,
        LinksAccount, Accounts, Packages, Inits, Verify, GivesUp, Retries, Starts, Begin, Begun,
        Running, RunsKind, Exits, ahead, MainNames, Lasting, h
  <2>2. InstallEnds
    BY <1>3, <2>1 DEF Installs, InstallFails, h
  <2> QED  BY <1>4, <2>1, <2>2, InstallStep DEF h
<1>5. CASE h.kind = "link"
  <2>1. LinksAccount
    BY <1>1, <1>2, <1>5
    DEF SetupNext, Asks, LeavesOut, Environment, ExistingEnv, Container, ReexecUnderSg,
        Onecli, Auth, Mounts, Service, CliAgent, Sets, Timezone, Zone, Channel, Checks,
        Installs, Accounts, Packages, Inits, Verify, GivesUp, Retries, Starts, Begin, Begun,
        Running, RunsKind, Exits, ahead, MainNames, Lasting, h
  <2> QED  BY <1>3, <1>5, <2>1 DEF LinksAccount, h
<1> QED  BY <1>4, <1>5 DEF h

(* The steps that make a chat work stay ahead of its wiring, or were done.  *)
LEMMA PreparedStep ==
    ASSUME SetupTypeOK, BreaksKnown, StepsOrdered, Prepared, SetupNext
    PROVE  Prepared'
<1> SUFFICES ASSUME NEW i \in 1..Len(todo'), todo'[i].kind = "init", channel' \notin LooseApps
             PROVE  InitReady(i)'
  BY DEF Prepared
<1>1. \A c \in Apps : (Works(c) => Works(c)') /\ (c \in linked => c \in linked')
  BY AdapterStep, AccountStep
<1>2. Len(todo') \in Nat
  BY OrderStep DEF StepsOrdered, IsAList
<1>3. CASE UNCHANGED ahead
  <2>1. channel \in Apps /\ InitReady(i)
    BY <1>3, AppsAre DEF ahead, Prepared, StepsOrdered, StepAhead, SetupTypeOK
  <2> QED  BY <1>1, <1>3, <2>1 DEF ahead, InitReady, Before
<1>4. CASE Passing /\ ~Begun
  <2>1. i + 1 \in 1..Len(todo) /\ todo[i + 1].kind = "init" /\ channel' = channel
    BY <1>4, PassedList DEF StepsOrdered
  <2>2. channel \in Apps /\ InitReady(i + 1)
    BY <2>1, AppsAre DEF Prepared, StepsOrdered, StepAhead, SetupTypeOK
  <2>3. ASSUME NEW k, Before(todo, i + 1, k)
        PROVE  Head(todo).kind = k \/ Before(todo', i, k)
    <3>1. PICK j \in 1..((i + 1) - 1) : todo[j].kind = k
      BY <2>3 DEF Before
    <3>2. CASE j = 1
      BY <1>4, <3>1, <3>2, PassedList DEF StepsOrdered
    <3>3. CASE j # 1
      <4>1. j - 1 \in 1..(i - 1) /\ j - 1 \in 1..Len(todo')
        BY <1>2, <3>1, <3>3
      <4>2. todo'[j - 1] = todo[(j - 1) + 1]
        BY <1>4, <4>1, PassedList DEF StepsOrdered
      <4>3. todo'[j - 1].kind = k
        BY <3>1, <4>2
      <4> QED  BY <4>1, <4>3 DEF Before
    <3> QED  BY <3>2, <3>3
  <2>4. /\ Head(todo).kind = "install" => Works(channel)'
        /\ Head(todo).kind = "link" => channel \in linked'
    BY <1>4, <2>1, InstalledBehind
  <2>5. Works(channel)' \/ Before(todo', i, "install")
    BY <1>1, <2>1, <2>2, <2>3, <2>4 DEF InitReady, Works
  <2>6. channel \in Linking => channel \in linked' \/ Before(todo', i, "link")
    BY <1>1, <2>2, <2>3, <2>4 DEF InitReady
  <2> QED  BY <2>1, <2>5, <2>6 DEF InitReady, Before
<1>5. CASE Begun
  BY <1>5, MainStepsAre DEF Begun
<1>6. CASE Zoned
  <2>1. channel = "none" /\ channel' = "none"
    BY <1>6, ZonedList DEF StepsOrdered, StepAhead, Lasting
  <2> QED  BY <2>1, OrderStep DEF StepsOrdered, StepAhead
<1>7. CASE Flowing
  <2>1. PICK c, f : Flowed(f, c)
    BY <1>7, FlowingList
  <2>2. i \in 1..Len(f)
    BY <1>2, <2>1 DEF Flowed
  <2>3. /\ FlowStep(f, i, c) /\ f[i].kind = "init" /\ channel' = c
        /\ \A j \in 1..Len(f) : todo'[j] = f[j]
    BY <2>1, <2>2 DEF Flowed, GoodFlow
  <2>4. ASSUME NEW k, Before(f, i, k) PROVE Before(todo', i, k)
    <3>1. PICK j \in 1..(i - 1) : f[j].kind = k
      BY <2>4 DEF Before
    <3>2. j \in 1..Len(f)
      BY <2>1, <2>2, <3>1 DEF Flowed
    <3> QED  BY <2>3, <3>1, <3>2 DEF Before
  <2> QED  BY <2>3, <2>4 DEF FlowStep, InitReady, Before
<1> QED  BY <1>3, <1>4, <1>5, <1>6, <1>7, Moves

(* A chat is wired by a step whose adapter works and whose account is there.*)
LEMMA WiredStep ==
    ASSUME SetupTypeOK, BreaksKnown, StepsOrdered, Prepared, WiredWorks, SetupNext
    PROVE  WiredWorks'
<1> SUFFICES ASSUME NEW c \in wired', c \notin LooseApps
             PROVE  Works(c)' /\ (c \in Linking => c \in linked')
  BY DEF WiredWorks, Works
<1>1. c \in Apps
  BY AccountStep, AppsAre
<1>2. (Works(c) => Works(c)') /\ (c \in linked => c \in linked')
  BY <1>1, AdapterStep, AccountStep
<1>3. CASE c \in wired
  BY <1>2, <1>3 DEF WiredWorks, Works
<1>4. CASE c \notin wired
  <2>1. Inits /\ c = channel
    BY <1>4, AccountStep
  <2>2. todo # <<>> /\ Head(todo).kind = "init"
    BY <2>1 DEF Inits, RunsKind
  <2>3. InitReady(1)
    BY <2>1, <2>2, Listed DEF Prepared, StepsOrdered
  <2> QED  BY <1>2, <2>1, <2>3 DEF InitReady, Before
<1> QED  BY <1>3, <1>4

-----------------------------------------------------------------------------

(* The list of steps is in order, what is recorded as done was done, and    *)
(* what a wired chat needs comes before its wiring, for any number of runs  *)
(* of the installer and of failures (setup/auto.ts, fail(), the flows).     *)
THEOREM SetupInductive == SetupSpec => []SetupInv
<1>1. SetupInit => SetupInv
  <2> SUFFICES ASSUME SetupInit PROVE SetupInv
    OBVIOUS
  <2>1. /\ todo \in Seq({Main(n) : n \in MainNames}) /\ Len(todo) = 11
        /\ \A i \in 1..11 : todo[i].kind = "main" /\ todo[i].awaited = TRUE
        /\ \A i \in 1..11 : todo[i].name = "channel" => i = 10
        /\ todo[11].name = "verify" /\ channel = "none"
        /\ \A n \in Lasting : \E i \in 1..11 : todo[i].name = n
    BY MainStepsAre DEF SetupInit
  <2>2. StepsOrdered
    BY <2>1 DEF StepsOrdered, StepAhead, IsAList, Lasting
  <2>3. Prepared
    BY <2>1 DEF Prepared
  <2>4. SetupTypeOK
    BY SetupAssumption DEF SetupInit, SetupTypeOK
  <2>5. PastIsDone
    BY <2>1, <2>4 DEF PastIsDone, Ahead
  <2>6. Recorded /\ BreaksKnown /\ WiredWorks
    BY AppsAre DEF SetupInit, Recorded, BreaksKnown, WiredWorks
  <2> QED  BY <2>2, <2>3, <2>5, <2>6 DEF SetupInv
<1>2. SetupInv /\ [SetupNext]_setupVars => SetupInv'
  <2> SUFFICES ASSUME SetupInv, [SetupNext]_setupVars PROVE SetupInv'
    OBVIOUS
  <2>1. SetupTypeOK
    BY DEF SetupInv, PastIsDone
  <2>2. CASE SetupNext
    <3>1. SetupTypeOK'
      BY <2>1, <2>2, AdapterStep, AccountStep, ScalarStep, AppsAreNext, AppsAre
      DEF SetupInv, SetupTypeOK
    <3>2. PastIsDone'
      BY <2>2, <3>1, PastStep DEF SetupInv, PastIsDone
    <3>3. StepsOrdered' /\ Recorded' /\ BreaksKnown' /\ Prepared'
      BY <2>1, <2>2, OrderStep, RecordedStep, AdapterStep, PreparedStep DEF SetupInv
    <3>4. WiredWorks'
      BY <2>1, <2>2, WiredStep DEF SetupInv
    <3> QED  BY <3>2, <3>3, <3>4 DEF SetupInv
  <2>3. CASE UNCHANGED setupVars
    BY <2>3, AppsAre, AppsAreNext
    DEF SetupInv, StepsOrdered, StepAhead, Recorded, BreaksKnown, Prepared, InitReady, Works,
        PastIsDone, SetupTypeOK, Ahead, WiredWorks, setupVars, ahead, process, machine
  <2> QED  BY <2>2, <2>3
<1> QED  BY <1>1, <1>2, PTL DEF SetupSpec

(* What a process of the installer has behind it is on the machine, however *)
(* it got there: run, skipped, taken over from .env or tried again (main,   *)
(* fail(), NANOCLAW_SKIP).                                                  *)
THEOREM PastStepsAreDone == SetupSpec => []PastIsDone
<1>1. SetupInv => PastIsDone
  BY DEF SetupInv
<1> QED  BY <1>1, SetupInductive, PTL

(* A chat that is wired belongs to an app whose adapter is in the build and *)
(* whose account is linked, but for a broken installation and the apps      *)
(* whose failures are not awaited (setup/channels, init-first-agent.ts).    *)
THEOREM WiredChatsWork == SetupSpec => []WiredWorks
<1>1. SetupInv => WiredWorks
  BY DEF SetupInv
<1> QED  BY <1>1, SetupInductive, PTL
=============================================================================
